----------------------------- MODULE SchemaProofs -----------------------------
(***************************************************************************)
(* Proofs about the upgrade of the database: whichever processes take part *)
(* in it and wherever they are stopped, a database that claims the present *)
(* version is whole, and cursors of the time before file_mtime are reset.  *)
(***************************************************************************)
EXTENDS Schema, WellFoundedInduction, TLAPS

(* The places in a migration, and those that show what has been done.      *)
AfterColumns == {"plain", "file_mtime", "reset", "fts", "rebuild", "legacy", "import",
                 "insert", "seqs", "alter", "number", "stamp"}
AfterPlain   == AfterColumns \ {"plain"}
AfterMtime   == AfterPlain \ {"file_mtime"}
AfterFts     == {"legacy", "import", "insert", "seqs", "alter", "number", "stamp"}
AfterBatch   == AfterColumns \cup {"version", "columns"}
Migrating    == AfterBatch \cup {"batch"}

Places       == Migrating \cup {"look"} \cup Done

Queues    == UNION {[waiting -> Nat] : waiting \in SUBSET Sessions}
Databases == [version : Versions \cup {SCHEMA_VERSION}, tables : SUBSET {"sessions", "queue"},
              columns : SUBSET Columns, porter : BOOLEAN, scan : {"old", "reset", "new"},
              queue : Queues, done : SUBSET Sessions]

(* A queue: it has a greatest place, and who has none waited in the old.   *)
Numbered(q) == \A s \in DOMAIN q : q[s] # 0
QueueOK(q)  == /\ q \in Queues
               /\ \E b \in Nat : \A s \in DOMAIN q : q[s] <= b
               /\ \A s \in DOMAIN q : q[s] = 0 => s \in ToSet(Waiting)

(* What holds of a database d whoever looks at it.                         *)
DbOK(d) ==
  /\ d \in Databases
  /\ QueueOK(d.queue)
  /\ "queue" \in d.tables /\ d.version < Queued => "enqueue_seq" \in d.columns
  /\ d.version >= InOrder => "enqueue_seq" \in d.columns /\ Numbered(d.queue)
  /\ d.version >= SCHEMA_VERSION => d.columns = Columns /\ d.porter
  /\ "sessions" \notin d.tables => d.scan # "old"

(* What a process has read or done, r, that d still shows.                 *)
RecOK(r, d) ==
  /\ r \in Process /\ r.saw \subseteq d.columns /\ r.ver <= d.version
  /\ r.at \in Migrating => d.version <= SCHEMA_VERSION
  /\ r.at \in AfterBatch => "queue" \in d.tables
  /\ r.at \in AfterColumns \cup {"columns"} /\ r.ver < Queued => "enqueue_seq" \in d.columns
  /\ r.at \in AfterPlain => "plain" \in d.columns
  /\ r.at \in AfterMtime => "file_mtime" \in d.columns
  /\ r.at \in AfterFts => d.porter
  /\ r.at \in {"number", "stamp"} => "enqueue_seq" \in d.columns
  /\ r.at = "stamp" => Numbered(d.queue)
  /\ r.at = "insert" => r.todo # <<>> /\ r.next # 0

(* The old cursors stay only where their reset is still to come.           *)
ScanOK ==
  db.scan = "old" /\ ~cut =>
    "file_mtime" \notin db.columns \/ \E p \in Procs : proc[p].at = "reset"

RestOK == /\ legacy \in Seq(Sessions) /\ gone \subseteq Sessions
          /\ cut \in BOOLEAN /\ crossed \in BOOLEAN
          /\ kills \in 0 .. MaxKills /\ opens \in 0 .. MaxOpens /\ work \in 0 .. MaxWork

SInv == /\ DbOK(db) /\ proc = [p \in Procs |-> proc[p]]
        /\ \A p \in Procs : RecOK(proc[p], db)
        /\ ScanOK /\ RestOK

(* A database only gains: what a process may rely on stays.                *)
Gains(d, e) ==
  /\ d.tables \subseteq e.tables /\ d.columns \subseteq e.columns
  /\ d.porter => e.porter
  /\ Numbered(d.queue) => Numbered(e.queue)
  /\ d.version <= e.version
  /\ d.version <= SCHEMA_VERSION => e.version <= SCHEMA_VERSION

-----------------------------------------------------------------------------
(* Queues.                                                                 *)

(* A set of numbers below a bound has a greatest one: the least of its     *)
(* upper bounds is in it.                                                  *)
LEMMA GreatestExists ==
  ASSUME NEW S \in SUBSET Nat, S # {}, NEW b \in Nat, \A n \in S : n <= b
  PROVE  \E n \in S : \A m \in S : m <= n
<1> DEFINE U == {u \in Nat : \A n \in S : n <= u}
           R == OpToRel(<, Nat)
<1>1. \E x \in U : \A y \in U : ~(<<y, x>> \in R)
  <2>1. U \subseteq Nat /\ b \in U
    OBVIOUS
  <2>2. IsWellFoundedOn(R, Nat)
    BY NatLessThanWellFounded
  <2> HIDE DEF R, U
  <2> QED BY <2>1, <2>2, WFMin
<1>2. PICK u \in U : \A y \in U : ~(<<y, u>> \in R)
  BY <1>1
<1>3. \A y \in U : ~(y < u)
  BY <1>2 DEF OpToRel
<1>4. u \in S
  <2> SUFFICES ASSUME u \notin S PROVE FALSE
    OBVIOUS
  <2>1. PICK n \in S : TRUE
    OBVIOUS
  <2>2. \A m \in S : m \in Nat /\ m <= u - 1
    BY SMT
  <2>3. n <= u - 1 /\ n \in Nat
    BY <2>1, <2>2
  <2>4. u - 1 \in Nat
    BY <2>3, SMT
  <2>5. u - 1 \in U
    BY <2>2, <2>4
  <2> QED BY <1>3, <2>5, SMT
<1> QED BY <1>4

(* A queue is a function on the sessions that wait.                        *)
LEMMA QueueIs ==
  ASSUME NEW q, QueueOK(q)
  PROVE  q \in [DOMAIN q -> Nat] /\ DOMAIN q \in SUBSET Sessions
  BY DEF QueueOK, Queues

(* It has a last place.                                                    *)
LEMMA MaxSeqIs ==
  ASSUME NEW q, QueueOK(q)
  PROVE  MaxSeq(q) \in Nat /\ \A s \in DOMAIN q : q[s] <= MaxSeq(q)
<1> DEFINE S == {0} \cup Range(q)
<1>1. S \in SUBSET Nat /\ S # {}
  BY QueueIs DEF Range
<1>2. PICK b \in Nat : \A s \in DOMAIN q : q[s] <= b
  BY DEF QueueOK
<1>3. \A n \in S : n <= b
  BY <1>2, SMT DEF Range
<1> HIDE DEF S
<1>4. PICK top \in S : \A m \in S : m <= top
  BY <1>1, <1>3, GreatestExists
<1>5. \E x \in S : \A y \in S : x >= y
  BY <1>1, <1>4, SMT
<1>6. Max(S) \in S /\ \A n \in S : Max(S) >= n
  BY <1>5 DEF Max
<1>7. \A s \in DOMAIN q : q[s] \in S
  BY DEF S, Range
<1>8. \A s \in DOMAIN q : q[s] <= Max(S)
  <2> DEFINE m == Max(S)
  <2>1. m \in Nat /\ \A n \in S : n \in Nat /\ m >= n
    BY <1>1, <1>6
  <2> HIDE DEF m
  <2>2. \A n \in S : n <= m
    BY <2>1, SMT
  <2> QED BY <1>7, <2>2 DEF m
<1> QED BY <1>1, <1>6, <1>8 DEF MaxSeq, S

(* A session enters the queue.                                             *)
LEMMA InsertKeeps ==
  ASSUME NEW q, QueueOK(q), NEW s \in Sessions, NEW n \in Nat, n # 0
  PROVE  /\ QueueOK(InsertOrIgnore(q, s, n))
         /\ Numbered(q) => Numbered(InsertOrIgnore(q, s, n))
<1> DEFINE e == InsertOrIgnore(q, s, n)
<1>1. q \in [DOMAIN q -> Nat] /\ DOMAIN q \in SUBSET Sessions
  BY QueueIs
<1>2. /\ DOMAIN e = DOMAIN q \cup {s} /\ e \in [DOMAIN q \cup {s} -> Nat]
      /\ \A t \in DOMAIN q : e[t] = q[t]
      /\ \A t \in DOMAIN e \ DOMAIN q : e[t] = n
  BY <1>1 DEF InsertOrIgnore
<1> HIDE DEF e
<1>3. e \in Queues
  BY <1>1, <1>2 DEF Queues
<1>4. \E b \in Nat : \A t \in DOMAIN e : e[t] <= b
  <2>1. PICK b \in Nat : \A t \in DOMAIN q : q[t] <= b
    BY DEF QueueOK
  <2>2. b + n \in Nat /\ \A t \in DOMAIN e : e[t] <= b + n
    BY <1>1, <1>2, <2>1, SMT
  <2> QED BY <2>2
<1>5. \A t \in DOMAIN e : e[t] = 0 => t \in ToSet(Waiting)
  BY <1>2 DEF QueueOK
<1>6. Numbered(q) => Numbered(e)
  BY <1>2 DEF Numbered
<1> QED BY <1>3, <1>4, <1>5, <1>6 DEF QueueOK, e

(* Sessions leave it.                                                      *)
LEMMA RestrictKeeps ==
  ASSUME NEW q, QueueOK(q), NEW D \in SUBSET (DOMAIN q)
  PROVE  QueueOK(Restrict(q, D)) /\ (Numbered(q) => Numbered(Restrict(q, D)))
<1>1. q \in [DOMAIN q -> Nat] /\ DOMAIN q \in SUBSET Sessions
  BY QueueIs
<1> DEFINE e == Restrict(q, D)
<1>2. DOMAIN e = D /\ e \in [D -> Nat] /\ \A t \in D : e[t] = q[t]
  BY <1>1 DEF Restrict
<1> HIDE DEF e
<1>3. e \in Queues
  BY <1>1, <1>2 DEF Queues
<1>4. \E b \in Nat : \A t \in DOMAIN e : e[t] <= b
  BY <1>2 DEF QueueOK
<1> QED BY <1>2, <1>3, <1>4 DEF QueueOK, Numbered, e

(* A session that waited has a place in the old queue.                     *)
LEMMA PlaceIs ==
  ASSUME NEW s \in ToSet(Waiting)
  PROVE  Place(s) \in Nat \ {0} /\ Place(s) <= Len(Waiting)
<1>1. \E i \in DOMAIN Waiting : Waiting[i] = s
  BY DEF ToSet
<1>2. Place(s) \in DOMAIN Waiting
  BY <1>1 DEF Place
<1>3. DOMAIN Waiting = 1 .. Len(Waiting) /\ Len(Waiting) \in Nat
  BY SchemaAssumption DEF SchemaAssumption
<1> QED BY <1>2, <1>3, SMT

(* Those that have no number get one.                                      *)
LEMMA NumberKeeps ==
  ASSUME NEW q, QueueOK(q)
  PROVE  LET e == [s \in DOMAIN q |-> IF q[s] = 0 THEN Place(s) ELSE q[s]]
         IN  QueueOK(e) /\ Numbered(e)
<1> DEFINE e == [s \in DOMAIN q |-> IF q[s] = 0 THEN Place(s) ELSE q[s]]
<1>1. q \in [DOMAIN q -> Nat] /\ DOMAIN q \in SUBSET Sessions
  BY QueueIs
<1>2. \A s \in DOMAIN q : q[s] = 0 => Place(s) \in Nat \ {0} /\ Place(s) <= Len(Waiting)
  BY PlaceIs DEF QueueOK
<1>3. /\ DOMAIN e = DOMAIN q
      /\ \A s \in DOMAIN q : e[s] = IF q[s] = 0 THEN Place(s) ELSE q[s]
      /\ e = [s \in DOMAIN q |-> e[s]]
  OBVIOUS
<1> HIDE DEF e
<1>4. \A s \in DOMAIN q : e[s] \in Nat \ {0}
  BY <1>1, <1>2, <1>3
<1>5. e \in Queues
  BY <1>1, <1>3, <1>4 DEF Queues
<1>6. \E b \in Nat : \A s \in DOMAIN e : e[s] <= b
  <2>1. PICK b \in Nat : \A s \in DOMAIN q : q[s] <= b
    BY DEF QueueOK
  <2>2. Len(Waiting) \in Nat
    BY SchemaAssumption DEF SchemaAssumption
  <2>3. b + Len(Waiting) \in Nat /\ \A s \in DOMAIN e : e[s] <= b + Len(Waiting)
    <3>1. b + Len(Waiting) \in Nat
      BY <2>2, SMT
    <3>2. ASSUME NEW s \in DOMAIN e PROVE e[s] <= b + Len(Waiting)
      <4>1. q[s] \in Nat /\ q[s] <= b
        BY <1>1, <1>3, <2>1
      <4>2. CASE q[s] = 0
        BY <1>2, <1>3, <2>2, <4>2, SMT
      <4>3. CASE q[s] # 0
        BY <1>3, <2>2, <4>1, <4>3, SMT
      <4> QED BY <4>2, <4>3
    <3> QED BY <3>1, <3>2
  <2> QED BY <2>3
<1> QED BY <1>3, <1>4, <1>5, <1>6 DEF QueueOK, Numbered, e

-----------------------------------------------------------------------------
(* Steps of a process.                                                     *)

(* A version is a number.                                                  *)
LEMMA VersionIs == ASSUME NEW d \in Databases PROVE d.version \in Nat
<1>1. d.version \in Versions \cup {7}
  BY DEF Databases, SCHEMA_VERSION
<1>2. \A v \in Versions : v = 0 \/ v \in 4 .. 8
  BY SchemaAssumption, SMT DEF SchemaAssumption, SCHEMA_VERSION, Fresh, Queued
<1> QED BY <1>1, <1>2, SMT

(* What a process relies on stays while the database gains.                *)
LEMMA GainsKeep ==
  ASSUME NEW r, NEW d \in Databases, NEW e \in Databases, RecOK(r, d), Gains(d, e)
  PROVE  RecOK(r, e)
<1>1. d.version \in Nat /\ e.version \in Nat /\ r.ver \in Nat
  BY VersionIs DEF RecOK, Process
<1>2. /\ r \in Process /\ r.saw \subseteq e.columns
      /\ r.at \in AfterBatch => "queue" \in e.tables
      /\ r.at \in AfterColumns \cup {"columns"} /\ r.ver < Queued => "enqueue_seq" \in e.columns
      /\ r.at \in AfterPlain => "plain" \in e.columns
      /\ r.at \in AfterMtime => "file_mtime" \in e.columns
      /\ r.at \in AfterFts => e.porter
      /\ r.at \in {"number", "stamp"} => "enqueue_seq" \in e.columns
      /\ r.at = "stamp" => Numbered(e.queue)
      /\ r.at = "insert" => r.todo # <<>> /\ r.next # 0
      /\ r.at \in Migrating => e.version <= SCHEMA_VERSION
  BY DEF RecOK, Gains
<1>3. r.ver <= e.version
  BY <1>1, SMT DEF RecOK, Gains
<1> QED BY <1>2, <1>3 DEF RecOK

(* A process moves on and the database gains.                              *)
LEMMA OneMoves ==
  ASSUME SInv, NEW p \in Procs, NEW r, proc' = [proc EXCEPT ![p] = r],
         Gains(db, db'), DbOK(db'), RecOK(r, db')
  PROVE  /\ DbOK(db)' /\ proc' = [q \in Procs |-> proc'[q]]
         /\ \A q \in Procs : RecOK(proc'[q], db')
         /\ proc'[p] = r /\ \A q \in Procs \ {p} : proc'[q] = proc[q]
<1>1. proc = [q \in Procs |-> proc[q]]
  BY DEF SInv
<1>2. /\ proc'[p] = r /\ \A q \in Procs \ {p} : proc'[q] = proc[q]
      /\ proc' = [q \in Procs |-> proc'[q]]
  BY <1>1, Zenon
<1>3. db \in Databases /\ db' \in Databases
  BY DEF SInv, DbOK
<1>4. \A q \in Procs \ {p} : RecOK(proc[q], db')
  BY <1>3, GainsKeep DEF SInv
<1> QED BY <1>2, <1>4

(* A record keeps its type in any place.                                   *)
LEMMA PlaceKeeps ==
  ASSUME NEW u \in Process, NEW at \in Places
  PROVE  [u EXCEPT !.at = at] \in Process
<1>1. at \in Done \cup {"look", "batch", "version", "columns", "plain", "file_mtime",
                       "reset", "fts", "rebuild", "legacy", "import", "insert", "seqs",
                       "alter", "number", "stamp"}
  BY DEF Places, Migrating, AfterBatch, AfterColumns
<1> QED BY <1>1, Zenon DEF Process

(* A process that has ended its migration has a record too.                *)
LEMMA ClosedIs == \A at \in Done : [Closed EXCEPT !.at = at] \in Process
<1>1. Closed \in Process
  BY DEF Closed, Process, Done
<1>2. Done \subseteq Places
  BY DEF Places
<1> QED BY <1>1, <1>2, PlaceKeeps

(* The record of a process that goes to another place.                     *)
LEMMA GoesTo ==
  ASSUME SInv, NEW p \in Procs, NEW at, Goes(p, at)
  PROVE  \E r : /\ proc' = [proc EXCEPT ![p] = r] /\ r.at = at
                /\ at \in Places => r \in Process
                /\ at \in Done => r = [Closed EXCEPT !.at = at]
                /\ at \notin Done => /\ r.ver = proc[p].ver /\ r.saw = proc[p].saw
                                     /\ r.todo = proc[p].todo /\ r.next = proc[p].next
                                     /\ r = [proc[p] EXCEPT !.at = at]
<1>1. proc[p] \in Process
  BY DEF SInv, RecOK
<1>2. CASE at \in Done
  <2> DEFINE r == [Closed EXCEPT !.at = at]
  <2>1. proc' = [proc EXCEPT ![p] = r]
    BY <1>2 DEF Goes
  <2>2. r.at = at
    BY DEF Closed
  <2>3. r \in Process
    BY <1>2, ClosedIs
  <2> QED BY <1>2, <2>1, <2>2, <2>3
<1>3. CASE at \notin Done
  <2> DEFINE r == [proc[p] EXCEPT !.at = at]
  <2>1. proc' = [proc EXCEPT ![p] = r]
    BY <1>3 DEF Goes
  <2>2. /\ r.at = at /\ r.ver = proc[p].ver /\ r.saw = proc[p].saw
        /\ r.todo = proc[p].todo /\ r.next = proc[p].next
    BY <1>1 DEF Process
  <2>3. at \in Places => r \in Process
    BY <1>1, PlaceKeeps
  <2> QED BY <1>3, <2>1, <2>2, <2>3
<1> QED BY <1>2, <1>3

(* A process that has ended its migration relies on nothing.               *)
LEMMA DoneRelies ==
  ASSUME NEW at \in Done, NEW d \in Databases
  PROVE  RecOK([Closed EXCEPT !.at = at], d)
<1> DEFINE r == [Closed EXCEPT !.at = at]
<1>1. r \in Process
  BY ClosedIs
<1>2. r.at = at /\ r.saw = {} /\ r.ver = 0
  BY DEF Closed
<1>3. d.version \in Nat
  BY VersionIs
<1>4. at \notin Migrating /\ at \notin AfterBatch /\ at \notin AfterColumns \cup {"columns"}
  BY DEF Done, Migrating, AfterBatch, AfterColumns
<1> HIDE DEF r
<1>5. /\ r.at \notin AfterPlain /\ r.at \notin AfterMtime /\ r.at \notin AfterFts
      /\ r.at \notin {"number", "stamp"} /\ r.at # "stamp" /\ r.at # "insert"
  BY <1>2 DEF Done, AfterPlain, AfterMtime, AfterFts, AfterColumns
<1>6. 0 <= d.version
  BY <1>3, SMT
<1> QED BY <1>1, <1>2, <1>4, <1>5, <1>6 DEF RecOK, r

(* Places for which the process relies on nothing but the columns it saw.  *)
LEMMA GainsNothing == ASSUME NEW d \in Databases PROVE Gains(d, d)
<1>1. d.version \in Nat
  BY VersionIs
<1>2. d.version <= d.version
  BY <1>1, SMT
<1> QED BY <1>2 DEF Gains

(* The rest of the state in the steps of a migration.                      *)
LEMMA StillRest ==
  ASSUME SInv, Still
  PROVE  RestOK' /\ cut' = cut
  BY DEF SInv, RestOK, Still

(* The old cursors when nobody leaves the reset and no column comes.       *)
LEMMA ScanStays ==
  ASSUME SInv, cut' = cut,
         db'.scan = "old" /\ "file_mtime" \in db'.columns =>
           db.scan = "old" /\ "file_mtime" \in db.columns,
         \A q \in Procs : proc[q].at = "reset" => proc'[q].at = "reset"
  PROVE  ScanOK'
<1> SUFFICES ASSUME db'.scan = "old", ~cut, "file_mtime" \in db'.columns
             PROVE  \E q \in Procs : proc'[q].at = "reset"
  BY DEF ScanOK
<1>1. PICK q \in Procs : proc[q].at = "reset"
  BY DEF SInv, ScanOK
<1> QED BY <1>1

(* A process that is not at the reset moves on to r, which the database    *)
(* bears out, and leaves the database.                                     *)
LEMMA ReadStep ==
  ASSUME SInv, NEW p \in Procs, NEW r, proc' = [proc EXCEPT ![p] = r],
         RecOK(r, db), db' = db, RestOK', cut' = cut, proc[p].at # "reset"
  PROVE  SInv'
<1>1. db \in Databases /\ DbOK(db)
  BY DEF SInv, DbOK
<1>2. /\ DbOK(db)' /\ proc' = [q \in Procs |-> proc'[q]]
      /\ \A q \in Procs : RecOK(proc'[q], db')
      /\ proc'[p] = r /\ \A q \in Procs \ {p} : proc'[q] = proc[q]
  <2>1. Gains(db, db') /\ DbOK(db') /\ RecOK(r, db')
    BY <1>1, GainsNothing
  <2> QED BY <2>1, OneMoves
<1>3. ScanOK'
  BY <1>2, ScanStays
<1> QED BY <1>2, <1>3 DEF SInv

(* A process changes the database, which gains, moves on to r, and leaves  *)
(* the old cursors to whoever is at their reset.                           *)
LEMMA WriteStep ==
  ASSUME SInv, NEW p \in Procs, NEW r, proc' = [proc EXCEPT ![p] = r],
         RecOK(r, db'), DbOK(db'), Gains(db, db'), Still, proc[p].at # "reset",
         db'.scan = "old" /\ "file_mtime" \in db'.columns =>
           db.scan = "old" /\ "file_mtime" \in db.columns
  PROVE  SInv'
<1>1. /\ DbOK(db)' /\ proc' = [q \in Procs |-> proc'[q]]
      /\ \A q \in Procs : RecOK(proc'[q], db')
      /\ proc'[p] = r /\ \A q \in Procs \ {p} : proc'[q] = proc[q]
  BY OneMoves
<1>2. RestOK' /\ cut' = cut
  BY StillRest
<1>3. ScanOK'
  BY <1>1, <1>2, ScanStays
<1> QED BY <1>1, <1>2, <1>3 DEF SInv

(* What a process knows at the start of a step.                            *)
LEMMA AtStep ==
  ASSUME SInv, NEW p \in Procs
  PROVE  /\ proc[p] \in Process /\ RecOK(proc[p], db)
         /\ proc[p].todo \in Seq(Sessions) /\ proc[p].next \in Nat
         /\ db \in Databases /\ DbOK(db) /\ QueueOK(db.queue)
         /\ db.version \in Nat
<1>1. RecOK(proc[p], db) /\ DbOK(db) /\ db \in Databases /\ proc[p] \in Process
      /\ QueueOK(db.queue)
  BY DEF SInv, DbOK, RecOK
<1> QED BY <1>1, VersionIs DEF Process

-----------------------------------------------------------------------------
(* Opening and closing.                                                    *)

(* A process opens the database.                                           *)
LEMMA OpenStep ==
  ASSUME SInv, NEW p \in Procs, Open(p)
  PROVE  SInv'
<1>1. PICK r : /\ proc' = [proc EXCEPT ![p] = r] /\ r.at = "look" /\ r \in Process
               /\ r.ver = proc[p].ver /\ r.saw = proc[p].saw
  BY GoesTo DEF Open, Done, Places
<1>2. RecOK(r, db)
  BY <1>1, AtStep DEF RecOK, Migrating, AfterBatch, AfterColumns, AfterPlain, AfterMtime, AfterFts
<1>3. RestOK'
  BY SchemaAssumption, SMT DEF SchemaAssumption, SInv, RestOK, Open
<1>4. db' = db /\ cut' = cut /\ proc[p].at # "reset"
  BY DEF Open, At
<1> QED BY <1>1, <1>2, <1>3, <1>4, ReadStep

(* It looks at the version.                                                *)
LEMMA LookStep ==
  ASSUME SInv, NEW p \in Procs, Look(p)
  PROVE  SInv'
<1>0. /\ db' = db /\ Still /\ RestOK' /\ cut' = cut /\ proc[p].at # "reset"
      /\ db \in Databases
  BY StillRest, AtStep DEF Look, At, Reads
<1>1. ASSUME NEW at \in Done, Goes(p, at) PROVE SInv'
  <2>1. PICK r : proc' = [proc EXCEPT ![p] = r] /\ r = [Closed EXCEPT !.at = at]
    BY <1>1, GoesTo
  <2>2. RecOK(r, db)
    BY <1>0, <2>1, DoneRelies
  <2> QED BY <1>0, <2>1, <2>2, ReadStep
<1>2. CASE db.version < SCHEMA_VERSION /\ Goes(p, "batch")
  <2>1. PICK r : /\ proc' = [proc EXCEPT ![p] = r] /\ r.at = "batch" /\ r \in Process
                 /\ r.ver = proc[p].ver /\ r.saw = proc[p].saw
    BY <1>2, GoesTo DEF Done, Places, Migrating
  <2>2. db.version <= SCHEMA_VERSION
    BY <1>2, AtStep, SMT DEF SCHEMA_VERSION
  <2>3. RecOK(r, db)
    BY <2>1, <2>2, AtStep DEF RecOK, Migrating, AfterBatch, AfterColumns, AfterPlain, AfterMtime, AfterFts
  <2> QED BY <1>0, <2>1, <2>3, ReadStep
<1>3. {"open", "closed", "reading"} \subseteq Done
  BY DEF Done
<1> QED BY <1>1, <1>2, <1>3 DEF Look

(* It closes the database.                                                 *)
LEMMA CloseStep ==
  ASSUME SInv, NEW p \in Procs, Close(p)
  PROVE  SInv'
<1>0. /\ db' = db /\ RestOK' /\ cut' = cut /\ proc[p].at # "reset"
      /\ db \in Databases /\ proc' = [proc EXCEPT ![p] = Closed]
  BY StillRest, AtStep DEF Close, Reads
<1>1. Closed = [Closed EXCEPT !.at = "closed"] /\ "closed" \in Done
  BY DEF Closed, Done
<1>2. RecOK(Closed, db)
  BY <1>0, <1>1, DoneRelies
<1> QED BY <1>0, <1>2, ReadStep

(* It is stopped, and if that was before the reset, this is noted.         *)
LEMMA StopStep ==
  ASSUME SInv, NEW p \in Procs, Interrupted(p)
  PROVE  SInv'
<1>0. /\ db' = db /\ cut' = (cut \/ proc[p].at = "reset") /\ db \in Databases
      /\ RestOK'
  BY AtStep, SchemaAssumption, SMT DEF SchemaAssumption, SInv, RestOK, Interrupted, At
<1>1. \E r : proc' = [proc EXCEPT ![p] = r] /\ RecOK(r, db)
  <2>1. CASE Goes(p, "look")
    <3>1. PICK r : /\ proc' = [proc EXCEPT ![p] = r] /\ r.at = "look" /\ r \in Process
                   /\ r.ver = proc[p].ver /\ r.saw = proc[p].saw
      BY <2>1, GoesTo DEF Done, Places
    <3>2. RecOK(r, db)
      BY <3>1, AtStep DEF RecOK, Migrating, AfterBatch, AfterColumns, AfterPlain, AfterMtime, AfterFts
    <3> QED BY <3>1, <3>2
  <2>2. CASE Goes(p, "closed")
    <3>1. "closed" \in Done
      BY DEF Done
    <3>2. PICK r : proc' = [proc EXCEPT ![p] = r] /\ r = [Closed EXCEPT !.at = "closed"]
      BY <2>2, <3>1, GoesTo
    <3> QED BY <1>0, <3>1, <3>2, DoneRelies
  <2> QED BY <2>1, <2>2 DEF Interrupted
<1>2. PICK r : proc' = [proc EXCEPT ![p] = r] /\ RecOK(r, db)
  BY <1>1
<1>3. /\ DbOK(db)' /\ proc' = [q \in Procs |-> proc'[q]]
      /\ \A q \in Procs : RecOK(proc'[q], db')
      /\ proc'[p] = r /\ \A q \in Procs \ {p} : proc'[q] = proc[q]
  <2>1. Gains(db, db') /\ DbOK(db') /\ RecOK(r, db')
    BY <1>0, <1>2, AtStep, GainsNothing
  <2> QED BY <1>2, <2>1, OneMoves
<1>4. ScanOK'
  <2> SUFFICES ASSUME db.scan = "old", ~cut', "file_mtime" \in db.columns
               PROVE  \E q \in Procs : proc'[q].at = "reset"
    BY <1>0 DEF ScanOK
  <2>1. ~cut /\ proc[p].at # "reset"
    BY <1>0 DEF SInv, RestOK
  <2>2. PICK q \in Procs : proc[q].at = "reset"
    BY <2>1 DEF SInv, ScanOK
  <2> QED BY <1>3, <2>1, <2>2
<1> QED BY <1>0, <1>3, <1>4 DEF SInv

-----------------------------------------------------------------------------
(* The migration.                                                          *)

(* Tables that are missing are made.                                       *)
LEMMA BatchStep ==
  ASSUME SInv, NEW p \in Procs, Batch(p)
  PROVE  SInv'
<1> DEFINE A == {c \in {"plain", "file_mtime"} : "sessions" \notin db.tables}
           B == {c \in {"enqueue_seq"} : "queue" \notin db.tables}
           e == [db EXCEPT !.tables = {"sessions", "queue"}, !.columns = @ \cup A \cup B]
<1>0. /\ proc[p].at = "batch" /\ Still /\ Goes(p, "version") /\ db' = e
      /\ db \in Databases /\ DbOK(db) /\ RecOK(proc[p], db) /\ db.version \in Nat
  BY AtStep DEF Batch, At
<1>1. db.columns \in SUBSET Columns /\ A \cup B \subseteq Columns
  BY <1>0 DEF Databases, Columns
<1>2. /\ e.tables = {"sessions", "queue"} /\ e.columns = db.columns \cup A \cup B
      /\ e.version = db.version /\ e.porter = db.porter /\ e.scan = db.scan
      /\ e.queue = db.queue
  BY <1>0 DEF Databases
<1>3. e \in Databases
  <2>1. db.columns \cup A \cup B \in SUBSET Columns /\ {"sessions", "queue"} \in SUBSET {"sessions", "queue"}
    BY <1>1
  <2> HIDE DEF A, B
  <2> QED BY <1>0, <2>1, Zenon DEF Databases
<1>4. "queue" \notin db.tables => "enqueue_seq" \in e.columns
  BY <1>2
<1>5. "file_mtime" \in e.columns => "file_mtime" \in db.columns \/ db.scan # "old"
  BY <1>0, <1>2 DEF DbOK
<1>6. db.columns \subseteq e.columns /\ e.columns \subseteq Columns
  BY <1>1, <1>2
<1> HIDE DEF e, A, B
<1>7. DbOK(e)
  BY <1>0, <1>2, <1>3, <1>4, <1>6 DEF DbOK
<1>8. Gains(db, e)
  <2>1. Gains(db, db)
    BY <1>0, GainsNothing
  <2>2. db.tables \subseteq e.tables
    BY <1>0, <1>2 DEF Databases
  <2> QED BY <1>2, <1>6, <2>1, <2>2 DEF Gains
<1>9. PICK r : /\ proc' = [proc EXCEPT ![p] = r] /\ r.at = "version" /\ r \in Process
               /\ r.ver = proc[p].ver /\ r.saw = proc[p].saw
  BY <1>0, GoesTo DEF Done, Places, Migrating, AfterBatch
<1>10. RecOK(r, e)
  <2>1. RecOK(proc[p], e)
    BY <1>0, <1>3, <1>8, GainsKeep
  <2> QED BY <1>0, <1>2, <1>9, <2>1 DEF RecOK, Migrating, AfterBatch, AfterColumns,
              AfterPlain, AfterMtime, AfterFts
<1> QED BY <1>0, <1>2, <1>5, <1>7, <1>8, <1>9, <1>10, WriteStep

(* The version, and then the columns, are read.                            *)
LEMMA ReadsOld ==
  ASSUME SInv, NEW p \in Procs, ReadVersion(p) \/ ReadColumns(p)
  PROVE  SInv'
<1>0. /\ db' = db /\ RestOK' /\ cut' = cut /\ proc[p].at # "reset"
      /\ proc[p] \in Process /\ RecOK(proc[p], db) /\ db.version \in Nat
      /\ DbOK(db) /\ db.columns \in SUBSET Columns
  <2>1. db \in Databases
    BY AtStep
  <2> QED BY <2>1, AtStep, StillRest DEF ReadVersion, ReadColumns, Reads, At, Databases
<1>1. CASE ReadVersion(p)
  <2> DEFINE r == [proc[p] EXCEPT !.at = "columns", !.ver = db.version]
  <2>1. proc' = [proc EXCEPT ![p] = r] /\ proc[p].at = "version"
    BY <1>1 DEF ReadVersion, At
  <2>2. r \in Process
    BY <1>0, Zenon DEF Process
  <2>3. r.at = "columns" /\ r.ver = db.version /\ r.saw = proc[p].saw
    BY <1>0 DEF Process
  <2> HIDE DEF r
  <2>4. db.version <= db.version
    BY <1>0, SMT
  <2>5. db.version < Queued => "enqueue_seq" \in db.columns
    BY <1>0, <2>1 DEF DbOK, RecOK, AfterBatch
  <2>6. RecOK(r, db)
    BY <1>0, <2>1, <2>2, <2>3, <2>4, <2>5 DEF RecOK, Migrating, AfterBatch, AfterColumns,
       AfterPlain, AfterMtime, AfterFts
  <2> QED BY <1>0, <2>1, <2>6, ReadStep
<1>2. CASE ReadColumns(p)
  <2> DEFINE r == [proc[p] EXCEPT !.at = "plain", !.saw = db.columns]
  <2>1. proc' = [proc EXCEPT ![p] = r] /\ proc[p].at = "columns"
    BY <1>2 DEF ReadColumns, At
  <2>2. r \in Process
    BY <1>0, Zenon DEF Process
  <2>3. r.at = "plain" /\ r.ver = proc[p].ver /\ r.saw = db.columns
    BY <1>0 DEF Process
  <2> HIDE DEF r
  <2>4. RecOK(r, db)
    BY <1>0, <2>1, <2>2, <2>3 DEF RecOK, Migrating, AfterBatch, AfterColumns,
       AfterPlain, AfterMtime, AfterFts
  <2> QED BY <1>0, <2>1, <2>4, ReadStep
<1> QED BY <1>1, <1>2

(* A database that has one more column.                                    *)
LEMMA ColumnGains ==
  ASSUME SInv, NEW c \in Columns
  PROVE  LET e == [db EXCEPT !.columns = @ \cup {c}]
         IN  /\ e \in Databases /\ DbOK(e) /\ Gains(db, e)
             /\ e.columns = db.columns \cup {c} /\ e.scan = db.scan
             /\ e.version = db.version /\ e.tables = db.tables
<1> DEFINE e == [db EXCEPT !.columns = @ \cup {c}]
<1>0. db \in Databases /\ DbOK(db) /\ db.columns \cup {c} \in SUBSET Columns
  <2>1. db \in Databases /\ DbOK(db)
    BY DEF SInv, DbOK
  <2> QED BY <2>1 DEF Databases
<1>1. e \in Databases
  BY <1>0, Zenon DEF Databases
<1>2. /\ e.tables = db.tables /\ e.columns = db.columns \cup {c}
      /\ e.version = db.version /\ e.porter = db.porter /\ e.scan = db.scan
      /\ e.queue = db.queue
  BY <1>0 DEF Databases
<1> HIDE DEF e
<1>3. DbOK(e)
  BY <1>0, <1>1, <1>2 DEF DbOK
<1>4. Gains(db, e)
  <2>1. Gains(db, db)
    BY <1>0, GainsNothing
  <2> QED BY <1>2, <2>1 DEF Gains
<1> QED BY <1>1, <1>2, <1>3, <1>4 DEF e

(* The plain column is added.                                              *)
LEMMA PlainStep ==
  ASSUME SInv, NEW p \in Procs, AddPlain(p)
  PROVE  SInv'
<1>0. /\ proc[p].at = "plain" /\ Still /\ RecOK(proc[p], db) /\ DbOK(db)
      /\ db \in Databases /\ "plain" \in Columns /\ Goes(p, "file_mtime")
      /\ RestOK' /\ cut' = cut
  BY AtStep, StillRest DEF AddPlain, AddColumn, At, Columns
<1>1. PICK r : /\ proc' = [proc EXCEPT ![p] = r] /\ r.at = "file_mtime" /\ r \in Process
               /\ r.ver = proc[p].ver /\ r.saw = proc[p].saw
  BY <1>0, GoesTo DEF Done, Places, Migrating, AfterBatch, AfterColumns
<1>2. ASSUME NEW d \in Databases, RecOK(proc[p], d), "plain" \in d.columns
      PROVE  RecOK(r, d)
  BY <1>0, <1>1, <1>2 DEF RecOK, Migrating, AfterBatch, AfterColumns, AfterPlain,
     AfterMtime, AfterFts
<1>3. CASE "plain" \in proc[p].saw
  <2>1. db' = db
    BY <1>3 DEF AddPlain, AddColumn
  <2>2. RecOK(r, db)
    BY <1>0, <1>2, <1>3 DEF RecOK
  <2> QED BY <1>0, <1>1, <2>1, <2>2, ReadStep
<1>4. CASE "plain" \notin proc[p].saw
  <2> DEFINE e == [db EXCEPT !.columns = @ \cup {"plain"}]
  <2>1. db' = e
    BY <1>4 DEF AddPlain, AddColumn
  <2>2. /\ e \in Databases /\ DbOK(e) /\ Gains(db, e)
        /\ e.columns = db.columns \cup {"plain"} /\ e.scan = db.scan
    BY <1>0, ColumnGains
  <2> HIDE DEF e
  <2>3. RecOK(r, e)
    BY <1>0, <1>2, <2>2, GainsKeep
  <2>4. "file_mtime" \in e.columns => "file_mtime" \in db.columns
    BY <2>2
  <2> QED BY <1>0, <1>1, <2>1, <2>2, <2>3, <2>4, WriteStep
<1> QED BY <1>3, <1>4

(* file_mtime is added, and the reset comes next.                          *)
LEMMA MtimeStep ==
  ASSUME SInv, NEW p \in Procs, AddMtime(p)
  PROVE  SInv'
<1>0. /\ proc[p].at = "file_mtime" /\ Still /\ RecOK(proc[p], db) /\ DbOK(db)
      /\ db \in Databases /\ "file_mtime" \in Columns /\ RestOK' /\ cut' = cut
  BY AtStep, StillRest DEF AddMtime, AddColumn, At, Columns
<1>1. CASE "file_mtime" \in proc[p].saw
  <2>1. db' = db /\ Goes(p, "fts")
    BY <1>1 DEF AddMtime, AddColumn
  <2>2. PICK r : /\ proc' = [proc EXCEPT ![p] = r] /\ r.at = "fts" /\ r \in Process
                 /\ r.ver = proc[p].ver /\ r.saw = proc[p].saw
    BY <2>1, GoesTo DEF Done, Places, Migrating, AfterBatch, AfterColumns
  <2>3. "file_mtime" \in db.columns
    BY <1>0, <1>1 DEF RecOK
  <2>4. RecOK(r, db)
    BY <1>0, <2>2, <2>3 DEF RecOK, Migrating, AfterBatch, AfterColumns, AfterPlain,
       AfterMtime, AfterFts
  <2> QED BY <1>0, <2>1, <2>2, <2>4, ReadStep
<1>2. CASE "file_mtime" \notin proc[p].saw
  <2> DEFINE e == [db EXCEPT !.columns = @ \cup {"file_mtime"}]
  <2>1. db' = e /\ Goes(p, "reset")
    BY <1>2 DEF AddMtime, AddColumn
  <2>2. PICK r : /\ proc' = [proc EXCEPT ![p] = r] /\ r.at = "reset" /\ r \in Process
                 /\ r.ver = proc[p].ver /\ r.saw = proc[p].saw
    BY <2>1, GoesTo DEF Done, Places, Migrating, AfterBatch, AfterColumns
  <2>3. /\ e \in Databases /\ DbOK(e) /\ Gains(db, e)
        /\ e.columns = db.columns \cup {"file_mtime"}
    BY <1>0, ColumnGains
  <2> HIDE DEF e
  <2>4. RecOK(proc[p], e)
    BY <1>0, <2>3, GainsKeep
  <2>5. RecOK(r, e)
    BY <1>0, <2>2, <2>3, <2>4 DEF RecOK, Migrating, AfterBatch, AfterColumns, AfterPlain,
       AfterMtime, AfterFts
  <2>6. /\ DbOK(db)' /\ proc' = [q \in Procs |-> proc'[q]]
        /\ \A q \in Procs : RecOK(proc'[q], db')
        /\ proc'[p] = r
    BY <2>1, <2>2, <2>3, <2>5, OneMoves
  <2>7. ScanOK'
    BY <2>2, <2>6 DEF ScanOK
  <2> QED BY <1>0, <2>6, <2>7 DEF SInv
<1> QED BY <1>1, <1>2

(* The cursors are reset.                                                  *)
LEMMA ResetStep ==
  ASSUME SInv, NEW p \in Procs, ResetScans(p)
  PROVE  SInv'
<1> DEFINE e == [db EXCEPT !.scan = "reset"]
<1>0. /\ proc[p].at = "reset" /\ Still /\ RecOK(proc[p], db) /\ DbOK(db)
      /\ db \in Databases /\ Goes(p, "fts") /\ RestOK' /\ db' = e
  BY AtStep, StillRest DEF ResetScans, At
<1>1. PICK r : /\ proc' = [proc EXCEPT ![p] = r] /\ r.at = "fts" /\ r \in Process
               /\ r.ver = proc[p].ver /\ r.saw = proc[p].saw
  BY <1>0, GoesTo DEF Done, Places, Migrating, AfterBatch, AfterColumns
<1>2. e \in Databases
  BY <1>0, Zenon DEF Databases
<1>3. /\ e.tables = db.tables /\ e.columns = db.columns /\ e.version = db.version
      /\ e.porter = db.porter /\ e.scan = "reset" /\ e.queue = db.queue
  BY <1>0 DEF Databases
<1> HIDE DEF e
<1>4. DbOK(e)
  BY <1>0, <1>2, <1>3 DEF DbOK
<1>5. Gains(db, e)
  <2>1. Gains(db, db)
    BY <1>0, GainsNothing
  <2> QED BY <1>3, <2>1 DEF Gains
<1>6. RecOK(r, e)
  <2>1. RecOK(proc[p], e)
    BY <1>0, <1>2, <1>5, GainsKeep
  <2> QED BY <1>0, <1>1, <2>1 DEF RecOK, Migrating, AfterBatch, AfterColumns, AfterPlain,
              AfterMtime, AfterFts
<1>7. /\ DbOK(db)' /\ proc' = [q \in Procs |-> proc'[q]]
      /\ \A q \in Procs : RecOK(proc'[q], db')
  BY <1>0, <1>1, <1>4, <1>5, <1>6, OneMoves
<1>8. ScanOK'
  BY <1>0, <1>3 DEF ScanOK
<1> QED BY <1>0, <1>7, <1>8 DEF SInv

(* The full-text index is looked at, and rebuilt.                          *)
LEMMA FtsSteps ==
  ASSUME SInv, NEW p \in Procs, LookAtFts(p) \/ RebuildFts(p)
  PROVE  SInv'
<1>0. /\ proc[p].at # "reset" /\ Still /\ RecOK(proc[p], db) /\ DbOK(db)
      /\ db \in Databases /\ RestOK' /\ cut' = cut
  BY AtStep, StillRest DEF LookAtFts, RebuildFts, Reads, At
<1>1. CASE LookAtFts(p)
  <2> DEFINE at == IF ~db.porter THEN "rebuild"
                   ELSE IF proc[p].ver < Queued THEN "legacy" ELSE "seqs"
  <2>1. db' = db /\ Goes(p, at) /\ proc[p].at = "fts"
    BY <1>1 DEF LookAtFts, Reads, At
  <2>2. at \in {"rebuild", "legacy", "seqs"} /\ (at # "rebuild" => db.porter)
    OBVIOUS
  <2> HIDE DEF at
  <2>3. at \notin Done /\ at \in Places
    BY <2>2 DEF Done, Places, Migrating, AfterBatch, AfterColumns
  <2>4. PICK r : /\ proc' = [proc EXCEPT ![p] = r] /\ r.at = at /\ r \in Process
                 /\ r.ver = proc[p].ver /\ r.saw = proc[p].saw
    BY <2>1, <2>3, GoesTo
  <2>5. RecOK(r, db)
    BY <1>0, <2>1, <2>2, <2>4 DEF RecOK, Migrating, AfterBatch, AfterColumns, AfterPlain,
       AfterMtime, AfterFts
  <2> QED BY <1>0, <2>1, <2>4, <2>5, ReadStep
<1>2. CASE RebuildFts(p)
  <2> DEFINE e == [db EXCEPT !.porter = TRUE]
  <2>1. db' = e /\ Goes(p, "fts") /\ proc[p].at = "rebuild"
    BY <1>2 DEF RebuildFts, At
  <2>2. PICK r : /\ proc' = [proc EXCEPT ![p] = r] /\ r.at = "fts" /\ r \in Process
                 /\ r.ver = proc[p].ver /\ r.saw = proc[p].saw
    BY <2>1, GoesTo DEF Done, Places, Migrating, AfterBatch, AfterColumns
  <2>3. e \in Databases
    BY <1>0, Zenon DEF Databases
  <2>4. /\ e.tables = db.tables /\ e.columns = db.columns /\ e.version = db.version
        /\ e.porter = TRUE /\ e.scan = db.scan /\ e.queue = db.queue
    BY <1>0 DEF Databases
  <2> HIDE DEF e
  <2>5. DbOK(e)
    BY <1>0, <2>3, <2>4 DEF DbOK
  <2>6. Gains(db, e)
    <3>1. Gains(db, db)
      BY <1>0, GainsNothing
    <3> QED BY <2>4, <3>1 DEF Gains
  <2>7. RecOK(r, e)
    <3>1. RecOK(proc[p], e)
      BY <1>0, <2>3, <2>6, GainsKeep
    <3> QED BY <2>1, <2>2, <3>1 DEF RecOK, Migrating, AfterBatch, AfterColumns, AfterPlain,
                AfterMtime, AfterFts
  <2>8. db'.scan = db.scan /\ db'.columns = db.columns
    BY <2>1, <2>4
  <2> QED BY <1>0, <2>1, <2>2, <2>5, <2>6, <2>7, <2>8, WriteStep
<1> QED BY <1>1, <1>2

(* The old queue is read, and the next of its sessions is looked up.       *)
LEMMA LegacySteps ==
  ASSUME SInv, NEW p \in Procs, ReadLegacy(p) \/ ImportNext(p)
  PROVE  SInv'
<1>0. /\ db' = db /\ RestOK' /\ cut' = cut /\ proc[p].at # "reset"
      /\ proc[p] \in Process /\ RecOK(proc[p], db) /\ QueueOK(db.queue)
      /\ proc[p].todo \in Seq(Sessions) /\ proc[p].next \in Nat
  <2>1. db' = db /\ cut' = cut /\ proc[p].at # "reset"
    BY DEF ReadLegacy, ImportNext, Reads, Still, At
  <2>2. RestOK'
    <3>1. CASE ReadLegacy(p)
      BY <3>1 DEF ReadLegacy, SInv, RestOK
    <3>2. CASE ImportNext(p)
      BY <3>2, StillRest DEF ImportNext, Reads
    <3> QED BY <3>1, <3>2
  <2> QED BY <2>1, <2>2, AtStep
<1>1. CASE ReadLegacy(p)
  <2> DEFINE r == [proc[p] EXCEPT !.at = "import", !.todo = legacy, !.next = MaxSeq(db.queue)]
  <2>1. proc' = [proc EXCEPT ![p] = r] /\ proc[p].at = "legacy"
    BY <1>1 DEF ReadLegacy, At
  <2>2. legacy \in Seq(Sessions) /\ MaxSeq(db.queue) \in Nat
    BY <1>0, MaxSeqIs DEF SInv, RestOK
  <2>3. r \in Process
    BY <1>0, <2>2, Zenon DEF Process
  <2>4. r.at = "import" /\ r.ver = proc[p].ver /\ r.saw = proc[p].saw
    BY <1>0 DEF Process
  <2> HIDE DEF r
  <2>5. RecOK(r, db)
    BY <1>0, <2>1, <2>3, <2>4 DEF RecOK, Migrating, AfterBatch, AfterColumns, AfterPlain,
       AfterMtime, AfterFts
  <2> QED BY <1>0, <2>1, <2>5, ReadStep
<1>2. CASE ImportNext(p)
  <2> DEFINE todo == proc[p].todo
  <2>0. proc[p].at = "import"
    BY <1>2 DEF ImportNext, At
  <2>1. ASSUME NEW r \in Process, proc' = [proc EXCEPT ![p] = r],
               r.ver = proc[p].ver, r.saw = proc[p].saw, r.at \in {"seqs", "import", "insert"},
               r.at = "insert" => r.todo # <<>> /\ r.next # 0
        PROVE  SInv'
    <3>1. RecOK(r, db)
      BY <1>0, <2>0, <2>1 DEF RecOK, Migrating, AfterBatch, AfterColumns, AfterPlain,
         AfterMtime, AfterFts
    <3> QED BY <1>0, <2>1, <3>1, ReadStep
  <2>2. CASE todo = <<>>
    <3> DEFINE r == [proc[p] EXCEPT !.at = "seqs"]
    <3>1. proc' = [proc EXCEPT ![p] = r]
      BY <1>2, <2>2 DEF ImportNext
    <3>2. r \in Process
      BY <1>0, Zenon DEF Process
    <3>3. r.ver = proc[p].ver /\ r.saw = proc[p].saw /\ r.at = "seqs"
      BY <1>0 DEF Process
    <3> HIDE DEF r
    <3> QED BY <2>1, <3>1, <3>2, <3>3
  <2>3. CASE todo # <<>> /\ Head(todo) \in db.done
    <3> DEFINE r == [proc[p] EXCEPT !.todo = Tail(todo)]
    <3>1. proc' = [proc EXCEPT ![p] = r]
      BY <1>2, <2>3 DEF ImportNext
    <3>2. Tail(todo) \in Seq(Sessions)
      BY <1>0, <2>3
    <3>3. r \in Process
      BY <1>0, <3>2, Zenon DEF Process
    <3>4. r.ver = proc[p].ver /\ r.saw = proc[p].saw /\ r.at = "import"
      BY <1>0, <2>0 DEF Process
    <3> HIDE DEF r
    <3> QED BY <2>1, <3>1, <3>3, <3>4
  <2>4. CASE todo # <<>> /\ Head(todo) \notin db.done
    <3> DEFINE r == [proc[p] EXCEPT !.at = "insert", !.next = proc[p].next + 1]
    <3>1. proc' = [proc EXCEPT ![p] = r]
      BY <1>2, <2>4 DEF ImportNext
    <3>2. proc[p].next + 1 \in Nat /\ proc[p].next + 1 # 0
      BY <1>0, SMT
    <3>3. r \in Process
      BY <1>0, <3>2, Zenon DEF Process
    <3>4. /\ r.ver = proc[p].ver /\ r.saw = proc[p].saw /\ r.at = "insert"
          /\ r.todo = proc[p].todo /\ r.next = proc[p].next + 1
      BY <1>0 DEF Process
    <3> HIDE DEF r
    <3> QED BY <2>1, <2>4, <3>1, <3>2, <3>3, <3>4
  <2> QED BY <2>2, <2>3, <2>4
<1> QED BY <1>1, <1>2

(* A database with another queue.                                          *)
LEMMA QueueGains ==
  ASSUME SInv, NEW q, QueueOK(q), Numbered(db.queue) => Numbered(q),
         NEW done \in SUBSET Sessions
  PROVE  LET e == [db EXCEPT !.queue = q, !.done = done]
         IN  /\ e \in Databases /\ DbOK(e) /\ Gains(db, e)
             /\ e.columns = db.columns /\ e.scan = db.scan /\ e.queue = q
<1> DEFINE e == [db EXCEPT !.queue = q, !.done = done]
<1>0. db \in Databases /\ DbOK(db) /\ q \in Queues
  BY DEF SInv, DbOK, QueueOK
<1>1. e \in Databases
  BY <1>0, Zenon DEF Databases
<1>2. /\ e.tables = db.tables /\ e.columns = db.columns
      /\ e.version = db.version /\ e.porter = db.porter /\ e.scan = db.scan
      /\ e.queue = q
  BY <1>0 DEF Databases
<1> HIDE DEF e
<1>3. DbOK(e)
  BY <1>0, <1>1, <1>2 DEF DbOK
<1>4. Gains(db, e)
  <2>1. Gains(db, db)
    BY <1>0, GainsNothing
  <2> QED BY <1>2, <2>1 DEF Gains
<1> QED BY <1>1, <1>2, <1>3, <1>4 DEF e

(* An EXCEPT that leaves done alone.                                       *)
LEMMA DoneSame ==
  ASSUME NEW d \in Databases, NEW q
  PROVE  [d EXCEPT !.queue = q] = [d EXCEPT !.queue = q, !.done = d.done]
  BY DEF Databases

(* A session of the old queue is written.                                  *)
LEMMA InsertStep ==
  ASSUME SInv, NEW p \in Procs, InsertNext(p)
  PROVE  SInv'
<1> DEFINE u == proc[p]
           q == InsertOrIgnore(db.queue, Head(u.todo), u.next)
           e == [db EXCEPT !.queue = q]
           r == [proc[p] EXCEPT !.at = "import", !.todo = Tail(proc[p].todo)]
<1>0. /\ u.at = "insert" /\ Still /\ u \in Process /\ RecOK(u, db) /\ db \in Databases
      /\ QueueOK(db.queue) /\ u.todo \in Seq(Sessions) /\ u.next \in Nat
      /\ u.todo # <<>> /\ u.next # 0
  BY AtStep DEF InsertNext, At, RecOK
<1>1. db' = e /\ proc' = [proc EXCEPT ![p] = r]
  BY DEF InsertNext
<1>2. Head(u.todo) \in Sessions /\ Tail(u.todo) \in Seq(Sessions)
  BY <1>0
<1>3. QueueOK(q) /\ (Numbered(db.queue) => Numbered(q))
  BY <1>0, <1>2, InsertKeeps
<1>4. r \in Process
  BY <1>0, <1>2, Zenon DEF Process
<1>5. r.at = "import" /\ r.ver = u.ver /\ r.saw = u.saw
  BY <1>0 DEF Process
<1> HIDE DEF q, r
<1>6. /\ e \in Databases /\ DbOK(e) /\ Gains(db, e)
      /\ e.columns = db.columns /\ e.scan = db.scan
  <2>1. db.done \in SUBSET Sessions
    BY <1>0 DEF Databases
  <2>2. e = [db EXCEPT !.queue = q, !.done = db.done]
    BY <1>0 DEF Databases
  <2>3. e.columns = db.columns /\ e.scan = db.scan /\ e.queue = q
    BY <1>0 DEF Databases
  <2> HIDE DEF e
  <2>4. QueueOK(q) /\ (Numbered(db.queue) => Numbered(q))
    BY <1>3
  <2>5. e \in Databases /\ DbOK(e) /\ Gains(db, e)
    BY <2>1, <2>2, <2>4, QueueGains, Zenon
  <2> QED BY <2>3, <2>5
<1> HIDE DEF e
<1>7. RecOK(r, e)
  <2>1. RecOK(u, e)
    BY <1>0, <1>6, GainsKeep
  <2> QED BY <1>0, <1>4, <1>5, <2>1 DEF RecOK, Migrating, AfterBatch, AfterColumns,
              AfterPlain, AfterMtime, AfterFts
<1> QED BY <1>0, <1>1, <1>6, <1>7, WriteStep

(* The queue's column is looked for, or added.                             *)
LEMMA SeqsSteps ==
  ASSUME SInv, NEW p \in Procs, LookForSeqs(p) \/ AlterQueue(p)
  PROVE  SInv'
<1>0. /\ proc[p].at # "reset" /\ Still /\ RecOK(proc[p], db) /\ DbOK(db)
      /\ db \in Databases /\ RestOK' /\ cut' = cut /\ db.version \in Nat
      /\ proc[p].ver \in Nat
  <2>1. proc[p] \in Process
    BY AtStep
  <2> QED BY <2>1, AtStep, StillRest DEF LookForSeqs, AlterQueue, Reads, At, Process
<1>1. CASE LookForSeqs(p)
  <2> DEFINE at == IF proc[p].ver >= InOrder THEN "stamp"
                   ELSE IF proc[p].ver >= Queued /\ "enqueue_seq" \notin db.columns THEN "alter"
                   ELSE "number"
  <2>1. db' = db /\ Goes(p, at) /\ proc[p].at = "seqs"
    BY <1>1 DEF LookForSeqs, Reads, At
  <2>2. /\ at \in {"stamp", "alter", "number"}
        /\ at = "stamp" => proc[p].ver >= InOrder
        /\ at = "number" => proc[p].ver < Queued \/ "enqueue_seq" \in db.columns
    BY <1>0, SMT DEF Queued
  <2> HIDE DEF at
  <2>3. at \notin Done /\ at \in Places
    BY <2>2 DEF Done, Places, Migrating, AfterBatch, AfterColumns
  <2>4. PICK r : /\ proc' = [proc EXCEPT ![p] = r] /\ r.at = at /\ r \in Process
                 /\ r.ver = proc[p].ver /\ r.saw = proc[p].saw
    BY <2>1, <2>3, GoesTo
  <2>5. at = "stamp" => "enqueue_seq" \in db.columns /\ Numbered(db.queue)
    <3>1. proc[p].ver <= db.version
      BY <1>0 DEF RecOK
    <3>2. at = "stamp" => db.version >= InOrder
      BY <1>0, <2>2, <3>1, SMT DEF InOrder
    <3> QED BY <1>0, <3>2 DEF DbOK
  <2>6. at = "number" => "enqueue_seq" \in db.columns
    BY <1>0, <2>1, <2>2 DEF RecOK, AfterColumns
  <2>7. RecOK(r, db)
    BY <1>0, <2>1, <2>2, <2>4, <2>5, <2>6 DEF RecOK, Migrating, AfterBatch, AfterColumns,
       AfterPlain, AfterMtime, AfterFts
  <2> QED BY <1>0, <2>1, <2>4, <2>7, ReadStep
<1>2. CASE AlterQueue(p)
  <2> DEFINE e == [db EXCEPT !.columns = @ \cup {"enqueue_seq"}]
             at == IF "enqueue_seq" \in db.columns THEN "closed" ELSE "number"
  <2>1. db' = e /\ Goes(p, at) /\ proc[p].at = "alter" /\ "enqueue_seq" \in Columns
    BY <1>2 DEF AlterQueue, At, Columns
  <2>2. /\ e \in Databases /\ DbOK(e) /\ Gains(db, e)
        /\ e.columns = db.columns \cup {"enqueue_seq"} /\ e.scan = db.scan
    BY <2>1, ColumnGains
  <2>3. at \in {"closed", "number"}
    OBVIOUS
  <2> HIDE DEF e, at
  <2>4. at \in Places /\ (at = "closed" <=> at \in Done)
    BY <2>3 DEF Done, Places, Migrating, AfterBatch, AfterColumns
  <2>5. \E r : proc' = [proc EXCEPT ![p] = r] /\ RecOK(r, e)
    <3>1. CASE at = "closed"
      <4>1. PICK r : proc' = [proc EXCEPT ![p] = r] /\ r = [Closed EXCEPT !.at = at]
        BY <2>1, <2>4, <3>1, GoesTo
      <4>2. RecOK(r, e)
        BY <2>2, <2>4, <3>1, <4>1, DoneRelies
      <4> QED BY <4>1, <4>2
    <3>2. CASE at = "number"
      <4>1. PICK r : /\ proc' = [proc EXCEPT ![p] = r] /\ r.at = at /\ r \in Process
                     /\ r.ver = proc[p].ver /\ r.saw = proc[p].saw
        BY <2>1, <2>4, <3>2, GoesTo
      <4>2. RecOK(proc[p], e)
        BY <1>0, <2>2, GainsKeep
      <4>3. RecOK(r, e)
        BY <2>1, <2>2, <3>2, <4>1, <4>2 DEF RecOK, Migrating, AfterBatch, AfterColumns,
           AfterPlain, AfterMtime, AfterFts
      <4> QED BY <4>1, <4>3
    <3> QED BY <2>3, <3>1, <3>2
  <2>6. PICK r : proc' = [proc EXCEPT ![p] = r] /\ RecOK(r, e)
    BY <2>5
  <2>7. "file_mtime" \in e.columns => "file_mtime" \in db.columns
    BY <2>2
  <2> QED BY <1>0, <2>1, <2>2, <2>6, <2>7, WriteStep
<1> QED BY <1>1, <1>2

(* Those that have no number get one.                                      *)
LEMMA NumberStep ==
  ASSUME SInv, NEW p \in Procs, NumberQueue(p)
  PROVE  SInv'
<1> DEFINE q == [s \in DOMAIN db.queue |-> IF db.queue[s] = 0 THEN Place(s) ELSE db.queue[s]]
           e == [db EXCEPT !.queue = q]
<1>0. /\ proc[p].at = "number" /\ Still /\ RecOK(proc[p], db) /\ db \in Databases
      /\ QueueOK(db.queue) /\ Goes(p, "stamp") /\ db' = e
  BY AtStep DEF NumberQueue, At
<1>1. QueueOK(q) /\ Numbered(q)
  BY <1>0, NumberKeeps
<1> HIDE DEF q
<1>2. /\ e \in Databases /\ DbOK(e) /\ Gains(db, e)
      /\ e.columns = db.columns /\ e.scan = db.scan /\ e.queue = q
  <2>1. db.done \in SUBSET Sessions
    BY <1>0 DEF Databases
  <2>2. e = [db EXCEPT !.queue = q, !.done = db.done]
    BY <1>0 DEF Databases
  <2>3. e.columns = db.columns /\ e.scan = db.scan /\ e.queue = q
    BY <1>0 DEF Databases
  <2> HIDE DEF e
  <2>4. QueueOK(q) /\ (Numbered(db.queue) => Numbered(q))
    BY <1>1
  <2>5. e \in Databases /\ DbOK(e) /\ Gains(db, e)
    BY <2>1, <2>2, <2>4, QueueGains, Zenon
  <2> QED BY <2>3, <2>5
<1> HIDE DEF e
<1>3. PICK r : /\ proc' = [proc EXCEPT ![p] = r] /\ r.at = "stamp" /\ r \in Process
               /\ r.ver = proc[p].ver /\ r.saw = proc[p].saw
  BY <1>0, GoesTo DEF Done, Places, Migrating, AfterBatch, AfterColumns
<1>4. RecOK(r, e)
  <2>1. RecOK(proc[p], e)
    BY <1>0, <1>2, GainsKeep
  <2> QED BY <1>0, <1>1, <1>2, <1>3, <2>1 DEF RecOK, Migrating, AfterBatch, AfterColumns,
              AfterPlain, AfterMtime, AfterFts
<1> QED BY <1>0, <1>2, <1>3, <1>4, WriteStep

(* The version is written, when everything it stands for is there.         *)
LEMMA StampStep ==
  ASSUME SInv, NEW p \in Procs, Stamp(p)
  PROVE  SInv'
<1> DEFINE e == [db EXCEPT !.version = SCHEMA_VERSION]
<1>0. /\ proc[p].at = "stamp" /\ Still /\ RecOK(proc[p], db) /\ db \in Databases
      /\ DbOK(db) /\ db' = e /\ db.version \in Nat
  BY AtStep DEF Stamp, At
<1>1. e \in Databases
  BY <1>0, Zenon DEF Databases
<1>2. /\ e.tables = db.tables /\ e.columns = db.columns /\ e.porter = db.porter
      /\ e.scan = db.scan /\ e.queue = db.queue /\ e.version = 7
  BY <1>0 DEF Databases, SCHEMA_VERSION
<1>3. db.columns = Columns /\ db.porter /\ Numbered(db.queue) /\ db.version <= 7
  <2>1. /\ "plain" \in db.columns /\ "file_mtime" \in db.columns
        /\ "enqueue_seq" \in db.columns /\ db.porter /\ Numbered(db.queue)
        /\ db.version <= 7
    BY <1>0 DEF RecOK, Migrating, AfterBatch, AfterColumns, AfterPlain, AfterMtime,
       AfterFts, SCHEMA_VERSION
  <2>2. db.columns \subseteq Columns
    BY <1>0 DEF Databases
  <2> QED BY <2>1, <2>2 DEF Columns
<1> HIDE DEF e
<1>4. DbOK(e)
  <2>1. "enqueue_seq" \in Columns
    BY DEF Columns
  <2> QED BY <1>0, <1>1, <1>2, <1>3, <2>1 DEF DbOK
<1>5. Gains(db, e)
  BY <1>2, <1>3, SMT DEF Gains, SCHEMA_VERSION
<1>6. PICK at \in {"open", "reading"} : Goes(p, at)
  BY DEF Stamp
<1>7. at \in Done
  BY <1>6 DEF Done
<1>8. PICK r : proc' = [proc EXCEPT ![p] = r] /\ r = [Closed EXCEPT !.at = at]
  BY <1>6, <1>7, GoesTo
<1>9. RecOK(r, e)
  BY <1>1, <1>7, <1>8, DoneRelies
<1> QED BY <1>0, <1>2, <1>4, <1>5, <1>8, <1>9, WriteStep

-----------------------------------------------------------------------------
(* The work with an open database.                                         *)

(* It only adds numbered rows and takes rows away.                         *)
LEMMA WorkStep ==
  ASSUME SInv, NEW p \in Procs, Work(p)
  PROVE  SInv'
<1>0. /\ db \in Databases /\ DbOK(db) /\ QueueOK(db.queue) /\ proc' = proc
      /\ cut' = cut /\ db.done \in SUBSET Sessions
  <2>1. db \in Databases /\ DbOK(db) /\ QueueOK(db.queue)
    BY DEF SInv, DbOK
  <2> QED BY <2>1 DEF Work, Databases
<1>1. PICK s \in Sessions : Ingests(s) \/ Enqueues(s) \/ \E finished \in BOOLEAN : Drops(s, finished)
  BY DEF Work
<1>2. RestOK'
  <2>1. gone' \subseteq Sessions
    BY <1>1 DEF Ingests, Enqueues, Drops, SInv, RestOK
  <2>2. work' \in 0 .. MaxWork
    BY SchemaAssumption, SMT DEF SchemaAssumption, SInv, RestOK, Work, Works
  <2> QED BY <2>1, <2>2 DEF SInv, RestOK, Work
<1>3. /\ db' \in Databases /\ DbOK(db') /\ Gains(db, db') /\ db'.columns = db.columns
      /\ db'.scan = "old" => db.scan = "old"
  <2>1. CASE Ingests(s)
    <3> DEFINE e == [db EXCEPT !.scan = "new", !.done = @ \ {s}]
    <3>1. db' = e
      BY <2>1 DEF Ingests
    <3>2. db.done \ {s} \in SUBSET Sessions
      BY <1>0
    <3>3. e \in Databases
      BY <1>0, <3>2, Zenon DEF Databases
    <3>4. /\ e.tables = db.tables /\ e.columns = db.columns /\ e.version = db.version
          /\ e.porter = db.porter /\ e.scan = "new" /\ e.queue = db.queue
      BY <1>0 DEF Databases
    <3> HIDE DEF e
    <3>5. DbOK(e)
      BY <1>0, <3>3, <3>4 DEF DbOK
    <3>6. Gains(db, e)
      <4>1. Gains(db, db)
        BY <1>0, GainsNothing
      <4> QED BY <3>4, <4>1 DEF Gains
    <3> QED BY <3>1, <3>3, <3>4, <3>5, <3>6
  <2>2. CASE Enqueues(s)
    <3> DEFINE q == InsertOrIgnore(db.queue, s, MaxSeq(db.queue) + 1)
    <3>1. db' = [db EXCEPT !.queue = q]
      BY <2>2 DEF Enqueues
    <3>2. MaxSeq(db.queue) \in Nat
      BY <1>0, MaxSeqIs
    <3>3. MaxSeq(db.queue) + 1 \in Nat /\ MaxSeq(db.queue) + 1 # 0
      BY <3>2, SMT
    <3>4. QueueOK(q) /\ (Numbered(db.queue) => Numbered(q))
      BY <1>0, <3>3, InsertKeeps
    <3> HIDE DEF q
    <3>5. db' = [db EXCEPT !.queue = q, !.done = db.done]
      BY <1>0, <3>1, DoneSame
    <3> QED BY <1>0, <3>4, <3>5, QueueGains
  <2>3. CASE \E finished \in BOOLEAN : Drops(s, finished)
    <3>1. PICK finished \in BOOLEAN : Drops(s, finished)
      BY <2>3
    <3> DEFINE q == Restrict(db.queue, DOMAIN db.queue \ {s})
               done == db.done \cup {t \in {s} : finished}
    <3>2. db' = [db EXCEPT !.queue = q, !.done = done]
      BY <3>1 DEF Drops
    <3>3. done \in SUBSET Sessions
      BY <1>0
    <3>4. QueueOK(q) /\ (Numbered(db.queue) => Numbered(q))
      BY <1>0, RestrictKeeps
    <3> HIDE DEF q, done
    <3> QED BY <3>2, <3>3, <3>4, QueueGains
  <2> QED BY <1>1, <2>1, <2>2, <2>3
<1>4. \A r \in Procs : RecOK(proc'[r], db')
  <2>1. \A r \in Procs : RecOK(proc[r], db)
    BY DEF SInv
  <2> QED BY <1>0, <1>3, <2>1, GainsKeep
<1>5. ScanOK'
  BY <1>0, <1>3, ScanStays
<1>6. proc' = [r \in Procs |-> proc'[r]]
  BY <1>0 DEF SInv
<1> QED BY <1>2, <1>3, <1>4, <1>5, <1>6 DEF SInv

-----------------------------------------------------------------------------
(* The invariant.                                                          *)

(* A database of any version is a good start.                              *)
LEMMA SInitInv == MInit => SInv
<1> SUFFICES ASSUME MInit PROVE SInv
  OBVIOUS
<1>1. PICK v \in Versions, porter \in BOOLEAN, done \in SUBSET ToSet(Waiting) :
        /\ v \in {Fresh} \cup (Queued .. SCHEMA_VERSION + 1) => porter
        /\ db = [version |-> v,
                 tables |-> {t \in {"sessions"} : v # Fresh} \cup {t \in {"queue"} : v >= Queued},
                 columns |-> {c \in {"plain", "file_mtime"} : v >= SCHEMA_VERSION}
                             \cup {c \in {"enqueue_seq"} : v >= InOrder},
                 porter |-> porter,
                 scan |-> IF v \in 1 .. SCHEMA_VERSION - 1 THEN "old" ELSE "new",
                 queue |-> [s \in {t \in ToSet(Waiting) : v >= Queued} |->
                              IF v = Queued THEN 0 ELSE Place(s)],
                 done |-> done]
        /\ legacy = IF v < Queued THEN Waiting ELSE <<>>
        /\ gone = done
  BY DEF MInit
<1>2. /\ proc = [p \in Procs |-> Closed] /\ cut = FALSE /\ crossed = FALSE
      /\ kills = 0 /\ opens = 0 /\ work = 0
  BY DEF MInit
<1>3. v = 0 \/ v \in 4 .. 8
  BY SchemaAssumption, SMT DEF SchemaAssumption, SCHEMA_VERSION, Fresh, Queued
<1>4. Waiting \in Seq(Sessions) /\ Len(Waiting) \in Nat /\ ToSet(Waiting) \in SUBSET Sessions
  BY SchemaAssumption DEF SchemaAssumption, ToSet
<1> DEFINE D == {t \in ToSet(Waiting) : v >= Queued}
           q == [s \in D |-> IF v = Queued THEN 0 ELSE Place(s)]
<1>5. QueueOK(q) /\ (v # Queued => Numbered(q))
  <2>1. \A s \in D : Place(s) \in Nat \ {0} /\ Place(s) <= Len(Waiting)
    BY PlaceIs
  <2>2. DOMAIN q = D /\ \A s \in D : q[s] = IF v = Queued THEN 0 ELSE Place(s)
    OBVIOUS
  <2>3. q = [s \in D |-> q[s]] /\ D \in SUBSET Sessions /\ D \subseteq ToSet(Waiting)
    BY <1>4
  <2> HIDE DEF q, D
  <2>4. \A s \in D : q[s] \in Nat /\ q[s] <= Len(Waiting) /\ (v # Queued => q[s] # 0)
    BY <1>4, <2>1, <2>2, SMT
  <2>5. q \in Queues
    BY <2>3, <2>4 DEF Queues
  <2> QED BY <1>4, <2>2, <2>3, <2>4, <2>5 DEF QueueOK, Numbered
<1> HIDE DEF q
<1>6. /\ db.version = v /\ db.queue = q /\ db.porter = porter /\ db.done = done
      /\ "queue" \in db.tables => v >= 5
      /\ "sessions" \notin db.tables => v = 0
      /\ v >= 7 => db.columns = Columns
      /\ v >= 6 => "enqueue_seq" \in db.columns
      /\ "file_mtime" \in db.columns => v >= 7
      /\ db.scan = IF v \in 1 .. 6 THEN "old" ELSE "new"
  BY <1>1, <1>3, SMT DEF q, D, Columns, SCHEMA_VERSION, InOrder, Queued, Fresh
<1>7. db \in Databases
  <2>1. /\ db.tables \in SUBSET {"sessions", "queue"} /\ db.columns \in SUBSET Columns
        /\ db.scan \in {"old", "reset", "new"} /\ done \in SUBSET Sessions
        /\ q \in Queues
    BY <1>1, <1>4, <1>5, <1>6 DEF Columns, QueueOK
  <2>2. db = [version |-> v, tables |-> db.tables, columns |-> db.columns,
              porter |-> porter, scan |-> db.scan, queue |-> q, done |-> done]
    BY <1>1, <1>6
  <2>3. [version |-> v, tables |-> db.tables, columns |-> db.columns,
         porter |-> porter, scan |-> db.scan, queue |-> q, done |-> done] \in Databases
    BY <2>1 DEF Databases
  <2> QED BY <2>2, <2>3
<1>8. v >= 7 => porter
  BY <1>1, <1>3, SMT DEF SCHEMA_VERSION, Queued, Fresh
<1>9. DbOK(db)
  <2>1. "queue" \in db.tables /\ v < Queued => FALSE
    BY <1>3, <1>6, SMT DEF Queued
  <2>2. v >= InOrder => "enqueue_seq" \in db.columns /\ Numbered(q)
    BY <1>3, <1>5, <1>6, SMT DEF Queued, InOrder
  <2>3. v >= SCHEMA_VERSION => db.columns = Columns /\ db.porter
    BY <1>6, <1>8 DEF SCHEMA_VERSION
  <2>4. "sessions" \notin db.tables => db.scan # "old"
    BY <1>6, SMT
  <2> QED BY <1>5, <1>6, <1>7, <2>1, <2>2, <2>3, <2>4 DEF DbOK
<1>10. \A p \in Procs : RecOK(proc[p], db)
  <2>1. Closed = [Closed EXCEPT !.at = "closed"] /\ "closed" \in Done
    BY DEF Closed, Done
  <2>2. RecOK(Closed, db)
    BY <1>7, <2>1, DoneRelies
  <2> QED BY <1>2, <2>2
<1>11. ScanOK
  BY <1>3, <1>6, SMT DEF ScanOK
<1>12. RestOK
  <2>1. legacy \in Seq(Sessions)
    BY <1>1, <1>4, SMT
  <2>2. 0 \in 0 .. MaxKills /\ 0 \in 0 .. MaxOpens /\ 0 \in 0 .. MaxWork
    BY SchemaAssumption, SMT DEF SchemaAssumption
  <2>3. gone \subseteq Sessions
    BY <1>1, <1>4
  <2> QED BY <1>2, <2>1, <2>2, <2>3 DEF RestOK
<1> QED BY <1>2, <1>9, <1>10, <1>11, <1>12 DEF SInv

(* Every step keeps it.                                                    *)
LEMMA SStepInv == SInv /\ [MNext]_mvars => SInv'
<1> SUFFICES ASSUME SInv, [MNext]_mvars PROVE SInv'
  OBVIOUS
<1>1. ASSUME NEW p \in Procs, Open(p) \/ Look(p) \/ Interrupted(p) \/ Work(p) \/ Close(p)
      PROVE  SInv'
  BY <1>1, OpenStep, LookStep, StopStep, WorkStep, CloseStep
<1>2. ASSUME NEW p \in Procs, Migrate(p)
      PROVE  SInv'
  BY <1>2, BatchStep, ReadsOld, PlainStep, MtimeStep, ResetStep, FtsSteps, LegacySteps,
     InsertStep, SeqsSteps, NumberStep, StampStep DEF Migrate
<1>3. CASE UNCHANGED mvars
  BY <1>3 DEF mvars, SInv, ScanOK, RestOK
<1> QED BY <1>1, <1>2, <1>3 DEF MNext

(* The types, and that what a process read as old is still there.          *)
THEOREM SchemaTypes == MSpec => []MTypeOK
<1>1. SInv => MTypeOK
  <2> SUFFICES ASSUME SInv PROVE MTypeOK
    OBVIOUS
  <2>1. db \in Databases /\ \E waiting \in SUBSET Sessions : db.queue \in [waiting -> Nat]
    <3>1. db \in Databases /\ db.queue \in Queues
      BY DEF SInv, DbOK, QueueOK
    <3> QED BY <3>1 DEF Queues
  <2>2. db \in Database
    BY <2>1 DEF Database, Databases
  <2>3. proc \in [Procs -> Process]
    BY DEF SInv, RecOK
  <2>4. \A p \in Procs : proc[p].saw \subseteq db.columns /\ proc[p].ver <= db.version
    BY DEF SInv, RecOK
  <2> QED BY <2>1, <2>2, <2>3, <2>4 DEF SInv, RestOK, MTypeOK
<1> QED BY <1>1, SInitInv, SStepInv, PTL DEF MSpec

(* A database that claims the present version is whole, however many       *)
(* processes take part in the upgrade and wherever they are stopped.       *)
THEOREM VersionComesLast == MSpec => []CurrentIsWhole
<1>1. SInv => CurrentIsWhole
  <2> SUFFICES ASSUME SInv, db.version = SCHEMA_VERSION
               PROVE  db.columns = Columns /\ db.porter /\ 0 \notin Range(db.queue)
    BY DEF CurrentIsWhole
  <2>1. db.version >= SCHEMA_VERSION /\ db.version >= InOrder
    BY SMT DEF SCHEMA_VERSION, InOrder
  <2>2. db.columns = Columns /\ db.porter /\ Numbered(db.queue)
    BY <2>1 DEF SInv, DbOK
  <2> QED BY <2>2 DEF Numbered, Range
<1> QED BY <1>1, SInitInv, SStepInv, PTL DEF MSpec

(* Once nobody is about to reset the old cursors they have been reset,     *)
(* unless the process that added the column was stopped before it.         *)
THEOREM CursorsAreReset == MSpec => []CursorsReset
<1>1. SInv => CursorsReset
  <2> SUFFICES ASSUME SInv, db.version = SCHEMA_VERSION, ~cut,
                      \A p \in Procs : ~At(p, "reset")
               PROVE  db.scan # "old"
    BY DEF CursorsReset
  <2>1. db.version >= SCHEMA_VERSION
    BY SMT DEF SCHEMA_VERSION
  <2>2. "file_mtime" \in db.columns
    BY <2>1 DEF SInv, DbOK, Columns
  <2> QED BY <2>2 DEF SInv, ScanOK, At
<1> QED BY <1>1, SInitInv, SStepInv, PTL DEF MSpec

-----------------------------------------------------------------------------
(* The old queue.  A session that waited is kept when it is in the table   *)
(* or has been finished or abandoned since.                                *)
Old            == ToSet(Waiting)
Kept(s, q, g)  == s \in DOMAIN q \cup g
AllKept(q, g)  == \A s \in Old : Kept(s, q, g)
Importing      == {"import", "insert"}
AfterImport    == {"seqs", "alter", "number", "stamp"}
Left(r)        == Len(Waiting) - Len(r.todo)

(* What a process r has done for the old queue: those that it has left     *)
(* behind are kept, and from the import on all are.                        *)
Progress(r, d, l, g) ==
  /\ r.at \in {"legacy", "import", "insert"} => l = Waiting
  /\ r.at \in AfterColumns \cup {"columns"} /\ r.ver < Queued => l = Waiting
  /\ r.at \in Importing =>
       /\ Len(r.todo) <= Len(Waiting)
       /\ \A i \in 1 .. Len(r.todo) : r.todo[i] = Waiting[Left(r) + i]
       /\ \A i \in 1 .. Left(r) : Kept(Waiting[i], d.queue, g)
  /\ r.at \in AfterImport => AllKept(d.queue, g)
  /\ r.at = "open" => d.version >= SCHEMA_VERSION

(* What a database d shows of it, whoever has brought it there.            *)
QueueKept(d, l, g) ==
  /\ d.version < Queued => l = Waiting
  /\ d.version >= Queued => AllKept(d.queue, g)
  /\ d.version < SCHEMA_VERSION => DOMAIN d.queue \subseteq Old
  /\ d.done \subseteq g
  /\ \A t \in DOMAIN d.queue : Place(t) = 0 =>
       \A s \in Old \ g : s \in DOMAIN d.queue /\ d.queue[s] < d.queue[t]
  /\ l # Waiting => \A s \in (Old \cap DOMAIN d.queue) \ g : d.queue[s] \in {0, Place(s)}
  /\ l = Waiting => Numbered(d.queue)

(* The rows of the old queue are in turn, and none is without its elders.  *)
InTurn(q, g) ==
  /\ \A s, t \in (Old \cap DOMAIN q) \ g : Elder(s, t) => q[s] < q[t]
  /\ \A s \in DOMAIN q : \A t \in Old : Elder(t, s) => Kept(t, q, g)

(* While some are missing, the place an import counts on is the last.      *)
Ahead(r, q, g) ==
  ~AllKept(q, g) =>
    /\ r.at = "import" => \A t \in DOMAIN q : q[t] <= r.next
    /\ r.at = "insert" => \A t \in DOMAIN q : q[t] < r.next

(* One import at a time keeps the old order.                               *)
OneImport(pr, q, g) ==
  /\ InTurn(q, g)
  /\ \A p1, p2 \in Procs : pr[p1].at \in Importing /\ pr[p2].at \in Importing => p1 = p2
  /\ \A p1 \in Procs : Ahead(pr[p1], q, g)

KInv == /\ \A p \in Procs : Progress(proc[p], db, legacy, gone)
        /\ QueueKept(db, legacy, gone)
        /\ legacy = Waiting /\ ~crossed => OneImport(proc, db.queue, gone)

(* The kept stay so, and the version does not go back.                     *)
Keeps(d, e, g, h) ==
  /\ \A s \in Old : Kept(s, d.queue, g) => Kept(s, e.queue, h)
  /\ d.version >= SCHEMA_VERSION => e.version >= SCHEMA_VERSION

-----------------------------------------------------------------------------
(* The old queue is a sequence without repetition: each session that       *)
(* waited has the place at which it stands.                                *)
LEMMA OldIs ==
  /\ Len(Waiting) \in Nat /\ Old \subseteq Sessions
  /\ \A i \in 1 .. Len(Waiting) : Waiting[i] \in Old /\ Place(Waiting[i]) = i
  /\ \A s \in Old : Place(s) \in 1 .. Len(Waiting) /\ Waiting[Place(s)] = s
  /\ \A s : s \notin Old => Place(s) = 0
<1>1. Waiting \in Seq(Sessions) /\ IsInjective(Waiting)
  BY SchemaAssumption DEF SchemaAssumption
<1>2. /\ Len(Waiting) \in Nat /\ DOMAIN Waiting = 1 .. Len(Waiting)
      /\ \A i \in 1 .. Len(Waiting) : Waiting[i] \in Sessions
  BY <1>1
<1>3. \A i, j \in 1 .. Len(Waiting) : Waiting[i] = Waiting[j] => i = j
  BY <1>1, <1>2 DEF IsInjective
<1>4. \A s \in Old : \E i \in 1 .. Len(Waiting) : Waiting[i] = s
  BY <1>2 DEF Old, ToSet
<1>5. \A i \in 1 .. Len(Waiting) : Waiting[i] \in Old
  BY <1>2 DEF Old, ToSet
<1>6. \A s \in Old : Place(s) \in 1 .. Len(Waiting) /\ Waiting[Place(s)] = s
  BY <1>2, <1>4 DEF Place, Old
<1>7. \A i \in 1 .. Len(Waiting) : Place(Waiting[i]) = i
  BY <1>3, <1>5, <1>6
<1>8. \A s : s \notin Old => Place(s) = 0
  BY DEF Place, Old
<1> QED BY <1>2, <1>4, <1>5, <1>6, <1>7, <1>8

(* The elder of two that waited stands before the other.                   *)
LEMMA ElderIs ==
  ASSUME NEW s, NEW t, Elder(s, t)
  PROVE  s \in Old /\ t \in Old /\ Place(s) \in Nat /\ Place(t) \in Nat /\ Place(s) < Place(t)
<1>1. Place(s) \in 1 .. Place(t) - 1
  BY DEF Elder
<1>2. \A u : (u \in Old /\ Place(u) \in Nat) \/ (u \notin Old /\ Place(u) = 0)
  <2>1. \A u \in Old : Place(u) \in Nat
    BY OldIs, SMT
  <2> QED BY <2>1, OldIs
<1>3. Place(s) \in Nat /\ Place(t) \in Nat
  BY <1>2, SMT
<1>4. Place(s) # 0 /\ Place(t) # 0 /\ Place(s) < Place(t)
  BY <1>1, <1>3, SMT
<1> QED BY <1>2, <1>3, <1>4

(* The row of a session that was there or is now.                          *)
LEMMA InsertIs ==
  ASSUME NEW q, NEW s, NEW n
  PROVE  LET e == InsertOrIgnore(q, s, n)
         IN  /\ DOMAIN e = DOMAIN q \cup {s}
             /\ \A t \in DOMAIN q : e[t] = q[t]
             /\ s \notin DOMAIN q => e[s] = n
  BY DEF InsertOrIgnore

(* What a process has done for the old queue is not undone.                *)
LEMMA ProgressStays ==
  ASSUME NEW r, NEW d, NEW e, NEW l, NEW g, NEW h, Progress(r, d, l, g), Keeps(d, e, g, h),
         r.todo \in Seq(Sessions)
  PROVE  Progress(r, e, l, h)
<1>1. AllKept(d.queue, g) => AllKept(e.queue, h)
  BY DEF AllKept, Keeps
<1>2. r.at \in Importing =>
        \A i \in 1 .. Left(r) : Kept(Waiting[i], e.queue, h)
  <2>1. Len(r.todo) \in Nat
    OBVIOUS
  <2> SUFFICES ASSUME r.at \in Importing, NEW i \in 1 .. Left(r)
               PROVE  Kept(Waiting[i], e.queue, h)
    OBVIOUS
  <2>2. i \in 1 .. Len(Waiting)
    BY <2>1, OldIs, SMT DEF Left
  <2>3. Waiting[i] \in Old /\ Kept(Waiting[i], d.queue, g)
    BY <2>2, OldIs DEF Progress
  <2> QED BY <2>3 DEF Keeps
<1> QED BY <1>1, <1>2 DEF Progress, Keeps

(* A process moves on to r; what the others have done stays.               *)
LEMMA OneProgresses ==
  ASSUME SInv, KInv, NEW p \in Procs, NEW r, proc' = [proc EXCEPT ![p] = r],
         legacy' = legacy, Keeps(db, db', gone, gone'), Progress(r, db', legacy, gone')
  PROVE  /\ \A q \in Procs : Progress(proc'[q], db', legacy, gone')
         /\ proc'[p] = r /\ \A q \in Procs \ {p} : proc'[q] = proc[q]
<1>1. proc = [q \in Procs |-> proc[q]]
  BY DEF SInv
<1>2. proc'[p] = r /\ \A q \in Procs \ {p} : proc'[q] = proc[q]
  BY <1>1, Zenon
<1>3. \A q \in Procs \ {p} : Progress(proc[q], db', legacy, gone')
  BY AtStep, ProgressStays DEF KInv
<1> QED BY <1>2, <1>3

(* A step that leaves the queue, the version and the history alone, by a   *)
(* process that does not import afterwards.                                *)
LEMMA QuietStep ==
  ASSUME SInv, KInv, NEW p \in Procs, NEW r, proc' = [proc EXCEPT ![p] = r],
         legacy' = legacy, gone' = gone, crossed' = crossed, db'.queue = db.queue,
         db'.version = db.version, db'.done = db.done,
         r.at \notin Importing, Progress(r, db, legacy, gone)
  PROVE  KInv'
<1>1. Keeps(db, db', gone, gone')
  BY DEF Keeps
<1>2. Progress(r, db', legacy, gone')
  BY DEF Progress
<1>3. /\ \A q \in Procs : Progress(proc'[q], db', legacy, gone')
      /\ proc'[p] = r /\ \A q \in Procs \ {p} : proc'[q] = proc[q]
  BY <1>1, <1>2, OneProgresses
<1>4. QueueKept(db', legacy, gone)
  BY DEF KInv, QueueKept
<1>5. legacy = Waiting /\ ~crossed => OneImport(proc', db'.queue, gone)
  <2> SUFFICES ASSUME legacy = Waiting, ~crossed PROVE OneImport(proc', db.queue, gone)
    OBVIOUS
  <2>1. OneImport(proc, db.queue, gone)
    BY DEF KInv
  <2>2. \A q \in Procs : Ahead(proc'[q], db.queue, gone)
    BY <1>3, <2>1 DEF OneImport, Ahead, Importing
  <2>3. \A q \in Procs : proc'[q].at \in Importing => proc'[q] = proc[q]
    BY <1>3
  <2> QED BY <2>1, <2>2, <2>3 DEF OneImport
<1> QED BY <1>3, <1>4, <1>5 DEF KInv

(* The steps of a process that goes to another place and reads at most.    *)
LEMMA GoesQuietly ==
  ASSUME SInv, KInv, NEW p \in Procs, NEW at \in Places, Goes(p, at),
         legacy' = legacy, gone' = gone, crossed' = crossed, db'.queue = db.queue,
         db'.version = db.version, db'.done = db.done, at \notin Importing,
         at \in AfterColumns \cup {"columns"} => proc[p].at \in AfterColumns \cup {"columns"},
         at = "legacy" => proc[p].ver < Queued,
         at \in AfterImport => AllKept(db.queue, gone),
         at = "open" => db.version >= SCHEMA_VERSION
  PROVE  KInv'
<1>1. PICK r : /\ proc' = [proc EXCEPT ![p] = r] /\ r.at = at
               /\ at \notin Done => r.ver = proc[p].ver
  BY GoesTo
<1>2. at \in Done => at \notin AfterColumns \cup {"columns"}
  BY DEF Done, AfterColumns
<1>3. Progress(proc[p], db, legacy, gone)
  BY DEF KInv
<1>4. at \in AfterColumns \cup {"columns"} /\ r.ver < Queued => legacy = Waiting
  BY <1>1, <1>2, <1>3 DEF Progress
<1>5. at = "legacy" => legacy = Waiting
  <2>1. "legacy" \in AfterColumns
    BY DEF AfterColumns
  <2> QED BY <1>1, <1>2, <1>4, <2>1
<1>6. Progress(r, db, legacy, gone)
  BY <1>1, <1>4, <1>5 DEF Progress, Importing
<1> QED BY <1>1, <1>6, QuietStep


(* Opening, closing, reading, the columns and the index.                   *)
LEMMA QuietSteps ==
  ASSUME SInv, KInv, NEW p \in Procs,
         \/ Open(p) \/ Look(p) \/ Batch(p) \/ AddPlain(p) \/ AddMtime(p) \/ ResetScans(p)
         \/ LookAtFts(p) \/ RebuildFts(p) \/ LookForSeqs(p) \/ AlterQueue(p) \/ Interrupted(p)
  PROVE  KInv'
<1>0. proc[p].ver \in Nat /\ Progress(proc[p], db, legacy, gone) /\ RecOK(proc[p], db)
      /\ db.version \in Nat /\ db \in Databases
  <2>1. proc[p] \in Process
    BY AtStep
  <2> QED BY <2>1, AtStep DEF Process, KInv
<1>1. \E at \in Places :
        /\ Goes(p, at) /\ at \notin Importing
        /\ at \in AfterColumns \cup {"columns"} => proc[p].at \in AfterColumns \cup {"columns"}
        /\ at = "legacy" => proc[p].ver < Queued
        /\ at \in AfterImport => AllKept(db.queue, gone)
        /\ at = "open" => db.version >= SCHEMA_VERSION
  <2> USE DEF Places, Migrating, AfterBatch, AfterColumns, Done, Importing, AfterImport, At
  <2>1. CASE Open(p)
    BY <2>1 DEF Open
  <2>2. CASE Look(p)
    <3>1. db.version = SCHEMA_VERSION => db.version >= SCHEMA_VERSION
      BY SMT DEF SCHEMA_VERSION
    <3> QED BY <2>2, <3>1 DEF Look
  <2>3. CASE Batch(p)
    BY <2>3 DEF Batch
  <2>4. CASE AddPlain(p)
    BY <2>4 DEF AddPlain, AddColumn
  <2>5. CASE AddMtime(p)
    BY <2>5 DEF AddMtime, AddColumn
  <2>6. CASE ResetScans(p)
    BY <2>6 DEF ResetScans
  <2>7. CASE LookAtFts(p)
    <3>1. ~(proc[p].ver < Queued) => AllKept(db.queue, gone)
      <4>1. proc[p].ver <= db.version
        BY <1>0 DEF RecOK
      <4>2. ~(proc[p].ver < Queued) => db.version >= Queued
        BY <1>0, <4>1, SMT DEF Queued
      <4> QED BY <4>2 DEF KInv, QueueKept
    <3> DEFINE at == IF ~db.porter THEN "rebuild"
                     ELSE IF proc[p].ver < Queued THEN "legacy" ELSE "seqs"
    <3>2. Goes(p, at) /\ proc[p].at = "fts"
      BY <2>7 DEF LookAtFts
    <3>3. /\ at \in {"rebuild", "legacy", "seqs"}
          /\ at = "legacy" => proc[p].ver < Queued
          /\ at = "seqs" => ~(proc[p].ver < Queued)
      OBVIOUS
    <3> HIDE DEF at
    <3> QED BY <3>1, <3>2, <3>3
  <2>8. CASE RebuildFts(p)
    BY <2>8 DEF RebuildFts
  <2>9. CASE LookForSeqs(p)
    <3> DEFINE at == IF proc[p].ver >= InOrder THEN "stamp"
                     ELSE IF proc[p].ver >= Queued /\ "enqueue_seq" \notin db.columns THEN "alter"
                     ELSE "number"
    <3>1. Goes(p, at) /\ proc[p].at = "seqs"
      BY <2>9 DEF LookForSeqs
    <3>2. at \in {"stamp", "alter", "number"}
      OBVIOUS
    <3> HIDE DEF at
    <3>3. AllKept(db.queue, gone)
      BY <1>0, <3>1 DEF Progress
    <3> QED BY <3>1, <3>2, <3>3
  <2>10. CASE AlterQueue(p)
    <3>1. AllKept(db.queue, gone)
      BY <1>0, <2>10 DEF Progress, AlterQueue
    <3> QED BY <2>10, <3>1 DEF AlterQueue
  <2>11. CASE Interrupted(p)
    BY <2>11 DEF Interrupted
  <2> QED BY <2>1, <2>2, <2>3, <2>4, <2>5, <2>6, <2>7, <2>8, <2>9, <2>10, <2>11
<1>2. /\ db'.queue = db.queue /\ db'.version = db.version /\ db'.done = db.done
      /\ legacy' = legacy /\ gone' = gone /\ crossed' = crossed
  <2>1. legacy' = legacy /\ gone' = gone /\ crossed' = crossed
    <3>1. CASE Open(p)
      BY <3>1 DEF Open
    <3>2. CASE Interrupted(p)
      BY <3>2 DEF Interrupted
    <3>3. CASE Still
      BY <3>3 DEF Still
    <3> QED BY <3>1, <3>2, <3>3 DEF Look, Batch, AddPlain, AddMtime, AddColumn, ResetScans,
                LookAtFts, RebuildFts, LookForSeqs, AlterQueue, Reads
  <2>2. CASE db' = db
    BY <2>1, <2>2
  <2>3. ASSUME NEW x, NEW y, db' = [db EXCEPT !.tables = x, !.columns = y]
        PROVE  db'.queue = db.queue /\ db'.version = db.version /\ db'.done = db.done
    BY <1>0, <2>3 DEF Databases
  <2>4. ASSUME NEW x, db' = [db EXCEPT !.columns = x]
        PROVE  db'.queue = db.queue /\ db'.version = db.version /\ db'.done = db.done
    BY <1>0, <2>4 DEF Databases
  <2>5. ASSUME NEW x, db' = [db EXCEPT !.scan = x] \/ db' = [db EXCEPT !.porter = x]
        PROVE  db'.queue = db.queue /\ db'.version = db.version /\ db'.done = db.done
    BY <1>0, <2>5 DEF Databases
  <2>6. CASE Batch(p)
    BY <2>1, <2>3, <2>6 DEF Batch
  <2>7. CASE AddPlain(p) \/ AddMtime(p) \/ AlterQueue(p)
    BY <2>1, <2>2, <2>4, <2>7 DEF AddPlain, AddMtime, AddColumn, AlterQueue
  <2>8. CASE ResetScans(p) \/ RebuildFts(p)
    BY <2>1, <2>5, <2>8 DEF ResetScans, RebuildFts
  <2>9. CASE Open(p) \/ Look(p) \/ LookAtFts(p) \/ LookForSeqs(p) \/ Interrupted(p)
    <3>1. db' = db
      BY <2>9 DEF Open, Look, LookAtFts, LookForSeqs, Interrupted, Reads
    <3> QED BY <2>1, <3>1
  <2> QED BY <2>6, <2>7, <2>8, <2>9
<1>3. PICK at \in Places :
        /\ Goes(p, at) /\ at \notin Importing
        /\ at \in AfterColumns \cup {"columns"} => proc[p].at \in AfterColumns \cup {"columns"}
        /\ at = "legacy" => proc[p].ver < Queued
        /\ at \in AfterImport => AllKept(db.queue, gone)
        /\ at = "open" => db.version >= SCHEMA_VERSION
  BY <1>1
<1> QED BY <1>2, <1>3, GoesQuietly

(* The version and the columns are read, and the database is closed.       *)
LEMMA QuietReads ==
  ASSUME SInv, KInv, NEW p \in Procs, ReadVersion(p) \/ ReadColumns(p) \/ Close(p)
  PROVE  KInv'
<1>0. /\ db' = db /\ legacy' = legacy /\ gone' = gone /\ crossed' = crossed
      /\ Progress(proc[p], db, legacy, gone) /\ proc[p] \in Process
  BY AtStep DEF ReadVersion, ReadColumns, Close, Reads, Still, KInv
<1>1. ASSUME NEW r, proc' = [proc EXCEPT ![p] = r], r.at \in {"columns", "plain", "closed"},
             r.at \in {"columns", "plain"} /\ r.ver < Queued => legacy = Waiting
      PROVE  KInv'
  <2>1. r.at \notin Importing /\ Progress(r, db, legacy, gone)
    BY <1>1 DEF Progress, Importing, AfterImport, AfterColumns
  <2> QED BY <1>0, <1>1, <2>1, QuietStep
<1>2. CASE ReadVersion(p)
  <2> DEFINE r == [proc[p] EXCEPT !.at = "columns", !.ver = db.version]
  <2>1. proc' = [proc EXCEPT ![p] = r] /\ r.at = "columns" /\ r.ver = db.version
    BY <1>0, <1>2 DEF ReadVersion, Process
  <2>2. db.version < Queued => legacy = Waiting
    BY DEF KInv, QueueKept
  <2> HIDE DEF r
  <2> QED BY <1>1, <2>1, <2>2
<1>3. CASE ReadColumns(p)
  <2> DEFINE r == [proc[p] EXCEPT !.at = "plain", !.saw = db.columns]
  <2>1. proc' = [proc EXCEPT ![p] = r] /\ r.at = "plain" /\ r.ver = proc[p].ver
        /\ proc[p].at = "columns"
    BY <1>0, <1>3 DEF ReadColumns, Process, At
  <2>2. proc[p].ver < Queued => legacy = Waiting
    BY <1>0, <2>1 DEF Progress
  <2> HIDE DEF r
  <2> QED BY <1>1, <2>1, <2>2
<1>4. CASE Close(p)
  BY <1>1, <1>4 DEF Close, Closed
<1> QED BY <1>2, <1>3, <1>4

-----------------------------------------------------------------------------
(* The import.                                                             *)

(* The old queue is read: the place counted on is the last there is, and a *)
(* second import is noted.                                                 *)
LEMMA ReadLegacyKeeps ==
  ASSUME SInv, KInv, NEW p \in Procs, ReadLegacy(p)
  PROVE  KInv'
<1> DEFINE r == [proc[p] EXCEPT !.at = "import", !.todo = legacy, !.next = MaxSeq(db.queue)]
<1>0. /\ db' = db /\ legacy' = legacy /\ gone' = gone /\ proc' = [proc EXCEPT ![p] = r]
      /\ crossed' = (crossed \/ \E q \in Procs : proc[q].at \in Importing)
      /\ proc[p].at = "legacy"
  BY DEF ReadLegacy, At, Imports, Importing
<1>1. proc[p] \in Process /\ QueueOK(db.queue) /\ Progress(proc[p], db, legacy, gone)
  BY AtStep DEF KInv
<1>2. legacy = Waiting
  BY <1>0, <1>1 DEF Progress
<1>3. r.at = "import" /\ r.todo = Waiting /\ r.next = MaxSeq(db.queue) /\ r.ver = proc[p].ver
  BY <1>1, <1>2 DEF Process
<1> HIDE DEF r
<1>4. Progress(r, db', legacy, gone')
  <2>1. Left(r) = 0 /\ \A i \in 1 .. Len(r.todo) : r.todo[i] = Waiting[Left(r) + i]
    BY <1>3, OldIs, SMT DEF Left
  <2>2. Len(r.todo) <= Len(Waiting)
    BY <1>3, OldIs, SMT
  <2>3. \A i \in 1 .. Left(r) : Kept(Waiting[i], db.queue, gone)
    BY <2>1, SMT
  <2> QED BY <1>0, <1>2, <1>3, <2>1, <2>2, <2>3 DEF Progress, AfterImport
<1>5. Keeps(db, db', gone, gone')
  BY <1>0 DEF Keeps
<1>6. /\ \A q \in Procs : Progress(proc'[q], db', legacy, gone')
      /\ proc'[p] = r /\ \A q \in Procs \ {p} : proc'[q] = proc[q]
  BY <1>0, <1>4, <1>5, OneProgresses
<1>7. ~crossed' => OneImport(proc', db.queue, gone)
  <2> SUFFICES ASSUME ~crossed' PROVE OneImport(proc', db.queue, gone)
    OBVIOUS
  <2>1. OneImport(proc, db.queue, gone) /\ \A q \in Procs : proc[q].at \notin Importing
    BY <1>0, <1>2 DEF KInv
  <2>2. Ahead(r, db.queue, gone)
    BY <1>1, <1>3, MaxSeqIs DEF Ahead
  <2>3. \A q \in Procs : Ahead(proc'[q], db.queue, gone)
    BY <1>6, <2>1, <2>2 DEF OneImport
  <2> QED BY <1>6, <2>1, <2>3 DEF OneImport
<1> QED BY <1>0, <1>6, <1>7 DEF KInv


(* The next session is looked up: at the end all are kept, one that has    *)
(* been finished is passed over, and another gets the next place.          *)
LEMMA ImportNextKeeps ==
  ASSUME SInv, KInv, NEW p \in Procs, ImportNext(p)
  PROVE  KInv'
<1> DEFINE todo == proc[p].todo
<1>0. /\ db' = db /\ legacy' = legacy /\ gone' = gone /\ crossed' = crossed
      /\ proc[p].at = "import" /\ proc[p] \in Process /\ Progress(proc[p], db, legacy, gone)
      /\ todo \in Seq(Sessions) /\ proc[p].next \in Nat /\ QueueOK(db.queue)
  BY AtStep DEF ImportNext, Reads, Still, At, KInv
<1>1. /\ legacy = Waiting /\ Len(todo) <= Len(Waiting)
      /\ \A i \in 1 .. Len(todo) : todo[i] = Waiting[Left(proc[p]) + i]
      /\ \A i \in 1 .. Left(proc[p]) : Kept(Waiting[i], db.queue, gone)
  BY <1>0 DEF Progress, Importing
<1>2. Len(todo) \in Nat /\ Left(proc[p]) = Len(Waiting) - Len(todo)
  BY <1>0 DEF Left
<1>3. CASE todo = <<>>
  <2> DEFINE r == [proc[p] EXCEPT !.at = "seqs"]
  <2>1. proc' = [proc EXCEPT ![p] = r] /\ r.at = "seqs"
    BY <1>0, <1>3 DEF ImportNext, Process
  <2>2. Left(proc[p]) = Len(Waiting)
    BY <1>2, <1>3, OldIs, SMT
  <2>3. AllKept(db.queue, gone)
    BY <1>1, <2>2, OldIs DEF AllKept
  <2>4. r.at \notin Importing /\ Progress(r, db, legacy, gone)
    BY <1>1, <2>1, <2>3 DEF Progress, Importing
  <2> HIDE DEF r
  <2> QED BY <1>0, <2>1, <2>4, QuietStep
<1>4. ASSUME NEW r, proc' = [proc EXCEPT ![p] = r], r.at \in Importing,
             Progress(r, db, legacy, gone), ~crossed => Ahead(r, db.queue, gone)
      PROVE  KInv'
  <2>1. Keeps(db, db', gone, gone') /\ Progress(r, db', legacy, gone')
    BY <1>0, <1>4 DEF Keeps
  <2>2. /\ \A q \in Procs : Progress(proc'[q], db', legacy, gone')
        /\ proc'[p] = r /\ \A q \in Procs \ {p} : proc'[q] = proc[q]
    BY <1>0, <1>4, <2>1, OneProgresses
  <2>3. ~crossed => OneImport(proc', db.queue, gone)
    <3> SUFFICES ASSUME ~crossed PROVE OneImport(proc', db.queue, gone)
      OBVIOUS
    <3>1. OneImport(proc, db.queue, gone)
      BY <1>1 DEF KInv
    <3>2. \A q \in Procs : Ahead(proc'[q], db.queue, gone)
      BY <1>4, <2>2, <3>1 DEF OneImport
    <3>3. proc[p].at \in Importing
      BY <1>0 DEF Importing
    <3>4. \A q \in Procs : proc'[q].at \in Importing => proc[q].at \in Importing
      BY <2>2, <3>3
    <3> QED BY <3>1, <3>2, <3>4 DEF OneImport
  <2> QED BY <1>0, <2>2, <2>3 DEF KInv
<1>5. CASE todo # <<>> /\ Head(todo) \in db.done
  <2> DEFINE r == [proc[p] EXCEPT !.todo = Tail(todo)]
  <2>1. /\ proc' = [proc EXCEPT ![p] = r] /\ r.at = "import" /\ r.todo = Tail(todo)
        /\ r.next = proc[p].next /\ r.ver = proc[p].ver
    BY <1>0, <1>5 DEF ImportNext, Process
  <2> HIDE DEF r
  <2>2. /\ Len(todo) > 0 /\ Len(Tail(todo)) = Len(todo) - 1 /\ Head(todo) = todo[1]
        /\ \A i \in 1 .. Len(Tail(todo)) : Tail(todo)[i] = todo[i + 1]
    BY <1>0, <1>5
  <2>3. Left(r) = Left(proc[p]) + 1 /\ Left(proc[p]) \in Nat
    <3>1. Left(r) = Len(Waiting) - Len(r.todo) /\ Len(r.todo) = Len(todo) - 1
      BY <2>1, <2>2 DEF Left
    <3>2. Len(Waiting) \in Nat
      BY OldIs
    <3>3. Len(todo) <= Len(Waiting)
      BY <1>1
    <3> HIDE DEF todo
    <3> QED BY <1>2, <3>1, <3>2, <3>3, SMT
  <2>4. Kept(Waiting[Left(r)], db.queue, gone)
    <3>0. 1 \in 1 .. Len(todo)
      BY <1>2, <2>2
    <3>1. todo[1] = Waiting[Left(proc[p]) + 1]
      BY <1>1, <3>0
    <3>2. Waiting[Left(r)] \in db.done
      BY <1>5, <2>2, <2>3, <3>1
    <3>3. db.done \subseteq gone
      BY DEF KInv, QueueKept
    <3> QED BY <3>2, <3>3 DEF Kept
  <2>5. \A i \in 1 .. Left(r) : Kept(Waiting[i], db.queue, gone)
    <3> SUFFICES ASSUME NEW i \in 1 .. Left(r) PROVE Kept(Waiting[i], db.queue, gone)
      OBVIOUS
    <3>1. i = Left(r) \/ i \in 1 .. Left(proc[p])
      BY <2>3, SMT
    <3> QED BY <1>1, <2>4, <3>1
  <2>6. \A i \in 1 .. Len(r.todo) : r.todo[i] = Waiting[Left(r) + i]
    <3> SUFFICES ASSUME NEW i \in 1 .. Len(r.todo) PROVE r.todo[i] = Waiting[Left(r) + i]
      OBVIOUS
    <3>1. i + 1 \in 1 .. Len(todo) /\ Left(proc[p]) + (i + 1) = Left(r) + i
      BY <1>2, <2>1, <2>2, <2>3, SMT
    <3>2. r.todo[i] = todo[i + 1]
      BY <2>1, <2>2
    <3> QED BY <1>1, <3>1, <3>2
  <2>7. Len(r.todo) <= Len(Waiting)
    BY <1>1, <1>2, <2>1, <2>2, OldIs, SMT
  <2>8. Progress(r, db, legacy, gone)
    BY <1>1, <2>1, <2>5, <2>6, <2>7 DEF Progress, AfterImport
  <2>9. ~crossed => Ahead(r, db.queue, gone)
    BY <1>0, <1>1, <2>1 DEF KInv, OneImport, Ahead
  <2> QED BY <1>4, <2>1, <2>8, <2>9 DEF Importing
<1>6. CASE todo # <<>> /\ Head(todo) \notin db.done
  <2> DEFINE r == [proc[p] EXCEPT !.at = "insert", !.next = proc[p].next + 1]
  <2>1. /\ proc' = [proc EXCEPT ![p] = r] /\ r.at = "insert" /\ r.todo = todo
        /\ r.next = proc[p].next + 1 /\ r.ver = proc[p].ver
    BY <1>0, <1>6 DEF ImportNext, Process
  <2> HIDE DEF r
  <2>2. Left(r) = Left(proc[p])
    BY <2>1 DEF Left
  <2>3. Progress(r, db, legacy, gone)
    BY <1>1, <2>1, <2>2 DEF Progress, AfterImport
  <2>4. ~crossed => Ahead(r, db.queue, gone)
    <3> SUFFICES ASSUME ~crossed, ~AllKept(db.queue, gone)
                 PROVE  \A t \in DOMAIN db.queue : db.queue[t] < r.next
      BY <2>1 DEF Ahead
    <3>1. \A t \in DOMAIN db.queue : db.queue[t] <= proc[p].next
      BY <1>0, <1>1 DEF KInv, OneImport, Ahead
    <3>2. \A t \in DOMAIN db.queue : db.queue[t] \in Nat
      BY <1>0, QueueIs
    <3> QED BY <1>0, <2>1, <3>1, <3>2, SMT
  <2> QED BY <1>4, <2>1, <2>3, <2>4 DEF Importing
<1> QED BY <1>3, <1>5, <1>6

(* A session of the old queue is written at the place counted on, unless   *)
(* it is there already.                                                    *)
LEMMA InsertNextKeeps ==
  ASSUME SInv, KInv, NEW p \in Procs, InsertNext(p)
  PROVE  KInv'
<1> DEFINE u == proc[p]
           h == Head(u.todo)
           q == InsertOrIgnore(db.queue, h, u.next)
           r == [proc[p] EXCEPT !.at = "import", !.todo = Tail(proc[p].todo)]
<1>0. /\ u.at = "insert" /\ u \in Process /\ u.todo \in Seq(Sessions) /\ u.next \in Nat
      /\ u.todo # <<>> /\ u.next # 0 /\ db \in Databases /\ QueueOK(db.queue)
      /\ Progress(u, db, legacy, gone) /\ QueueKept(db, legacy, gone)
  BY AtStep DEF InsertNext, At, RecOK, KInv
<1>1. /\ legacy' = legacy /\ gone' = gone /\ crossed' = crossed
      /\ proc' = [proc EXCEPT ![p] = r]
      /\ db'.queue = q /\ db'.version = db.version /\ db'.done = db.done
  BY <1>0 DEF InsertNext, Still, Databases
<1>2. r.at = "import" /\ r.todo = Tail(u.todo) /\ r.next = u.next /\ r.ver = u.ver
  BY <1>0 DEF Process
<1>3. /\ DOMAIN q = DOMAIN db.queue \cup {h}
      /\ \A t \in DOMAIN db.queue : q[t] = db.queue[t]
      /\ h \notin DOMAIN db.queue => q[h] = u.next
  BY InsertIs
<1>4. /\ legacy = Waiting /\ Len(u.todo) <= Len(Waiting)
      /\ \A i \in 1 .. Len(u.todo) : u.todo[i] = Waiting[Left(u) + i]
      /\ \A i \in 1 .. Left(u) : Kept(Waiting[i], db.queue, gone)
  BY <1>0 DEF Progress, Importing
<1>5. Numbered(q)
  <2>1. Numbered(db.queue)
    BY <1>0, <1>4 DEF QueueKept
  <2> QED BY <1>0, <1>3, <2>1 DEF Numbered
<1> HIDE DEF q, r
<1>6. /\ Len(u.todo) \in Nat /\ Len(u.todo) > 0 /\ h = u.todo[1]
      /\ Len(r.todo) = Len(u.todo) - 1
      /\ \A i \in 1 .. Len(r.todo) : r.todo[i] = u.todo[i + 1]
  BY <1>0, <1>2
<1>7. Left(r) = Left(u) + 1 /\ Left(u) \in Nat /\ Left(r) \in 1 .. Len(Waiting)
  BY <1>4, <1>6, OldIs, SMT DEF Left
<1>8. h = Waiting[Left(r)] /\ h \in Old /\ Place(h) = Left(r)
  <2>1. h = Waiting[Left(u) + 1]
    BY <1>4, <1>6, SMT
  <2>2. h = Waiting[Left(r)]
    BY <1>7, <2>1
  <2> QED BY <1>7, <2>2, OldIs
<1> HIDE DEF u, h
<1>9. Keeps(db, db', gone, gone')
  BY <1>1, <1>3 DEF Keeps, Kept
<1>10. Progress(r, db', legacy, gone')
  <2>1. \A i \in 1 .. Left(r) : Kept(Waiting[i], q, gone)
    <3> SUFFICES ASSUME NEW i \in 1 .. Left(r) PROVE Kept(Waiting[i], q, gone)
      OBVIOUS
    <3>1. i = Left(r) \/ i \in 1 .. Left(u)
      BY <1>7, SMT
    <3> QED BY <1>3, <1>4, <1>8, <3>1 DEF Kept
  <2>2. \A i \in 1 .. Len(r.todo) : r.todo[i] = Waiting[Left(r) + i]
    <3> SUFFICES ASSUME NEW i \in 1 .. Len(r.todo) PROVE r.todo[i] = Waiting[Left(r) + i]
      OBVIOUS
    <3>1. i + 1 \in 1 .. Len(u.todo) /\ Left(u) + (i + 1) = Left(r) + i
      BY <1>6, <1>7, SMT
    <3> QED BY <1>4, <1>6, <3>1
  <2>3. Len(r.todo) <= Len(Waiting)
    BY <1>4, <1>6, OldIs, SMT
  <2> QED BY <1>1, <1>2, <1>4, <2>1, <2>2, <2>3 DEF Progress, AfterImport
<1>11. /\ \A x \in Procs : Progress(proc'[x], db', legacy, gone')
       /\ proc'[p] = r /\ \A x \in Procs \ {p} : proc'[x] = proc[x]
  BY <1>1, <1>9, <1>10, OneProgresses
<1>12. QueueKept(db', legacy, gone)
  <2>1. AllKept(db.queue, gone) => AllKept(q, gone)
    BY <1>3 DEF AllKept, Kept
  <2>2. db.version < SCHEMA_VERSION => DOMAIN q \subseteq Old
    BY <1>0, <1>3, <1>8 DEF QueueKept
  <2>3. ASSUME NEW t \in DOMAIN q, Place(t) = 0, NEW s \in Old \ gone
        PROVE  s \in DOMAIN q /\ q[s] < q[t]
    <3>1. t # h
      BY <1>7, <1>8, <2>3, SMT
    <3>2. t \in DOMAIN db.queue
      BY <1>3, <3>1
    <3>3. s \in DOMAIN db.queue /\ db.queue[s] < db.queue[t]
      BY <1>0, <2>3, <3>2 DEF QueueKept
    <3> QED BY <1>3, <3>2, <3>3
  <2>4. /\ db'.version < Queued => legacy = Waiting
        /\ db'.version >= Queued => AllKept(db'.queue, gone)
        /\ db'.version < SCHEMA_VERSION => DOMAIN db'.queue \subseteq Old
        /\ db'.done \subseteq gone
    BY <1>0, <1>1, <1>4, <2>1, <2>2 DEF QueueKept
  <2> QED BY <1>1, <1>4, <1>5, <2>3, <2>4 DEF QueueKept
<1>13. ASSUME ~crossed PROVE OneImport(proc', q, gone)
  <2>1. OneImport(proc, db.queue, gone) /\ Ahead(u, db.queue, gone) /\ u.at \in Importing
    BY <1>0, <1>4, <1>13 DEF KInv, OneImport, u, Importing
  <2>2. h \notin DOMAIN db.queue \cup gone => \A t \in DOMAIN db.queue : db.queue[t] < u.next
    BY <1>0, <1>8, <2>1 DEF Ahead, AllKept, Kept
  <2>3. ASSUME NEW s \in (Old \cap DOMAIN q) \ gone, NEW t \in (Old \cap DOMAIN q) \ gone, Elder(s, t)
        PROVE  q[s] < q[t]
    <3>1. Place(s) \in Nat /\ Place(t) \in Nat /\ Place(s) < Place(t)
      BY <2>3, ElderIs
    <3>2. s # t
      BY <3>1, SMT
    <3>3. CASE s \in DOMAIN db.queue /\ t \in DOMAIN db.queue
      <4>1. db.queue[s] < db.queue[t]
        BY <2>1, <2>3, <3>3 DEF OneImport, InTurn
      <4> QED BY <1>3, <3>3, <4>1
    <3>4. CASE t \notin DOMAIN db.queue
      <4>1. t = h /\ s \in DOMAIN db.queue
        BY <1>3, <3>2, <3>4
      <4>2. q[s] = db.queue[s] /\ q[t] = u.next /\ db.queue[s] < u.next
        BY <1>3, <2>2, <2>3, <3>4, <4>1
      <4> QED BY <4>2
    <3>5. CASE s \notin DOMAIN db.queue /\ t \in DOMAIN db.queue
      <4>1. Kept(s, db.queue, gone)
        BY <2>1, <2>3, <3>5 DEF OneImport, InTurn
      <4> QED BY <2>3, <3>5, <4>1 DEF Kept
    <3> QED BY <3>3, <3>4, <3>5
  <2>4. ASSUME NEW s \in DOMAIN q, NEW t \in Old, Elder(t, s) PROVE Kept(t, q, gone)
    <3>1. CASE s \in DOMAIN db.queue
      BY <1>3, <2>1, <2>4, <3>1 DEF OneImport, InTurn, Kept
    <3>2. CASE s = h
      <4>1. Place(t) \in 1 .. Left(u) /\ Waiting[Place(t)] = t
        <5>1. Place(t) \in 1 .. Len(Waiting) /\ Waiting[Place(t)] = t
          BY OldIs
        <5>2. Place(t) < Left(r)
          BY <1>8, <2>4, <3>2, ElderIs
        <5> QED BY <1>7, <5>1, <5>2, OldIs, SMT
      <4>2. Kept(t, db.queue, gone)
        BY <1>4, <4>1
      <4> QED BY <1>3, <4>2 DEF Kept
    <3> QED BY <1>3, <3>1, <3>2
  <2>5. InTurn(q, gone)
    BY <2>3, <2>4 DEF InTurn
  <2>6. \A x \in Procs \ {p} : proc'[x].at \notin Importing
    BY <1>11, <2>1 DEF OneImport, u
  <2>7. Ahead(r, q, gone)
    <3> SUFFICES ASSUME ~AllKept(q, gone), NEW t \in DOMAIN q PROVE q[t] <= r.next
      BY <1>2 DEF Ahead
    <3>1. ~AllKept(db.queue, gone)
      BY <1>3 DEF AllKept, Kept
    <3>2. \A s \in DOMAIN db.queue : db.queue[s] < u.next /\ db.queue[s] \in Nat
      BY <1>0, <2>1, <3>1, QueueIs DEF Ahead
    <3>3. CASE t \in DOMAIN db.queue
      BY <1>0, <1>2, <1>3, <3>2, <3>3, SMT
    <3>4. CASE t \notin DOMAIN db.queue
      <4>1. q[t] = u.next
        BY <1>3, <3>4
      <4> QED BY <1>0, <1>2, <4>1, SMT
    <3> QED BY <3>3, <3>4
  <2>8. \A x \in Procs : Ahead(proc'[x], q, gone)
    BY <1>11, <2>6, <2>7 DEF Ahead, Importing
  <2> QED BY <2>5, <2>6, <2>8 DEF OneImport
<1> QED BY <1>1, <1>11, <1>12, <1>13 DEF KInv


-----------------------------------------------------------------------------
(* The end of the migration.                                               *)

(* Those without a number get the place at which they waited; where the    *)
(* queue has been imported, all have a number.                             *)
LEMMA NumberQueueKeeps ==
  ASSUME SInv, KInv, NEW p \in Procs, NumberQueue(p)
  PROVE  KInv'
<1> DEFINE q == [s \in DOMAIN db.queue |-> IF db.queue[s] = 0 THEN Place(s) ELSE db.queue[s]]
<1>0. /\ proc[p].at = "number" /\ Goes(p, "stamp") /\ db \in Databases /\ QueueOK(db.queue)
      /\ DbOK(db) /\ db.version \in Nat
      /\ Progress(proc[p], db, legacy, gone) /\ QueueKept(db, legacy, gone)
  BY AtStep DEF NumberQueue, At, KInv
<1>1. /\ legacy' = legacy /\ gone' = gone /\ crossed' = crossed
      /\ db'.queue = q /\ db'.version = db.version /\ db'.done = db.done
  BY <1>0 DEF NumberQueue, Still, Databases
<1>2. /\ DOMAIN q = DOMAIN db.queue
      /\ \A s \in DOMAIN q : q[s] = IF db.queue[s] = 0 THEN Place(s) ELSE db.queue[s]
  OBVIOUS
<1>3. Numbered(db.queue) => \A s \in DOMAIN q : q[s] = db.queue[s]
  BY <1>2 DEF Numbered
<1>4. Numbered(db.queue) => Numbered(q)
  BY <1>2, <1>3 DEF Numbered
<1>5. PICK r : /\ proc' = [proc EXCEPT ![p] = r] /\ r.at = "stamp" /\ r.ver = proc[p].ver
  BY <1>0, GoesTo DEF Done, Places, Migrating, AfterBatch, AfterColumns
<1> HIDE DEF q
<1>6. Keeps(db, db', gone, gone')
  BY <1>1, <1>2 DEF Keeps, Kept
<1>7. Progress(r, db', legacy, gone')
  <2>1. AllKept(db.queue, gone)
    BY <1>0 DEF Progress, AfterImport
  <2>2. AllKept(q, gone)
    BY <1>2, <2>1 DEF AllKept, Kept
  <2>3. r.ver < Queued => legacy = Waiting
    BY <1>0, <1>5 DEF Progress, AfterColumns
  <2> QED BY <1>1, <1>5, <2>2, <2>3 DEF Progress, Importing
<1>8. /\ \A x \in Procs : Progress(proc'[x], db', legacy, gone')
      /\ proc'[p] = r /\ \A x \in Procs \ {p} : proc'[x] = proc[x]
  BY <1>1, <1>5, <1>6, <1>7, OneProgresses
<1>9. QueueKept(db', legacy, gone)
  <2>1. AllKept(db.queue, gone) => AllKept(q, gone)
    BY <1>2 DEF AllKept, Kept
  <2>2. ASSUME NEW t \in DOMAIN q, Place(t) = 0, NEW s \in Old \ gone
        PROVE  s \in DOMAIN q /\ q[s] < q[t]
    <3>1. Numbered(db.queue)
      <4>1. t \notin Old
        BY <2>2, OldIs, SMT
      <4>2. ~(db.version < SCHEMA_VERSION)
        BY <1>0, <1>2, <4>1 DEF QueueKept
      <4>3. db.version >= InOrder
        BY <1>0, <4>2, SMT DEF SCHEMA_VERSION, InOrder
      <4> QED BY <1>0, <4>3 DEF DbOK
    <3>2. s \in DOMAIN db.queue /\ db.queue[s] < db.queue[t]
      BY <1>0, <1>2, <2>2 DEF QueueKept
    <3> QED BY <1>2, <1>3, <3>1, <3>2
  <2>3. legacy # Waiting => \A s \in (Old \cap DOMAIN q) \ gone : q[s] \in {0, Place(s)}
    BY <1>0, <1>2 DEF QueueKept
  <2> QED BY <1>0, <1>1, <1>2, <1>4, <2>1, <2>2, <2>3 DEF QueueKept
<1>10. ASSUME legacy = Waiting, ~crossed PROVE OneImport(proc', q, gone)
  <2>1. OneImport(proc, db.queue, gone) /\ Numbered(db.queue)
    BY <1>0, <1>10 DEF KInv, QueueKept
  <2>2. DOMAIN q = DOMAIN db.queue /\ \A s \in DOMAIN q : q[s] = db.queue[s]
    BY <1>2, <1>3, <2>1
  <2>3. InTurn(q, gone)
    BY <2>1, <2>2 DEF OneImport, InTurn, Kept
  <2>4. AllKept(q, gone)
    BY <1>0, <2>2 DEF Progress, AfterImport, AllKept, Kept
  <2>5. proc'[p].at \notin Importing
    BY <1>5, <1>8 DEF Importing
  <2>6. \A x \in Procs : proc'[x].at \in Importing => proc'[x] = proc[x]
    BY <1>8, <2>5
  <2> QED BY <2>1, <2>3, <2>4, <2>6 DEF OneImport, Ahead
<1> QED BY <1>1, <1>8, <1>9, <1>10 DEF KInv

(* The version is written when all are kept.                               *)
LEMMA StampKeeps ==
  ASSUME SInv, KInv, NEW p \in Procs, Stamp(p)
  PROVE  KInv'
<1>0. /\ proc[p].at = "stamp" /\ db \in Databases
      /\ Progress(proc[p], db, legacy, gone) /\ QueueKept(db, legacy, gone)
  BY AtStep DEF Stamp, At, KInv
<1>1. /\ legacy' = legacy /\ gone' = gone /\ crossed' = crossed
      /\ db'.queue = db.queue /\ db'.version = SCHEMA_VERSION /\ db'.done = db.done
  BY <1>0 DEF Stamp, Still, Databases
<1>2. SCHEMA_VERSION >= SCHEMA_VERSION /\ ~(SCHEMA_VERSION < SCHEMA_VERSION)
      /\ ~(SCHEMA_VERSION < Queued)
  BY SMT DEF SCHEMA_VERSION, Queued
<1>3. AllKept(db.queue, gone)
  BY <1>0 DEF Progress, AfterImport
<1>4. PICK at \in {"open", "reading"} : Goes(p, at)
  BY DEF Stamp
<1>5. PICK r : proc' = [proc EXCEPT ![p] = r] /\ r.at = at
  BY <1>4, GoesTo
<1>6. Keeps(db, db', gone, gone')
  BY <1>1, <1>2 DEF Keeps
<1>7. r.at \notin Importing /\ Progress(r, db', legacy, gone')
  BY <1>1, <1>2, <1>4, <1>5 DEF Progress, AfterColumns, AfterImport, Importing
<1>8. /\ \A x \in Procs : Progress(proc'[x], db', legacy, gone')
      /\ proc'[p] = r /\ \A x \in Procs \ {p} : proc'[x] = proc[x]
  BY <1>1, <1>5, <1>6, <1>7, OneProgresses
<1>9. QueueKept(db', legacy, gone)
  BY <1>0, <1>1, <1>2, <1>3 DEF QueueKept
<1>10. ASSUME legacy = Waiting, ~crossed PROVE OneImport(proc', db.queue, gone)
  <2>1. OneImport(proc, db.queue, gone)
    BY <1>10 DEF KInv
  <2>2. \A x \in Procs : proc'[x].at \in Importing => proc'[x] = proc[x]
    BY <1>7, <1>8
  <2> QED BY <1>3, <2>1, <2>2 DEF OneImport, Ahead
<1> QED BY <1>1, <1>8, <1>9, <1>10 DEF KInv

(* The work with an open database.  All that waited are kept by then, and  *)
(* whatever is queued comes after them.                                    *)
LEMMA WorkKeeps ==
  ASSUME SInv, KInv, NEW p \in Procs, Work(p)
  PROVE  KInv'
<1>0. /\ proc[p].at = "open" /\ db \in Databases /\ QueueOK(db.queue) /\ db.version \in Nat
      /\ Progress(proc[p], db, legacy, gone) /\ QueueKept(db, legacy, gone)
      /\ proc' = proc /\ legacy' = legacy /\ crossed' = crossed
  BY AtStep DEF Work, Works, At, KInv
<1>1. /\ db.version >= SCHEMA_VERSION /\ AllKept(db.queue, gone)
      /\ ~(db.version < SCHEMA_VERSION) /\ ~(db.version < Queued)
  <2>1. db.version >= SCHEMA_VERSION
    BY <1>0 DEF Progress
  <2>2. db.version >= Queued /\ ~(db.version < SCHEMA_VERSION) /\ ~(db.version < Queued)
    BY <1>0, <2>1, SMT DEF SCHEMA_VERSION, Queued
  <2> QED BY <1>0, <2>1, <2>2 DEF QueueKept
<1>2. PICK s \in Sessions : Ingests(s) \/ Enqueues(s) \/ \E finished \in BOOLEAN : Drops(s, finished)
  BY DEF Work
<1>3. ASSUME db'.version = db.version, db'.done \subseteq gone',
             AllKept(db'.queue, gone'),
             \A t \in DOMAIN db'.queue : Place(t) = 0 =>
               \A x \in Old \ gone' : db'.queue[x] < db'.queue[t],
             \A x \in (Old \cap DOMAIN db'.queue) \ gone' :
               x \in (Old \cap DOMAIN db.queue) \ gone /\ db'.queue[x] = db.queue[x],
             Numbered(db.queue) => Numbered(db'.queue)
      PROVE  KInv'
  <2>1. Keeps(db, db', gone, gone')
    BY <1>3 DEF Keeps, AllKept
  <2>2. \A x \in Procs : Progress(proc'[x], db', legacy, gone')
    BY <1>0, <2>1, AtStep, ProgressStays DEF KInv
  <2>3. \A x \in Old \ gone' : x \in DOMAIN db'.queue
    BY <1>3 DEF AllKept, Kept
  <2>4. legacy # Waiting => \A x \in (Old \cap DOMAIN db'.queue) \ gone' : db'.queue[x] \in {0, Place(x)}
    BY <1>0, <1>3 DEF QueueKept
  <2>5. legacy = Waiting => Numbered(db'.queue)
    BY <1>0, <1>3 DEF QueueKept
  <2>6. QueueKept(db', legacy, gone')
    BY <1>1, <1>3, <2>3, <2>4, <2>5 DEF QueueKept
  <2>7. ASSUME legacy = Waiting, ~crossed PROVE OneImport(proc, db'.queue, gone')
    <3>1. OneImport(proc, db.queue, gone)
      BY <2>7 DEF KInv
    <3>2. InTurn(db'.queue, gone')
      <4>1. \A x, y \in (Old \cap DOMAIN db'.queue) \ gone' :
              Elder(x, y) => db'.queue[x] < db'.queue[y]
        BY <1>3, <3>1 DEF OneImport, InTurn
      <4> QED BY <1>3, <4>1 DEF InTurn, AllKept
    <3> QED BY <1>3, <3>1, <3>2 DEF OneImport, Ahead
  <2> QED BY <1>0, <2>2, <2>6, <2>7 DEF KInv
<1>4. \A t \in DOMAIN db.queue : Place(t) = 0 =>
        \A x \in Old \ gone : x \in DOMAIN db.queue /\ db.queue[x] < db.queue[t]
  BY <1>0 DEF QueueKept
<1>5. db.done \subseteq gone
  BY <1>0 DEF QueueKept
<1>6. CASE Ingests(s)
  <2>1. /\ db'.queue = db.queue /\ db'.version = db.version /\ gone' = gone
        /\ db'.done = db.done \ {s}
    BY <1>0, <1>6 DEF Ingests, Databases
  <2> QED BY <1>1, <1>3, <1>4, <1>5, <2>1
<1>7. CASE Enqueues(s)
  <2> DEFINE n == MaxSeq(db.queue) + 1
             q == InsertOrIgnore(db.queue, s, n)
  <2>1. /\ db'.queue = q /\ db'.version = db.version /\ gone' = gone /\ db'.done = db.done
    BY <1>0, <1>7 DEF Enqueues, Databases
  <2>2. MaxSeq(db.queue) \in Nat /\ \A t \in DOMAIN db.queue : db.queue[t] <= MaxSeq(db.queue)
    BY <1>0, MaxSeqIs
  <2>3. /\ n \in Nat /\ n # 0
        /\ \A t \in DOMAIN db.queue : db.queue[t] < n
    <3>1. \A t \in DOMAIN db.queue : db.queue[t] \in Nat
      BY <1>0, QueueIs
    <3> QED BY <2>2, <3>1, SMT
  <2>4. /\ DOMAIN q = DOMAIN db.queue \cup {s}
        /\ \A t \in DOMAIN db.queue : q[t] = db.queue[t]
        /\ s \notin DOMAIN db.queue => q[s] = n
    BY InsertIs
  <2> HIDE DEF q, n
  <2>5. Numbered(db.queue) => Numbered(q)
    BY <2>3, <2>4 DEF Numbered
  <2>6. AllKept(q, gone)
    BY <1>1, <2>4 DEF AllKept, Kept
  <2>7. \A x \in Old \ gone : x \in DOMAIN db.queue
    BY <1>1 DEF AllKept, Kept
  <2>8. ASSUME NEW t \in DOMAIN q, Place(t) = 0, NEW x \in Old \ gone PROVE q[x] < q[t]
    <3>1. CASE t \in DOMAIN db.queue
      BY <1>4, <2>4, <2>8, <3>1
    <3>2. CASE t \notin DOMAIN db.queue
      <4>1. q[t] = n /\ q[x] = db.queue[x] /\ db.queue[x] < n
        BY <2>3, <2>4, <2>7, <3>2
      <4> QED BY <4>1
    <3> QED BY <3>1, <3>2
  <2>9. \A x \in (Old \cap DOMAIN q) \ gone :
          x \in (Old \cap DOMAIN db.queue) \ gone /\ q[x] = db.queue[x]
    BY <2>4, <2>7
  <2> QED BY <1>3, <1>5, <2>1, <2>5, <2>6, <2>8, <2>9
<1>8. CASE \E finished \in BOOLEAN : Drops(s, finished)
  <2>1. PICK finished \in BOOLEAN : Drops(s, finished)
    BY <1>8
  <2> DEFINE q == Restrict(db.queue, DOMAIN db.queue \ {s})
             done == db.done \cup {t \in {s} : finished}
  <2>2. /\ db'.queue = q /\ db'.version = db.version /\ gone' = gone \cup {s}
        /\ db'.done = done
    BY <1>0, <2>1 DEF Drops, Databases
  <2>3. /\ DOMAIN q = DOMAIN db.queue \ {s}
        /\ \A t \in DOMAIN q : q[t] = db.queue[t]
    BY DEF Restrict
  <2>4. done \subseteq gone \cup {s}
    BY <1>5
  <2> HIDE DEF q, done
  <2>5. Numbered(db.queue) => Numbered(q)
    BY <2>3 DEF Numbered
  <2>6. AllKept(q, gone \cup {s})
    BY <1>1, <2>3 DEF AllKept, Kept
  <2>7. ASSUME NEW t \in DOMAIN q, Place(t) = 0, NEW x \in Old \ (gone \cup {s}) PROVE q[x] < q[t]
    BY <1>4, <2>3, <2>7
  <2>8. \A x \in (Old \cap DOMAIN q) \ (gone \cup {s}) :
          x \in (Old \cap DOMAIN db.queue) \ gone /\ q[x] = db.queue[x]
    BY <2>3
  <2> QED BY <1>3, <2>2, <2>4, <2>5, <2>6, <2>7, <2>8
<1> QED BY <1>2, <1>6, <1>7, <1>8

-----------------------------------------------------------------------------
(* The invariant of the old queue.                                         *)

(* Where the queue is a table, those that waited are in it in their order; *)
(* where it is a file, the table is empty.                                 *)
LEMMA KInitInv == MInit => KInv
<1> SUFFICES ASSUME MInit PROVE KInv
  OBVIOUS
<1>1. PICK v \in Versions, porter \in BOOLEAN, done \in SUBSET ToSet(Waiting) :
        /\ db.version = v /\ db.done = done /\ gone = done
        /\ db.queue = [s \in {t \in ToSet(Waiting) : v >= Queued} |->
                         IF v = Queued THEN 0 ELSE Place(s)]
        /\ legacy = IF v < Queued THEN Waiting ELSE <<>>
  BY DEF MInit
<1>2. proc = [p \in Procs |-> Closed] /\ crossed = FALSE
  BY DEF MInit
<1>3. v \in Nat
  BY SchemaAssumption, SMT DEF SchemaAssumption, SCHEMA_VERSION, Fresh, Queued
<1>4. /\ v >= Queued => DOMAIN db.queue = Old
      /\ v < Queued => DOMAIN db.queue = {}
      /\ DOMAIN db.queue \subseteq Old
      /\ \A s \in DOMAIN db.queue : db.queue[s] = IF v = Queued THEN 0 ELSE Place(s)
  BY <1>1, <1>3, SMT DEF Old, Queued
<1>5. legacy = Waiting => DOMAIN db.queue = {}
  <2>1. CASE v < Queued
    BY <1>4, <2>1
  <2>2. CASE ~(v < Queued)
    <3> SUFFICES ASSUME legacy = Waiting PROVE DOMAIN db.queue = {}
      OBVIOUS
    <3>1. Waiting = <<>>
      BY <1>1, <2>2
    <3>2. Old = {}
      BY <3>1 DEF Old, ToSet
    <3> QED BY <1>4, <3>2
  <2> QED BY <2>1, <2>2
<1>6. QueueKept(db, legacy, gone)
  <2>1. AllKept(db.queue, gone) \/ v < Queued
    BY <1>3, <1>4, SMT DEF AllKept, Kept, Queued
  <2>2. ~(v < Queued /\ v >= Queued)
    BY <1>3, SMT DEF Queued
  <2>3. \A t \in Old : Place(t) # 0
    BY OldIs, SMT
  <2>4. legacy = Waiting => Numbered(db.queue)
    BY <1>5 DEF Numbered
  <2> QED BY <1>1, <1>4, <2>1, <2>2, <2>3, <2>4 DEF QueueKept
<1>7. \A p \in Procs : proc[p].at = "closed"
  BY <1>2 DEF Closed
<1>8. \A p \in Procs : Progress(proc[p], db, legacy, gone)
  BY <1>7 DEF Progress, Importing, AfterImport, AfterColumns
<1>9. legacy = Waiting => OneImport(proc, db.queue, gone)
  BY <1>5, <1>7 DEF OneImport, InTurn, Ahead, Importing
<1> QED BY <1>6, <1>8, <1>9 DEF KInv

(* Every step keeps it.                                                    *)
LEMMA KStepInv == SInv /\ KInv /\ [MNext]_mvars => KInv'
<1> SUFFICES ASSUME SInv, KInv, [MNext]_mvars PROVE KInv'
  OBVIOUS
<1>1. ASSUME NEW p \in Procs, Open(p) \/ Look(p) \/ Interrupted(p) \/ Work(p) \/ Close(p)
      PROVE  KInv'
  BY <1>1, QuietSteps, QuietReads, WorkKeeps
<1>2. ASSUME NEW p \in Procs, Migrate(p)
      PROVE  KInv'
  BY <1>2, QuietSteps, QuietReads, ReadLegacyKeeps, ImportNextKeeps, InsertNextKeeps,
     NumberQueueKeeps, StampKeeps DEF Migrate
<1>3. CASE UNCHANGED mvars
  BY <1>3 DEF mvars, KInv
<1> QED BY <1>1, <1>2, <1>3 DEF MNext

(* No session that waited in an old queue is forgotten by the upgrade, and *)
(* those queued since come after them; their own order is kept as well,    *)
(* unless two processes imported the old queue at once.                    *)
THEOREM OldQueueSurvives == MSpec => []OldQueueKept
<1>1. SInv /\ KInv => OldQueueKept
  <2> SUFFICES ASSUME SInv, KInv, db.version = SCHEMA_VERSION
               PROVE  /\ ToSet(Waiting) \subseteq DOMAIN db.queue \cup gone
                      /\ \A s \in ToSet(Waiting) \ gone : \A t \in DOMAIN db.queue :
                           Place(t) = 0 => db.queue[s] < db.queue[t]
                      /\ ~crossed => \A s, t \in ToSet(Waiting) \ gone :
                                       Elder(s, t) => db.queue[s] < db.queue[t]
    BY DEF OldQueueKept
  <2>1. db.version >= Queued /\ db.version >= InOrder
    BY SMT DEF SCHEMA_VERSION, Queued, InOrder
  <2>2. QueueKept(db, legacy, gone) /\ Numbered(db.queue)
    BY <2>1 DEF KInv, SInv, DbOK
  <2>3. AllKept(db.queue, gone)
    BY <2>1, <2>2 DEF QueueKept
  <2>4. \A s \in Old \ gone : s \in DOMAIN db.queue
    BY <2>3 DEF AllKept, Kept
  <2>5. ASSUME ~crossed, NEW s \in Old \ gone, NEW t \in Old \ gone, Elder(s, t)
        PROVE  db.queue[s] < db.queue[t]
    <3>1. CASE legacy = Waiting
      BY <2>4, <2>5, <3>1 DEF KInv, OneImport, InTurn
    <3>2. CASE legacy # Waiting
      <4>1. db.queue[s] = Place(s) /\ db.queue[t] = Place(t)
        BY <2>2, <2>4, <3>2 DEF QueueKept, Numbered
      <4> QED BY <2>5, <4>1, ElderIs
    <3> QED BY <3>1, <3>2
  <2> QED BY <2>2, <2>3, <2>5 DEF QueueKept, AllKept, Kept, Old
<1>2. MInit => SInv /\ KInv
  BY SInitInv, KInitInv
<1>3. SInv /\ KInv /\ [MNext]_mvars => SInv' /\ KInv'
  BY SStepInv, KStepInv
<1> QED BY <1>1, <1>2, <1>3, PTL DEF MSpec

=============================================================================
