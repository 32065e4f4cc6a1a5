-------------------------- MODULE CheckpointProofs --------------------------
(***************************************************************************)
(* Theorems about the checkpoint queue, for any sessions, readers and      *)
(* number of turns.                                                        *)
(*                                                                         *)
(* HonestWatermark is not inductive: a reader acknowledges what it read    *)
(* long before.  The invariant therefore says of every reader at work that *)
(* its boundary is archived, that the turns it skips were acknowledged     *)
(* when it skipped them, and that it has read the rest (JobOK).  Nothing-  *)
(* OwedLost needs to know that what was offered is archived, and that a    *)
(* session without a row was never offered (Owed): acknowledging such a    *)
(* session moves no watermark.                                             *)
(*                                                                         *)
(* The hooks of module Lifecycle are shown to take no step the queue does  *)
(* not admit, so all of this is true of them as well.                      *)
(***************************************************************************)
EXTENDS Lifecycle, TLAPS

JobOK(r) ==
  LET j == job[r]
  IN  /\ j.at # "idle" => j.sid \in Sessions /\ j.boundary <= hi[j.sid]
      /\ j.at \in {"looked", "read"} =>
           \A i \in Seqs : i <= j.since => i \in digested[j.sid]
      /\ j.at = "read" =>
           \A i \in Seqs : j.since < i /\ i <= j.boundary => i \in j.turns

Jobs == \A r \in Readers : JobOK(r)

(* The watermark of a session of the user is archived.                     *)
Bounded == \A s \in Sessions : row[s].mark <= hi[s]

Owed ==
  \A s \in Sessions :
    /\ due[s] <= hi[s]
    /\ ~row[s].there => due[s] = -1

Apart ==
  \A c \in Children :
    /\ c \notin queue
    /\ row[c].there => row[c].mark = Muted

Unborn == \A s \in All : ~row[s].there => row[s].mark = -1

Inv ==
  /\ TypeOK
  /\ Bounded
  /\ HonestWatermark
  /\ Owed
  /\ NothingOwedLost
  /\ Apart
  /\ Unborn
  /\ Jobs

(* A reader keeps what it knows while the archive and the acknowledged     *)
(* turns grow.                                                             *)
LEMMA JobKept ==
  ASSUME TypeOK, Jobs, TypeOK', NEW r \in Readers, job'[r] = job[r],
         \A s \in All : hi[s] <= hi'[s] /\ digested[s] \subseteq digested'[s]
  PROVE  JobOK(r)'
<1> DEFINE j == job[r]
<1>1. JobOK(r)
  BY DEF Jobs
<1>2. j \in Job /\ Sessions \subseteq All
  BY DEF TypeOK, All
<1>3. j.at # "idle" => j.sid \in Sessions /\ j.boundary <= hi'[j.sid]
  BY <1>1, <1>2 DEF JobOK, TypeOK, Job
<1>4. j.at \in {"looked", "read"} =>
        \A i \in Seqs : i <= j.since => i \in digested'[j.sid]
  BY <1>1, <1>2 DEF JobOK
<1>5. j.at = "read" =>
        \A i \in Seqs : j.since < i /\ i <= j.boundary => i \in j.turns
  BY <1>1 DEF JobOK
<1> QED
  BY <1>3, <1>4, <1>5 DEF JobOK

(* A reader that stops knows nothing.                                      *)
LEMMA JobStopped ==
  ASSUME TypeOK, TypeOK', Jobs, NEW r \in Readers, Stop(r),
         \A s \in All : hi[s] <= hi'[s] /\ digested[s] \subseteq digested'[s]
  PROVE  Jobs'
<1> SUFFICES ASSUME NEW q \in Readers
             PROVE  JobOK(q)'
  BY DEF Jobs
<1>1. CASE q = r
  BY <1>1 DEF JobOK, Stop, NoJob, TypeOK
<1>2. CASE q # r
  <2>1. job'[q] = job[q]
    BY <1>2 DEF Stop, TypeOK
  <2> QED
    BY <2>1, JobKept
<1> QED
  BY <1>1, <1>2

(* Acknowledging the turns up to n keeps every part of the invariant but   *)
(* the readers' own, provided they have been digested.                     *)
LEMMA Acknowledging ==
  ASSUME Inv, NEW s \in Sessions, NEW n \in -1 .. MaxSeq, Acknowledge(s, n),
         UNCHANGED <<hi, asked, due>>,
         job' \in [Readers -> Job], digested' \in [All -> SUBSET Seqs],
         \A x \in All : digested[x] \subseteq digested'[x],
         row[s].there => \A i \in Seqs : i <= n => i \in digested'[s]
  PROVE  /\ TypeOK'
         /\ Bounded'
         /\ HonestWatermark'
         /\ Owed'
         /\ NothingOwedLost'
         /\ Apart'
         /\ Unborn'
<1>0. /\ s \in All /\ Sessions \subseteq All /\ Children \subseteq All
      /\ s \notin Children /\ MaxSeq \in Nat
  BY ConstantsAssumption DEF All
<1>1. /\ row' \in [All -> Row]
      /\ \A x \in All : x # s => row'[x] = row[x]
      /\ row'[s].there = row[s].there
      /\ row[s].there => row'[s].mark = Larger(row[s].mark, n)
      /\ ~row[s].there => row'[s].mark = row[s].mark
  BY <1>0 DEF Inv, TypeOK, Acknowledge, Advanced, Larger, Row, Muted
<1>2. queue' \subseteq queue /\ \A x \in All : x # s => (x \in queue' <=> x \in queue)
  BY DEF Acknowledge
<1>3. TypeOK'
  BY <1>1, <1>2 DEF Inv, TypeOK
<1>4. Bounded'
  BY <1>0, <1>1 DEF Inv, TypeOK, Bounded, Acknowledge, Larger, Row
<1>5. HonestWatermark'
  <2> SUFFICES ASSUME NEW x \in Sessions, NEW i \in Seqs, i <= row'[x].mark
               PROVE  i \in digested'[x]
    BY DEF HonestWatermark
  <2>1. i <= row[x].mark => i \in digested'[x]
    BY <1>0 DEF Inv, HonestWatermark
  <2>2. i <= row[x].mark \/ (x = s /\ row[s].there /\ i <= n)
    BY <1>0, <1>1 DEF Inv, TypeOK, Larger, Row, Seqs
  <2> QED
    BY <2>1, <2>2
<1>6. Owed'
  BY <1>0, <1>1 DEF Inv, Owed
<1>7. NothingOwedLost'
  <2> SUFFICES ASSUME NEW x \in Sessions, due[x] > row'[x].mark
               PROVE  x \in queue'
    BY DEF NothingOwedLost
  <2>1. CASE x # s
    BY <2>1, <1>0, <1>1, <1>2 DEF Inv, NothingOwedLost
  <2>2. CASE x = s /\ n # hi[s]
    BY <2>2, <1>0, <1>1 DEF Inv, NothingOwedLost, Acknowledge, TypeOK, Larger, Row
  <2>3. CASE x = s /\ n = hi[s]
    BY <2>3, <1>0, <1>1 DEF Inv, Owed, Unborn, TypeOK, Larger, Row
  <2> QED
    BY <2>1, <2>2, <2>3
<1>8. Apart'
  BY <1>0, <1>1, <1>2 DEF Inv, Apart
<1>9. Unborn'
  BY <1>0, <1>1 DEF Inv, Unborn
<1> QED
  BY <1>3, <1>4, <1>5, <1>6, <1>7, <1>8, <1>9

(* The invariant holds initially. *)
LEMMA Initially == Init => Inv
<1> SUFFICES ASSUME Init
             PROVE  Inv
  OBVIOUS
<1>1. MaxSeq \in Nat /\ Sessions \subseteq All /\ Children \subseteq All
  BY ConstantsAssumption DEF All
<1>2. TypeOK
  BY <1>1 DEF Init, TypeOK, Row, NoRow, Job, NoJob, Hows, Muted, Seqs
<1>3. Jobs
  BY DEF Init, Jobs, JobOK, NoJob
<1> QED
  BY <1>1, <1>2, <1>3 DEF Init, Inv, Bounded, HonestWatermark, Owed,
     NothingOwedLost, Apart, Unborn, NoRow, Seqs

(* What an action leaves alone, it leaves true.                            *)
LEMMA Steps == Inv /\ [Next]_vars => Inv'
<1> SUFFICES ASSUME Inv, [Next]_vars
             PROVE  Inv'
  OBVIOUS
<1> USE DEF Inv
<1>0. /\ MaxSeq \in Nat /\ Sessions \subseteq All /\ Children \subseteq All
      /\ Sessions \cap Children = {} /\ NoSession \notin All
      /\ hi \in [All -> -1 .. MaxSeq] /\ digested \in [All -> SUBSET Seqs]
      /\ row \in [All -> Row] /\ job \in [Readers -> Job]
      /\ due \in [All -> -1 .. MaxSeq]
  BY ConstantsAssumption DEF All, TypeOK
<1>nojob. NoJob \in Job
  BY <1>0 DEF Job, NoJob, Hows
<1>1. ASSUME NEW s \in All, NEW n \in Seqs, NEW user \in BOOLEAN,
             ArchiveTurns(s, n, user)
      PROVE  Inv'
  <2>1. TypeOK'
    BY <1>0, <1>1 DEF ArchiveTurns, TypeOK, Seqs
  <2>2. \A x \in All : hi[x] <= hi'[x]
    BY <1>0, <1>1 DEF ArchiveTurns, Seqs
  <2>3. Jobs'
    BY <1>0, <1>1, <2>1, <2>2, JobKept DEF ArchiveTurns, Jobs
  <2>4. Bounded' /\ Owed'
    BY <1>0, <1>1, <2>1, <2>2 DEF ArchiveTurns, Bounded, Owed, Row, TypeOK, Muted
  <2>5. HonestWatermark' /\ NothingOwedLost' /\ Apart' /\ Unborn'
    BY <1>1 DEF ArchiveTurns, HonestWatermark, NothingOwedLost, Apart, Unborn
  <2> QED
    BY <2>1, <2>3, <2>4, <2>5
<1>2. ASSUME NEW s \in All, NEW fresh \in BOOLEAN, NEW unread \in BOOLEAN,
             SaveRow(s, fresh, unread)
      PROVE  Inv'
  <2>1. /\ row' \in [All -> Row]
        /\ \A x \in All : row'[x].mark = row[x].mark
        /\ \A x \in All : x # s => row'[x] = row[x]
        /\ row'[s].there /\ (s \in Children => row[s].there)
    BY <1>0, <1>2 DEF SaveRow, Row, Started
  <2>2. TypeOK'
    BY <1>2, <2>1 DEF SaveRow, TypeOK
  <2>3. Jobs'
    BY <1>0, <1>2, <2>2, JobKept DEF SaveRow, Jobs
  <2>4. Bounded' /\ HonestWatermark' /\ NothingOwedLost'
    BY <1>0, <1>2, <2>1 DEF SaveRow, Bounded, HonestWatermark, NothingOwedLost
  <2>5. Owed' /\ Apart' /\ Unborn'
    BY <1>0, <1>2, <2>1 DEF SaveRow, Owed, Apart, Unborn
  <2> QED
    BY <2>2, <2>3, <2>4, <2>5
<1>3. ASSUME NEW s \in All, s \in Sessions \/ ~Worth(s) \/ hi[s] > row[s].mark,
             Enqueue(s), s \in Children => row[s].there
      PROVE  Inv'
  <2>1. s \in queue' => s \in queue \/ s \in Sessions
    BY <1>0, <1>3 DEF Enqueue, Apart, Muted, Worth, All
  <2>2. TypeOK'
    BY <1>0, <1>3 DEF Enqueue, TypeOK
  <2>3. Jobs'
    BY <1>0, <1>3, <2>2, JobKept DEF Enqueue, Jobs
  <2>4. Bounded' /\ HonestWatermark' /\ Unborn'
    BY <1>3 DEF Enqueue, Bounded, HonestWatermark, Unborn
  <2>5. Owed'
    BY <1>0, <1>3 DEF Enqueue, Owed
  <2>6. NothingOwedLost'
    BY <1>0, <1>3 DEF Enqueue, NothingOwedLost, Worth
  <2>7. Apart'
    BY <1>0, <1>3, <2>1 DEF Enqueue, Apart
  <2> QED
    BY <2>2, <2>3, <2>4, <2>5, <2>6, <2>7
<1>4. ASSUME NEW s \in All, SweepEnqueue(s)
      PROVE  Inv'
  BY <1>3, <1>4 DEF SweepEnqueue
<1>5. ASSUME NEW s \in Sessions, Enqueue(s)
      PROVE  Inv'
  BY <1>0, <1>3, <1>5
<1>6. ASSUME NEW s \in Sessions, NEW n \in -1 .. MaxSeq, Acknowledge(s, n),
             n = -1 \/ (row[s].there /\ n = row[s].mark),
             UNCHANGED <<hi, asked, job, digested, due>>
      PROVE  Inv'
  <2>1. row[s].there => \A i \in Seqs : i <= n => i \in digested'[s]
    BY <1>0, <1>6 DEF HonestWatermark, Seqs
  <2>2. /\ TypeOK' /\ Bounded' /\ HonestWatermark' /\ Owed'
        /\ NothingOwedLost' /\ Apart' /\ Unborn'
    BY <1>0, <1>6, <2>1, Acknowledging
  <2>3. Jobs'
    BY <1>0, <1>6, <2>2, JobKept DEF Jobs
  <2> QED
    BY <2>2, <2>3
<1>7. ASSUME NEW s \in Sessions, DropAtMark(s)
      PROVE  Inv'
  <2> DEFINE n == IF row[s].there THEN row[s].mark ELSE -1
  <2>1. n \in -1 .. MaxSeq
    BY <1>0, <1>7 DEF Bounded, Row, Muted
  <2> QED
    BY <2>1, <1>6, <1>7 DEF DropAtMark
<1>8. ASSUME NEW s \in Sessions, DropEmpty(s)
      PROVE  Inv'
  BY <1>0, <1>6, <1>8 DEF DropEmpty
<1>9. ASSUME NEW s \in Sessions, Abandon(s)
      PROVE  Inv'
  <2>1. TypeOK'
    BY <1>0, <1>9 DEF Abandon, TypeOK
  <2>2. Jobs'
    BY <1>0, <1>9, <2>1, JobKept DEF Abandon, Jobs
  <2>3. Bounded' /\ HonestWatermark' /\ Unborn' /\ Apart'
    BY <1>9 DEF Abandon, Bounded, HonestWatermark, Unborn, Apart
  <2>4. Owed' /\ NothingOwedLost'
    BY <1>0, <1>9 DEF Abandon, Owed, NothingOwedLost, Row
  <2> QED
    BY <2>1, <2>2, <2>3, <2>4
<1>10. ASSUME NEW s \in Sessions, MarkAll(s)
       PROVE  Inv'
  <2>1. digested' \in [All -> SUBSET Seqs]
    BY <1>0, <1>10 DEF MarkAll, Seqs
  <2>2. \A x \in All : digested[x] \subseteq digested'[x]
    BY <1>0, <1>10 DEF MarkAll
  <2>3. row[s].there => \A i \in Seqs : i <= hi[s] => i \in digested'[s]
    BY <1>0, <1>10 DEF MarkAll, Seqs
  <2>4. /\ TypeOK' /\ Bounded' /\ HonestWatermark' /\ Owed'
        /\ NothingOwedLost' /\ Apart' /\ Unborn'
    BY <1>0, <1>10, <2>1, <2>2, <2>3, Acknowledging DEF MarkAll
  <2>5. Jobs'
    BY <1>0, <1>10, <2>2, <2>4, JobKept DEF MarkAll, Jobs
  <2> QED
    BY <2>4, <2>5
<1>11. ASSUME NEW r \in Readers, NEW s \in Sessions, NEW c \in Children,
              Mute(r, s, c)
       PROVE  Inv'
  <2>1. /\ row' \in [All -> Row]
        /\ \A x \in All : x # c => row'[x] = row[x]
        /\ row[c].there => row'[c] = row[c]
        /\ ~row[c].there => row'[c].there /\ row'[c].mark = Muted
    <3>1. CASE row[c].there
      BY <1>0, <1>11, <3>1 DEF Mute
    <3>2. CASE ~row[c].there
      <4>1. row' = [row EXCEPT ![c].there = TRUE, ![c].mark = Muted]
        BY <1>11, <3>2 DEF Mute
      <4>2. row'[c] = [row[c] EXCEPT !.there = TRUE, !.mark = Muted]
        BY <1>0, <4>1
      <4>3. Muted \in -1 .. Muted /\ row[c] \in Row
        BY <1>0 DEF Muted
      <4>4. row'[c] \in Row /\ row'[c].there /\ row'[c].mark = Muted
        BY <4>2, <4>3 DEF Row
      <4> QED
        BY <1>0, <3>2, <4>1, <4>4
    <3> QED
      BY <3>1, <3>2
  <2>2. TypeOK'
    <3>1. [NoJob EXCEPT !.at = "captured", !.sid = s, !.boundary = hi[s]] \in Job
      <4>1. s \in All /\ hi[s] \in -1 .. MaxSeq
        BY <1>0
      <4> QED
        BY <1>nojob, <4>1 DEF Job
    <3>2. job' \in [Readers -> Job]
      BY <1>0, <1>11, <3>1 DEF Mute
    <3> QED
      BY <1>11, <2>1, <3>2 DEF Mute, TypeOK
  <2>3. Jobs'
    <3> SUFFICES ASSUME NEW q \in Readers
                 PROVE  JobOK(q)'
      BY DEF Jobs
    <3>1. CASE q = r
      BY <1>0, <1>11, <3>1 DEF Mute, JobOK, NoJob
    <3>2. CASE q # r
      BY <1>0, <1>11, <2>2, <3>2, JobKept DEF Mute
    <3> QED
      BY <3>1, <3>2
  <2>4. Bounded' /\ HonestWatermark' /\ Owed' /\ NothingOwedLost'
    BY <1>0, <1>11, <2>1 DEF Mute, Bounded, HonestWatermark, Owed, NothingOwedLost
  <2>5. Apart' /\ Unborn'
    BY <1>0, <1>11, <2>1 DEF Mute, Apart, Unborn
  <2> QED
    BY <2>2, <2>3, <2>4, <2>5
<1>12. ASSUME UNCHANGED <<hi, asked, row, queue, digested, due>>,
              job' \in [Readers -> Job], Jobs'
       PROVE  Inv'
  BY <1>12 DEF TypeOK, Bounded, HonestWatermark, Owed, NothingOwedLost, Apart,
     Unborn
<1>13. ASSUME NEW r \in Readers, NEW s \in Sessions, NEW how \in Roles,
              Capture(r, s, how)
       PROVE  Inv'
  <2>1. job' \in [Readers -> Job] /\ TypeOK'
    <3>1. [NoJob EXCEPT !.at = "looked", !.how = how, !.sid = s,
                        !.boundary = hi[s]] \in Job
      <4>1. s \in All /\ hi[s] \in -1 .. MaxSeq
        BY <1>0
      <4> QED
        BY <1>nojob, <4>1, ConstantsAssumption DEF Job, Hows
    <3>2. job' \in [Readers -> Job]
      BY <1>0, <1>13, <3>1 DEF Capture
    <3> QED
      BY <1>13, <3>2 DEF Capture, TypeOK
  <2>2. ASSUME NEW q \in Readers
        PROVE  JobOK(q)'
    <3>1. CASE q = r
      BY <1>0, <1>13, <3>1 DEF Capture, JobOK, NoJob, Seqs
    <3>2. CASE q # r
      BY <1>0, <1>13, <2>1, <3>2, JobKept DEF Capture
    <3> QED
      BY <3>1, <3>2
  <2> QED
    BY <1>12, <1>13, <2>1, <2>2 DEF Capture, Jobs
<1>14. ASSUME NEW r \in Readers, Look(r)
       PROVE  Inv'
  <2>0. job[r].sid \in Sessions /\ JobOK(r) /\ job[r] \in Job
    BY <1>0, <1>14 DEF Look, Jobs, JobOK
  <2>1. Since(r) \in -1 .. MaxSeq
    BY <1>0, <2>0 DEF Since, Row, Job
  <2>2. job' \in [Readers -> Job] /\ TypeOK'
    <3>1. [job[r] EXCEPT !.at = "looked", !.since = Since(r)] \in Job
      BY <2>0, <2>1 DEF Job
    <3>2. job' \in [Readers -> Job]
      BY <1>0, <1>nojob, <1>14, <3>1 DEF Look
    <3> QED
      BY <1>14, <3>2 DEF Look, TypeOK
  <2>3. ASSUME NEW q \in Readers
        PROVE  JobOK(q)'
    <3>1. CASE q = r /\ row[job[r].sid].unread
      BY <1>0, <1>14, <3>1 DEF Look, JobOK, NoJob
    <3>2. CASE q = r /\ ~row[job[r].sid].unread
      <4>1. job'[r] = [job[r] EXCEPT !.at = "looked", !.since = Since(r)]
        BY <1>0, <1>14, <3>2 DEF Look
      <4>2. \A i \in Seqs : i <= Since(r) => i \in digested[job[r].sid]
        BY <1>0, <2>0 DEF Since, HonestWatermark, Seqs
      <4>3. job'[r].sid = job[r].sid /\ job'[r].boundary = job[r].boundary
            /\ job'[r].at = "looked" /\ job'[r].since = Since(r)
        BY <2>0, <4>1 DEF Job
      <4> QED
        BY <1>14, <2>0, <3>2, <4>2, <4>3 DEF Look, JobOK
    <3>3. CASE q # r
      BY <1>0, <1>14, <2>2, <3>3, JobKept DEF Look
    <3> QED
      BY <3>1, <3>2, <3>3
  <2> QED
    BY <1>12, <1>14, <2>2, <2>3 DEF Look, Jobs
<1>15. ASSUME NEW r \in Readers, ReadTurns(r)
       PROVE  Inv'
  <2> DEFINE read == {i \in Seqs : job[r].since < i /\ i <= hi[job[r].sid]}
  <2>0. job[r].sid \in Sessions /\ JobOK(r) /\ job[r] \in Job
    BY <1>0, <1>15 DEF ReadTurns, Jobs, JobOK
  <2>1. job' \in [Readers -> Job] /\ TypeOK'
    BY <1>0, <1>15, <2>0 DEF ReadTurns, TypeOK, Job
  <2>2. ASSUME NEW q \in Readers
        PROVE  JobOK(q)'
    <3>1. CASE q = r
      <4>1. /\ job'[r].at = "read" /\ job'[r].turns = read
            /\ job'[r].sid = job[r].sid /\ job'[r].boundary = job[r].boundary
            /\ job'[r].since = job[r].since
        BY <1>0, <1>15, <2>0 DEF ReadTurns, Job
      <4>2. \A i \in Seqs : job[r].since < i /\ i <= job[r].boundary => i \in read
        BY <1>0, <1>15, <2>0 DEF ReadTurns, JobOK, Job, Seqs
      <4> QED
        BY <1>15, <2>0, <3>1, <4>1, <4>2 DEF ReadTurns, JobOK
    <3>2. CASE q # r
      <4>1. job'[q] = job[q]
        BY <1>0, <1>15, <3>2 DEF ReadTurns
      <4>2. UNCHANGED <<hi, digested>>
        BY <1>15 DEF ReadTurns
      <4> HIDE DEF read
      <4> QED
        BY <1>0, <2>1, <4>1, <4>2, JobKept
    <3> QED
      BY <3>1, <3>2
  <2> QED
    BY <1>12, <1>15, <2>1, <2>2 DEF ReadTurns, Jobs
<1>16. ASSUME NEW r \in Readers, job[r].at = "read",
              Acknowledge(job[r].sid, job[r].boundary), Stop(r),
              digested' = [digested EXCEPT ![job[r].sid] = @ \cup job[r].turns],
              UNCHANGED <<hi, asked, due>>
       PROVE  Inv'
  <2>0. job[r].sid \in Sessions /\ JobOK(r) /\ job[r] \in Job
    BY <1>0, <1>16 DEF Jobs, JobOK
  <2>1. digested' \in [All -> SUBSET Seqs] /\ job' \in [Readers -> Job]
    BY <1>0, <1>16, <2>0 DEF Job, Stop, NoJob, Hows
  <2>2. \A x \in All : digested[x] \subseteq digested'[x]
    BY <1>0, <1>16
  <2>3. \A i \in Seqs : i <= job[r].boundary => i \in digested'[job[r].sid]
    BY <1>0, <1>16, <2>0 DEF JobOK, Job, Seqs
  <2>4. job[r].boundary \in -1 .. MaxSeq
    BY <2>0 DEF Job
  <2>5. /\ TypeOK' /\ Bounded' /\ HonestWatermark' /\ Owed'
        /\ NothingOwedLost' /\ Apart' /\ Unborn'
    BY <1>0, <1>16, <2>0, <2>1, <2>2, <2>3, <2>4, Acknowledging
  <2>6. Jobs'
    BY <1>0, <1>16, <2>2, <2>5, JobStopped
  <2> QED
    BY <2>5, <2>6
<1>17. ASSUME NEW r \in Readers, Fail(r)
       PROVE  Inv'
  <2>1. job' \in [Readers -> Job] /\ TypeOK'
    BY <1>0, <1>17 DEF Fail, Stop, TypeOK, Job, NoJob, Hows
  <2>2. Jobs'
    BY <1>0, <1>17, <2>1, JobStopped DEF Fail
  <2> QED
    BY <1>12, <1>17, <2>1, <2>2 DEF Fail
<1>18. CASE UNCHANGED vars
  BY <1>12, <1>18 DEF vars, Jobs, JobOK, TypeOK
<1>19. CASE Hooks
  BY <1>1, <1>2, <1>4, <1>19 DEF Hooks
<1>20. CASE Commands
  BY <1>5, <1>7, <1>8, <1>9, <1>10, <1>20 DEF Commands
<1>21. ASSUME NEW r \in Readers, Reading(r)
       PROVE  Inv'
  BY <1>11, <1>13, <1>14, <1>15, <1>16, <1>17, <1>21
     DEF Reading, Finish, DropThrough, MarkThrough
<1> QED
  BY <1>18, <1>19, <1>20, <1>21 DEF Next

----------------------------------------------------------------------------
(* The inductive invariant holds in every reachable state. *)
THEOREM Invariance == Spec => []Inv
<1> QED
  BY Initially, Steps, PTL DEF Spec

(* Every variable of the queue stays within its type.                      *)
THEOREM TypeCorrect == Spec => []TypeOK
<1>1. Inv => TypeOK
  BY DEF Inv
<1> QED
  BY <1>1, Invariance, PTL

(* enqueue_checkpoint, checkpoint-drop, checkpoint-mark and finish never   *)
(* move the watermark beyond a turn whose reader has not acknowledged it.  *)
THEOREM WatermarkIsHonest == Spec => []HonestWatermark
<1>1. Inv => HonestWatermark
  BY DEF Inv
<1> QED
  BY <1>1, Invariance, PTL

(* A session that enqueue_checkpoint took stays queued until everything it *)
(* held then is checkpointed, or it is abandoned.                          *)
THEOREM NothingIsLost == Spec => []NothingOwedLost
<1>1. Inv => NothingOwedLost
  BY DEF Inv
<1> QED
  BY <1>1, Invariance, PTL

(* The sweep never queues the session of a child the worker has muted.     *)
THEOREM ChildStaysOut == Spec => []ChildNeverQueued
<1>1. Inv => ChildNeverQueued
  BY DEF Inv, Apart, ChildNeverQueued
<1> QED
  BY <1>1, Invariance, PTL

----------------------------------------------------------------------------
(***************************************************************************)
(* Refinement.                                                             *)
(***************************************************************************)
Mark == [s \in All |-> row[s].mark]

(* A step that changes nothing the ledger speaks of.                       *)
LEMMA Stutters ==
  ASSUME UNCHANGED <<hi, queue>>, \A x \in All : row'[x].mark = row[x].mark
  PROVE  UNCHANGED <<hi, Mark, queue>>
BY DEF Mark

(* Acknowledging up to n is progress, completion or, without a row, an     *)
(* abandonment.                                                            *)
LEMMA AcknowledgingRefines ==
  ASSUME Inv, NEW s \in Sessions, NEW n \in -1 .. MaxSeq, Acknowledge(s, n),
         UNCHANGED hi
  PROVE  Promise!Next \/ UNCHANGED <<hi, Mark, queue>>
<1>0. /\ s \in All /\ row \in [All -> Row] /\ MaxSeq \in Nat
      /\ hi \in [All -> -1 .. MaxSeq] /\ row[s] \in Row
  BY ConstantsAssumption DEF Inv, TypeOK, All
<1>1. /\ row[s].mark \in -1 .. MaxSeq /\ row[s].mark <= hi[s]
      /\ ~row[s].there => row[s].mark = -1
  BY <1>0 DEF Inv, Bounded, Unborn, Row, Muted
<1>2. CASE ~row[s].there
  <2>1. row' = row
    BY <1>2 DEF Acknowledge, Advanced
  <2>2. queue' = queue \/ queue' = queue \ {s}
    BY DEF Acknowledge
  <2>3. Promise!Abandon(s) \/ UNCHANGED <<hi, Mark, queue>>
    BY <2>1, <2>2 DEF Promise!Abandon, Mark
  <2> QED
    BY <1>0, <2>3 DEF Promise!Next
<1>3. CASE row[s].there
  <2>1. row' = [row EXCEPT ![s].mark = Larger(@, n)]
    BY <1>3 DEF Acknowledge, Advanced
  <2>2. Mark' = [Mark EXCEPT ![s] = Larger(row[s].mark, n)]
    BY <1>0, <2>1 DEF Mark, Row
  <2>3. CASE n = hi[s]
    <3>1. Larger(row[s].mark, n) = hi[s]
      BY <1>0, <1>1, <2>3 DEF Larger
    <3>2. Promise!Complete(s)
      BY <1>0, <1>1, <2>2, <2>3, <3>1 DEF Promise!Complete, Acknowledge, Mark
    <3> QED
      BY <1>0, <3>2 DEF Promise!Next
  <2>4. CASE n # hi[s] /\ n <= row[s].mark
    <3>1. Larger(row[s].mark, n) = row[s].mark
      BY <1>1, <2>4 DEF Larger
    <3>2. Mark' = Mark
      BY <1>0, <2>2, <3>1 DEF Mark
    <3> QED
      BY <2>4, <3>2 DEF Acknowledge
  <2>5. CASE n # hi[s] /\ row[s].mark < n
    <3>1. Larger(row[s].mark, n) = n /\ n \in 0 .. MaxSeq
      BY <1>1, <2>5 DEF Larger
    <3>2. Promise!Progress(s, n)
      BY <1>0, <2>2, <2>5, <3>1 DEF Promise!Progress, Acknowledge, Mark
    <3> QED
      BY <1>0, <3>1, <3>2 DEF Promise!Next
  <2> QED
    BY <1>1, <2>3, <2>4, <2>5
<1> QED
  BY <1>2, <1>3

(* Every step is a step of the ledger or leaves it alone. *)
LEMMA StepRefines ==
  Inv /\ Inv' /\ [Next]_vars => [Promise!Next]_(Promise!vars)
<1> SUFFICES ASSUME Inv, Inv', [Next]_vars
             PROVE  Promise!Next \/ UNCHANGED <<hi, Mark, queue>>
  BY DEF Promise!vars, Mark
<1>0. /\ MaxSeq \in Nat /\ Sessions \subseteq All /\ Children \subseteq All
      /\ Sessions \cap Children = {} /\ row \in [All -> Row]
      /\ hi \in [All -> -1 .. MaxSeq] /\ job \in [Readers -> Job]
  BY ConstantsAssumption DEF Inv, All, TypeOK
<1>1. ASSUME NEW s \in All, NEW n \in Seqs, NEW user \in BOOLEAN,
             ArchiveTurns(s, n, user)
      PROVE  Promise!Next
  <2>1. Promise!Grow(s, n)
    BY <1>1 DEF ArchiveTurns, Promise!Grow
  <2> QED
    BY <1>1, <2>1 DEF Promise!Next, Seqs
<1>2. ASSUME NEW s \in All, NEW fresh \in BOOLEAN, NEW unread \in BOOLEAN,
             SaveRow(s, fresh, unread)
      PROVE  UNCHANGED <<hi, Mark, queue>>
  <2>1. \A x \in All : row'[x].mark = row[x].mark
    BY <1>0, <1>2 DEF SaveRow, Row
  <2> QED
    BY <1>2, <2>1, Stutters DEF SaveRow
<1>3. ASSUME NEW s \in All, Enqueue(s)
      PROVE  Promise!Next \/ UNCHANGED <<hi, Mark, queue>>
  <2>1. CASE queue' = queue
    BY <1>3, <2>1 DEF Enqueue, Mark
  <2>2. CASE queue' # queue
    <3>1. s \in queue' /\ queue' = queue \cup {s}
      BY <1>3, <2>2 DEF Enqueue
    <3>2. s \in Sessions
      BY <3>1 DEF Inv, Apart, All
    <3>3. row[s].mark # Muted
      BY <1>0, <3>2 DEF Inv, Bounded, Muted, Row
    <3>4. Promise!Enqueue(s)
      BY <1>3, <3>1, <3>3 DEF Enqueue, Promise!Enqueue, Mark
    <3> QED
      BY <3>4 DEF Promise!Next
  <2> QED
    BY <2>1, <2>2
<1>4. ASSUME NEW s \in Sessions, DropAtMark(s) \/ DropEmpty(s) \/ MarkAll(s)
      PROVE  Promise!Next \/ UNCHANGED <<hi, Mark, queue>>
  <2>1. CASE DropAtMark(s)
    <3> DEFINE n == IF row[s].there THEN row[s].mark ELSE -1
    <3>1. n \in -1 .. MaxSeq
      BY <1>0 DEF Inv, Bounded, Row, Muted
    <3>2. Acknowledge(s, n) /\ UNCHANGED hi
      BY <2>1 DEF DropAtMark
    <3> HIDE DEF n
    <3> QED
      BY <3>1, <3>2, AcknowledgingRefines
  <2>2. CASE DropEmpty(s)
    BY <1>0, <2>2, AcknowledgingRefines DEF DropEmpty
  <2>3. CASE MarkAll(s)
    BY <1>0, <2>3, AcknowledgingRefines DEF MarkAll
  <2> QED
    BY <1>4, <2>1, <2>2, <2>3
<1>5. ASSUME NEW s \in Sessions, Abandon(s)
      PROVE  Promise!Next
  <2>1. Promise!Abandon(s)
    BY <1>5 DEF Abandon, Promise!Abandon
  <2> QED
    BY <1>0, <2>1 DEF Promise!Next
<1>6. ASSUME NEW r \in Readers, NEW s \in Sessions, NEW c \in Children,
             Mute(r, s, c)
      PROVE  Promise!Next \/ UNCHANGED <<hi, Mark, queue>>
  <2>1. CASE row[c].there
    BY <1>6, <2>1 DEF Mute, Mark
  <2>2. CASE ~row[c].there
    <3>1. Mark' = [Mark EXCEPT ![c] = Muted]
      BY <1>0, <1>6, <2>2 DEF Mute, Mark, Row
    <3>2. row[c].mark = -1 /\ c \notin queue
      BY <1>0, <2>2 DEF Inv, Unborn, Apart
    <3>3. Promise!Mute(c)
      BY <1>0, <1>6, <3>1, <3>2 DEF Mute, Promise!Mute, Mark
    <3> QED
      BY <1>0, <3>3 DEF Promise!Next
  <2> QED
    BY <2>1, <2>2
<1>7. ASSUME NEW r \in Readers, job[r].at = "read",
             Acknowledge(job[r].sid, job[r].boundary), UNCHANGED hi
      PROVE  Promise!Next \/ UNCHANGED <<hi, Mark, queue>>
  <2>1. job[r].sid \in Sessions /\ job[r].boundary \in -1 .. MaxSeq
    BY <1>0, <1>7 DEF Inv, Jobs, JobOK, Job
  <2> QED
    BY <1>7, <2>1, AcknowledgingRefines
<1>8. ASSUME NEW r \in Readers, Reading(r)
      PROVE  Promise!Next \/ UNCHANGED <<hi, Mark, queue>>
  <2>1. ASSUME UNCHANGED <<hi, row, queue>>
        PROVE  UNCHANGED <<hi, Mark, queue>>
    BY <2>1 DEF Mark
  <2> QED
    BY <1>6, <1>7, <1>8, <2>1 DEF Reading, Capture, Look, ReadTurns, Finish,
       DropThrough, MarkThrough, Fail
<1>9. CASE UNCHANGED vars
  BY <1>9 DEF vars, Mark
<1>10. CASE Hooks
  BY <1>1, <1>2, <1>3, <1>10 DEF Hooks, SweepEnqueue
<1>11. CASE Commands
  BY <1>0, <1>3, <1>4, <1>5, <1>11 DEF Commands
<1> QED
  BY <1>8, <1>9, <1>10, <1>11 DEF Next

(* The queue implements the ledger: the watermark of a session only moves  *)
(* forward and never past its archive, and it leaves the queue only when   *)
(* the two meet or it is abandoned.                                        *)
THEOREM CheckpointImplementsLedger == Spec => ImplementsLedger
<1>1. Init => Promise!Init
  BY DEF Init, Promise!Init, NoRow
<1> QED
  BY <1>1, Invariance, StepRefines, PTL DEF Spec, ImplementsLedger, Promise!Spec

-----------------------------------------------------------------------------
(***************************************************************************)
(* The hooks.  Any process may be killed at any place, a worker may give   *)
(* up early or never run, and readers work meanwhile.                      *)
(***************************************************************************)
Stopped == \E p \in Procs : Kill(p) \/ Busy(p)

LNext == Healthy \/ Stopped \/ \E s \in Sessions : EndUnheard(s)

LSpec == LInit /\ [][LNext]_lvars

Lengths == 0 .. MaxSeq + 1

(* The places at which a process is about one transcript.                  *)
AtFile == {"open", "archive", "save", "enqueue"}

Hook == [kind : {"none", "stop", "end", "sweep"},
         at : AtFile \cup {"idle", "check", "list"},
         sid : Sessions \cup {NoSession}, mtime : Lengths, read : Lengths,
         tries : Nat, left : SUBSET Sessions, changed : SUBSET Sessions]

LTypeOK ==
  /\ written \in [Sessions -> Lengths]
  /\ open \in [Sessions -> BOOLEAN]
  /\ stored \in [Sessions -> [size : Lengths, mtime : Lengths, off : Lengths]]
  /\ proc \in [Procs -> Hook]

(* What a process knows of its transcript at each place: the time is from  *)
(* before the reading, and what was read is archived before the row.       *)
HookOK(p) ==
  LET q == proc[p]
      s == q.sid
  IN  /\ q.at \in AtFile => s \in Sessions
      /\ q.at # "idle" => q.kind # "none"
      /\ q.at = "enqueue" => q.kind = "end"
      /\ q.kind = "end" => q.at \in AtFile
      /\ q.at = "archive" => q.mtime <= written[s] /\ written[s] > 0
      /\ q.at = "save" => q.mtime <= q.read /\ q.read <= hi[s] + 1

(* A row never claims more than what is archived, nor the archive more     *)
(* than what was written.                                                  *)
RowsBehind ==
  \A s \in Sessions : /\ hi[s] + 1 <= written[s]
                      /\ stored[s].off <= hi[s] + 1
                      /\ stored[s].mtime <= hi[s] + 1

LInv == LTypeOK /\ RowsBehind /\ \A p \in Procs : HookOK(p)

(* A transcript that the sweep takes for unchanged is archived to its last *)
(* line, and so is one whose pass returns early: the time in the row is    *)
(* from before the reading, so it cannot be that of lines nobody read.     *)
UnchangedIsArchived ==
  \A s \in Sessions : ~FileChanged(s) \/ Unchanged(s) => hi[s] = written[s] - 1

(* A process' record is typed field by field.                              *)
LEMMA HookFields ==
  ASSUME NEW q \in Hook
  PROVE  /\ q.kind \in {"none", "stop", "end", "sweep"}
         /\ q.at \in AtFile \cup {"idle", "check", "list"}
         /\ q.sid \in Sessions \cup {NoSession} /\ q.mtime \in Lengths /\ q.read \in Lengths
         /\ q.tries \in Nat /\ q.left \in SUBSET Sessions /\ q.changed \in SUBSET Sessions
  BY Zenon DEF Hook

(* An idle process is one.                                                 *)
LEMMA NoProcIsHook ==
  NoProc \in Hook /\ NoProc.at = "idle" /\ NoProc.kind = "none"
<1>1. 0 \in Lengths /\ 0 \in Nat
  BY ConstantsAssumption, SMT DEF ConstantsAssumption, Lengths
<1>2. {} \in SUBSET Sessions
  OBVIOUS
<1> QED BY <1>1, <1>2, Zenon DEF NoProc, Hook

(* One process moves, the archive stays.                                   *)
LEMMA MovesOne ==
  ASSUME TypeOK, LInv, NEW p \in Procs, NEW r \in Hook, proc' = [proc EXCEPT ![p] = r],
         UNCHANGED <<hi, stored>>, written' \in [Sessions -> Lengths],
         \A s \in Sessions : written[s] <= written'[s],
         open' \in [Sessions -> BOOLEAN],
         r.at # "idle" => r.kind # "none",
         r.at \in AtFile => r.sid \in Sessions,
         r.at = "enqueue" => r.kind = "end",
         r.kind = "end" => r.at \in AtFile,
         r.at = "archive" => r.mtime <= written[r.sid] /\ written[r.sid] > 0,
         r.at = "save" => r.mtime <= r.read /\ r.read <= hi[r.sid] + 1
  PROVE  LInv'
<1>1. hi' = hi /\ stored' = stored
  OBVIOUS
<1>2. LTypeOK'
  BY <1>1 DEF LInv, LTypeOK
<1>3. /\ hi \in [All -> -1 .. MaxSeq] /\ written \in [Sessions -> Lengths]
      /\ Sessions \subseteq All /\ MaxSeq \in Nat
  BY ConstantsAssumption DEF TypeOK, LInv, LTypeOK, ConstantsAssumption, All
<1>4. RowsBehind'
  <2> SUFFICES ASSUME NEW s \in Sessions
               PROVE  (hi[s] + 1 <= written[s] /\ stored[s].off <= hi[s] + 1
                       /\ stored[s].mtime <= hi[s] + 1)'
    BY DEF RowsBehind
  <2>1. hi[s] \in Int /\ written[s] \in Int /\ written'[s] \in Int
    BY <1>3, SMT DEF Lengths
  <2>2. hi[s] + 1 <= written[s] /\ written[s] <= written'[s]
    BY DEF LInv, RowsBehind
  <2>3. hi[s] + 1 <= written'[s]
    BY <2>1, <2>2, SMT
  <2> QED BY <1>1, <2>3 DEF LInv, RowsBehind
<1>5. ASSUME NEW x \in Procs PROVE HookOK(x)'
  <2>1. CASE x = p
    <3>1. proc'[x] = r
      BY <2>1 DEF LInv, LTypeOK
    <3>2. r.at = "archive" => r.mtime <= written'[r.sid] /\ written'[r.sid] > 0
      <4> SUFFICES ASSUME r.at = "archive"
                   PROVE  r.mtime <= written'[r.sid] /\ written'[r.sid] > 0
        OBVIOUS
      <4>1. r.sid \in Sessions
        BY DEF AtFile
      <4>2. r.mtime \in Int /\ written[r.sid] \in Int /\ written'[r.sid] \in Int
        BY <1>3, <4>1, HookFields, SMT DEF Lengths
      <4>3. r.mtime <= written[r.sid] /\ written[r.sid] > 0 /\ written[r.sid] <= written'[r.sid]
        BY <4>1
      <4> QED BY <4>2, <4>3, SMT
    <3> QED BY <1>1, <3>1, <3>2 DEF HookOK
  <2>2. CASE x # p
    <3>1. proc'[x] = proc[x]
      BY <2>2 DEF LInv, LTypeOK
    <3>2. HookOK(x) /\ proc[x] \in Hook
      BY DEF LInv, LTypeOK
    <3>3. proc[x].at = "archive" =>
            proc[x].mtime <= written'[proc[x].sid] /\ written'[proc[x].sid] > 0
      <4> SUFFICES ASSUME proc[x].at = "archive"
                   PROVE  proc[x].mtime <= written'[proc[x].sid] /\ written'[proc[x].sid] > 0
        OBVIOUS
      <4> DEFINE q == proc[x]
      <4>1. q.sid \in Sessions /\ q.mtime <= written[q.sid] /\ written[q.sid] > 0
        BY <3>2 DEF HookOK, AtFile
      <4>2. q.mtime \in Int /\ written[q.sid] \in Int /\ written'[q.sid] \in Int
        BY <1>3, <3>2, <4>1, HookFields, SMT DEF Lengths
      <4>3. written[q.sid] <= written'[q.sid]
        BY <4>1
      <4> QED BY <4>1, <4>2, <4>3, SMT
    <3> QED BY <1>1, <3>1, <3>2, <3>3 DEF HookOK
  <2> QED BY <2>1, <2>2
<1> QED BY <1>2, <1>4, <1>5 DEF LInv

(* Nothing happens to the hooks, and the archive stays.                    *)
LEMMA NobodyMoves ==
  ASSUME LInv, UNCHANGED <<hi, stored, proc>>, written' \in [Sessions -> Lengths],
         \A s \in Sessions : written[s] <= written'[s],
         open' \in [Sessions -> BOOLEAN], TypeOK
  PROVE  LInv'
<1>1. /\ hi \in [All -> -1 .. MaxSeq] /\ written \in [Sessions -> Lengths]
      /\ Sessions \subseteq All /\ MaxSeq \in Nat
  BY ConstantsAssumption DEF TypeOK, LInv, LTypeOK, ConstantsAssumption, All
<1>2. LTypeOK'
  BY DEF LInv, LTypeOK
<1>3. \A s \in Sessions : hi[s] \in Int /\ written[s] \in Int /\ written'[s] \in Int
  BY <1>1, SMT DEF Lengths
<1>4. RowsBehind'
  <2> SUFFICES ASSUME NEW s \in Sessions
               PROVE  (hi[s] + 1 <= written[s] /\ stored[s].off <= hi[s] + 1
                       /\ stored[s].mtime <= hi[s] + 1)'
    BY DEF RowsBehind
  <2>1. hi[s] + 1 <= written[s] /\ written[s] <= written'[s]
    BY DEF LInv, RowsBehind
  <2>2. hi[s] + 1 <= written'[s]
    BY <1>3, <2>1, SMT
  <2> QED BY <2>2 DEF LInv, RowsBehind
<1>5. ASSUME NEW x \in Procs PROVE HookOK(x)'
  <2>1. HookOK(x) /\ proc[x] \in Hook
    BY DEF LInv, LTypeOK
  <2>2. proc[x].at = "archive" =>
          proc[x].mtime <= written'[proc[x].sid] /\ written'[proc[x].sid] > 0
    <3> SUFFICES ASSUME proc[x].at = "archive"
                 PROVE  proc[x].mtime <= written'[proc[x].sid] /\ written'[proc[x].sid] > 0
      OBVIOUS
    <3> DEFINE q == proc[x]
    <3>1. q.sid \in Sessions /\ q.mtime <= written[q.sid] /\ written[q.sid] > 0
      BY <2>1 DEF HookOK, AtFile
    <3>2. q.mtime \in Int
      BY <1>1, <2>1, HookFields, SMT DEF Lengths
    <3> QED BY <1>3, <3>1, <3>2, SMT
  <2> QED BY <2>1, <2>2 DEF HookOK
<1> QED BY <1>2, <1>4, <1>5 DEF LInv

(* What follows a pass: nothing, the queue, or the next transcript.        *)
LEMMA AfterIsHook ==
  ASSUME LInv, NEW p \in Procs, proc[p].at \in {"open", "save"}
  PROVE  /\ After(p) \in Hook
         /\ After(p).at # "idle" => After(p).kind # "none"
         /\ After(p).at \in AtFile => After(p).sid \in Sessions
         /\ After(p).at = "enqueue" => After(p).kind = "end"
         /\ After(p).kind = "end" => After(p).at \in AtFile
         /\ After(p).at \notin {"archive", "save"}
<1> DEFINE q == proc[p]
<1>1. q \in Hook /\ HookOK(p)
  BY DEF LInv, LTypeOK
<1>2. q.kind \in {"stop", "end", "sweep"} /\ q.sid \in Sessions
  BY <1>1, HookFields DEF HookOK, AtFile
<1>3. CASE q.kind = "stop"
  <2>1. After(p) = NoProc
    BY <1>3 DEF After
  <2> QED BY <2>1, NoProcIsHook DEF AtFile
<1>4. CASE q.kind = "end"
  <2>1. After(p) = [q EXCEPT !.at = "enqueue"]
    BY <1>4 DEF After
  <2>2. [q EXCEPT !.at = "enqueue"] \in Hook
    BY <1>1, Zenon DEF Hook, AtFile
  <2>3. /\ [q EXCEPT !.at = "enqueue"].at = "enqueue" /\ [q EXCEPT !.at = "enqueue"].kind = q.kind
        /\ [q EXCEPT !.at = "enqueue"].sid = q.sid
    BY <1>1, Zenon DEF Hook
  <2> QED BY <1>2, <1>4, <2>1, <2>2, <2>3 DEF AtFile
<1>5. CASE q.kind = "sweep"
  <2>1. After(p) = [q EXCEPT !.at = "check"]
    BY <1>5 DEF After
  <2>2. [q EXCEPT !.at = "check"] \in Hook
    BY <1>1, Zenon DEF Hook, AtFile
  <2>3. [q EXCEPT !.at = "check"].at = "check" /\ [q EXCEPT !.at = "check"].kind = q.kind
    BY <1>1, Zenon DEF Hook
  <2> QED BY <1>5, <2>1, <2>2, <2>3 DEF AtFile
<1> QED BY <1>2, <1>3, <1>4, <1>5

(* The turns are archived: whatever others remember stays true.            *)
LEMMA ArchiveKeeps ==
  ASSUME TypeOK, TypeOK', LInv, NEW p \in Procs, ReadAndArchive(p)
  PROVE  LInv'
<1> DEFINE q == proc[p]
           s == q.sid
           n == written[s]
           r == [q EXCEPT !.at = "save", !.read = n]
<1>1. q \in Hook /\ HookOK(p) /\ q.at = "archive"
  BY DEF LInv, LTypeOK, ReadAndArchive
<1>2. s \in Sessions /\ n \in Lengths /\ q.kind # "none" /\ q.mtime <= n /\ n > 0
  BY <1>1 DEF HookOK, AtFile, LInv, LTypeOK
<1>3. /\ hi \in [All -> -1 .. MaxSeq] /\ hi' \in [All -> -1 .. MaxSeq] /\ MaxSeq \in Nat
      /\ written \in [Sessions -> Lengths] /\ Sessions \subseteq All
  BY ConstantsAssumption DEF TypeOK, LInv, LTypeOK, ConstantsAssumption, All
<1>4. proc' = [proc EXCEPT ![p] = r] /\ UNCHANGED <<written, open, stored>>
  BY Zenon DEF ReadAndArchive
<1>5. \/ hi[s] < n - 1 /\ hi' = [hi EXCEPT ![s] = n - 1]
      \/ hi[s] >= n - 1 /\ hi' = hi
  BY DEF ReadAndArchive, ArchiveTurns, vars
<1>6. \A t \in Sessions : /\ hi[t] \in Int /\ hi'[t] \in Int /\ written[t] \in Int
                          /\ hi[t] <= hi'[t] /\ hi'[t] + 1 <= written[t]
  <2> TAKE t \in Sessions
  <2>1. hi[t] \in Int /\ hi'[t] \in Int /\ written[t] \in Int /\ hi[t] + 1 <= written[t]
    BY <1>3, SMT DEF Lengths, LInv, RowsBehind
  <2>2. hi'[t] = hi[t] \/ (t = s /\ hi'[t] = n - 1 /\ hi[t] < n - 1)
    BY <1>3, <1>5
  <2> QED BY <2>1, <2>2, SMT
<1>7. n <= hi'[s] + 1
  <2>1. hi[s] \in Int /\ hi'[s] \in Int /\ n \in Int
    BY <1>2, <1>6, SMT DEF Lengths
  <2>2. hi'[s] = n - 1 \/ hi'[s] >= n - 1
    BY <1>2, <1>3, <1>5
  <2> QED BY <2>1, <2>2, SMT
<1>8. r \in Hook
  BY <1>1, <1>2, Zenon DEF Hook, AtFile
<1>9. r.at = "save" /\ r.kind = q.kind /\ r.sid = s /\ r.mtime = q.mtime /\ r.read = n
  BY <1>1, Zenon DEF Hook
<1> HIDE DEF r
<1>10. LTypeOK'
  BY <1>4, <1>8 DEF LInv, LTypeOK
<1>11. RowsBehind'
  <2> SUFFICES ASSUME NEW t \in Sessions
               PROVE  /\ hi'[t] + 1 <= written[t] /\ stored[t].off <= hi'[t] + 1
                      /\ stored[t].mtime <= hi'[t] + 1
    BY <1>4 DEF RowsBehind
  <2>1. stored[t].off \in Int /\ stored[t].mtime \in Int
    BY <1>3, SMT DEF LInv, LTypeOK, Lengths
  <2>2. stored[t].off <= hi[t] + 1 /\ stored[t].mtime <= hi[t] + 1
    BY DEF LInv, RowsBehind
  <2> QED BY <1>6, <2>1, <2>2, SMT
<1>12. ASSUME NEW x \in Procs PROVE HookOK(x)'
  <2>1. CASE x = p
    <3>1. proc'[x] = r
      BY <1>4, <2>1 DEF LInv, LTypeOK
    <3> QED BY <1>2, <1>4, <1>7, <1>9, <3>1 DEF HookOK, AtFile
  <2>2. CASE x # p
    <3>1. proc'[x] = proc[x]
      BY <1>4, <2>2 DEF LInv, LTypeOK
    <3>2. HookOK(x) /\ proc[x] \in Hook
      BY DEF LInv, LTypeOK
    <3>3. proc[x].at = "save" => proc[x].read <= hi'[proc[x].sid] + 1
      <4> SUFFICES ASSUME proc[x].at = "save"
                   PROVE  proc[x].read <= hi'[proc[x].sid] + 1
        OBVIOUS
      <4>1. proc[x].sid \in Sessions /\ proc[x].read <= hi[proc[x].sid] + 1
        BY <3>2 DEF HookOK, AtFile
      <4>2. proc[x].read \in Int
        BY <1>3, <3>2, HookFields, SMT DEF Lengths
      <4> QED BY <1>6, <4>1, <4>2, SMT
    <3> QED BY <1>4, <3>1, <3>2, <3>3 DEF HookOK
  <2> QED BY <2>1, <2>2
<1> QED BY <1>10, <1>11, <1>12 DEF LInv

(* The row is saved: its time and its offset are of what was read.         *)
LEMMA SaveKeeps ==
  ASSUME TypeOK, LInv, NEW p \in Procs, SavePass(p)
  PROVE  LInv'
<1> DEFINE q == proc[p]
           s == q.sid
           f == [size |-> written[s], mtime |-> q.mtime, off |-> Larger(stored[s].off, q.read)]
           r == After(p)
<1>1. q \in Hook /\ HookOK(p) /\ q.at = "save"
  BY DEF LInv, LTypeOK, SavePass
<1>2. /\ s \in Sessions /\ q.mtime \in Lengths /\ q.read \in Lengths
      /\ q.mtime <= q.read /\ q.read <= hi[s] + 1
  BY <1>1, HookFields DEF HookOK, AtFile
<1>3. /\ hi \in [All -> -1 .. MaxSeq] /\ MaxSeq \in Nat /\ Sessions \subseteq All
      /\ written \in [Sessions -> Lengths]
      /\ stored \in [Sessions -> [size : Lengths, mtime : Lengths, off : Lengths]]
  BY ConstantsAssumption DEF TypeOK, LInv, LTypeOK, ConstantsAssumption, All
<1>4. stored' = [stored EXCEPT ![s] = f] /\ UNCHANGED <<hi, written, open>>
  BY Zenon DEF SavePass, SaveRow
<1>5. proc' = [proc EXCEPT ![p] = r]
  BY Zenon DEF SavePass
<1>6. stored[s].off \in Lengths /\ stored[s].off <= hi[s] + 1
  BY <1>2, <1>3 DEF LInv, RowsBehind
<1>7. f.off \in Lengths /\ f.off <= hi[s] + 1 /\ f.mtime <= hi[s] + 1 /\ f.mtime \in Lengths
  <2>1. hi[s] \in Int /\ \A x \in Lengths : x \in Int
    BY <1>2, <1>3, SMT DEF Lengths
  <2>2. f.off = stored[s].off \/ f.off = q.read
    BY DEF Larger
  <2>3. q.mtime <= hi[s] + 1
    BY <1>2, <2>1, SMT
  <2> QED BY <1>2, <1>6, <2>2, <2>3
<1>8. f \in [size : Lengths, mtime : Lengths, off : Lengths]
  BY <1>2, <1>3, <1>7
<1> HIDE DEF f
<1>9. r \in Hook
  BY <1>1, AfterIsHook
<1>10. LTypeOK'
  <2> HIDE DEF r
  <2> QED BY <1>4, <1>5, <1>8, <1>9 DEF LInv, LTypeOK
<1>11. RowsBehind'
  <2> SUFFICES ASSUME NEW t \in Sessions
               PROVE  /\ hi[t] + 1 <= written[t] /\ stored'[t].off <= hi[t] + 1
                      /\ stored'[t].mtime <= hi[t] + 1
    BY <1>4 DEF RowsBehind
  <2>1. stored'[t] = IF t = s THEN f ELSE stored[t]
    BY <1>3, <1>4
  <2> QED BY <1>7, <2>1 DEF LInv, RowsBehind
<1>12. ASSUME NEW x \in Procs PROVE HookOK(x)'
  <2>1. CASE x = p
    <3>1. proc'[x] = r
      BY <1>5, <2>1 DEF LInv, LTypeOK
    <3> HIDE DEF r
    <3>2. /\ r.at # "idle" => r.kind # "none"
          /\ r.at \in AtFile => r.sid \in Sessions
          /\ r.at = "enqueue" => r.kind = "end"
          /\ r.kind = "end" => r.at \in AtFile
          /\ r.at \notin {"archive", "save"}
      BY <1>1, AfterIsHook DEF r
    <3> QED BY <3>1, <3>2 DEF HookOK
  <2>2. CASE x # p
    <3>1. proc'[x] = proc[x]
      BY <1>5, <2>2 DEF LInv, LTypeOK
    <3>2. HookOK(x)
      BY DEF LInv
    <3> QED BY <1>4, <3>1, <3>2 DEF HookOK
  <2> QED BY <2>1, <2>2
<1> QED BY <1>10, <1>11, <1>12 DEF LInv

(* Every step of a hook, and of what goes on around it.                    *)
LEMMA HookSteps == Inv /\ LInv /\ [LNext]_lvars /\ Inv' => LInv'
<1> SUFFICES ASSUME Inv, LInv, [LNext]_lvars, Inv' PROVE LInv'
  OBVIOUS
<1>1. TypeOK /\ TypeOK'
  BY DEF Inv
<1>2. /\ written \in [Sessions -> Lengths] /\ open \in [Sessions -> BOOLEAN]
      /\ proc \in [Procs -> Hook] /\ \A s \in Sessions : written[s] \in Int
      /\ MaxSeq \in Nat
  BY ConstantsAssumption, SMT DEF LInv, LTypeOK, Lengths, ConstantsAssumption
<1>3. UNCHANGED written => /\ written' \in [Sessions -> Lengths]
                           /\ \A s \in Sessions : written[s] <= written'[s]
  BY <1>2, SMT
<1>4. \A p \in Procs : proc[p] \in Hook /\ HookOK(p)
  BY DEF LInv, LTypeOK
<1>5. CASE UNCHANGED lvars
  BY <1>1, <1>2, <1>3, <1>5, NobodyMoves DEF lvars, vars
<1>6. ASSUME NEW s \in Sessions, Write(s) PROVE LInv'
  <2>1. /\ written[s] <= MaxSeq /\ written' = [written EXCEPT ![s] = @ + 1]
        /\ UNCHANGED <<hi, open, stored, proc>>
    BY <1>6 DEF Write, vars
  <2>2. written[s] + 1 \in Lengths
    BY <1>2, <2>1, SMT DEF Lengths
  <2>3. written' \in [Sessions -> Lengths]
    BY <1>2, <2>1, <2>2
  <2>4. \A t \in Sessions : written[t] <= written'[t]
    BY <1>2, <2>1, SMT
  <2> QED BY <1>1, <1>2, <2>1, <2>3, <2>4, NobodyMoves
<1>7. ASSUME NEW s \in Sessions, Resume(s) \/ EndUnheard(s) PROVE LInv'
  <2>1. open' \in [Sessions -> BOOLEAN] /\ UNCHANGED <<hi, written, stored, proc>>
    BY <1>2, <1>7 DEF Resume, EndUnheard, vars
  <2> QED BY <1>1, <1>3, <2>1, NobodyMoves
<1>8. ASSUME NEW p \in Procs, Kill(p) PROVE LInv'
  <2>1. proc' = [proc EXCEPT ![p] = NoProc] /\ UNCHANGED <<hi, written, open, stored>>
    BY <1>8 DEF Kill, vars
  <2> QED BY <1>1, <1>2, <1>3, <2>1, MovesOne, NoProcIsHook DEF AtFile
<1>9. ASSUME NEW p \in Procs, Busy(p) PROVE LInv'
  <2> DEFINE r == [NoProc EXCEPT !.kind = "end", !.at = "open", !.sid = proc[p].sid,
                                 !.tries = proc[p].tries + 1]
  <2>1. /\ proc[p].kind = "end" /\ UNCHANGED <<hi, written, open, stored>>
        /\ proc' = [proc EXCEPT ![p] = IF LastTry(p) THEN NoProc ELSE r]
    BY <1>9 DEF Busy, vars
  <2>2. CASE LastTry(p)
    <3>1. proc' = [proc EXCEPT ![p] = NoProc]
      BY <2>1, <2>2
    <3> QED BY <1>1, <1>2, <1>3, <2>1, <3>1, MovesOne, NoProcIsHook DEF AtFile
  <2>3. CASE ~LastTry(p)
    <3>1. proc' = [proc EXCEPT ![p] = r]
      BY <2>1, <2>3
    <3>2. proc[p].sid \in Sessions /\ proc[p].tries + 1 \in Nat
      <4>1. proc[p].tries \in Nat
        BY <1>4, HookFields
      <4>2. proc[p].sid \in Sessions
        BY <1>4, <2>1 DEF HookOK, AtFile
      <4> QED BY <4>1, <4>2, SMT
    <3>3. r \in Hook
      BY <3>2, NoProcIsHook, Zenon DEF Hook, AtFile
    <3>4. r.at = "open" /\ r.kind = "end" /\ r.sid = proc[p].sid
      BY NoProcIsHook, Zenon DEF Hook
    <3> HIDE DEF r
    <3> QED BY <1>1, <1>2, <1>3, <2>1, <3>1, <3>2, <3>3, <3>4, MovesOne DEF AtFile
  <2> QED BY <2>2, <2>3
<1>10. ASSUME NEW p \in Procs, NEW s \in Sessions, StopHook(p, s) \/ SessionEnd(p, s)
       PROVE  LInv'
  <2>1. PICK k \in {"stop", "end"} :
          proc' = [proc EXCEPT ![p] = [NoProc EXCEPT !.kind = k, !.at = "open", !.sid = s]]
    BY <1>10 DEF StopHook, SessionEnd, Spawn
  <2>2. UNCHANGED <<hi, written, stored>> /\ open' \in [Sessions -> BOOLEAN]
    BY <1>2, <1>10 DEF StopHook, SessionEnd, vars
  <2> DEFINE r == [NoProc EXCEPT !.kind = k, !.at = "open", !.sid = s]
  <2>3. r \in Hook
    BY NoProcIsHook, Zenon DEF Hook, AtFile
  <2>4. r.at = "open" /\ r.kind = k /\ r.sid = s
    BY NoProcIsHook, Zenon DEF Hook
  <2>5. proc' = [proc EXCEPT ![p] = r]
    BY <2>1
  <2> HIDE DEF r
  <2> QED BY <1>1, <1>3, <2>2, <2>3, <2>4, <2>5, MovesOne DEF AtFile
<1>11. ASSUME NEW p \in Procs, SessionStart(p) PROVE LInv'
  <2> DEFINE r == [NoProc EXCEPT !.kind = "sweep", !.at = "check",
                                 !.left = {s \in Sessions : written[s] > 0}]
  <2>1. proc' = [proc EXCEPT ![p] = r] /\ UNCHANGED <<hi, written, open, stored>>
    BY <1>11 DEF SessionStart, Spawn, vars
  <2>2. r \in Hook
    BY NoProcIsHook, Zenon DEF Hook, AtFile
  <2>3. r.at = "check" /\ r.kind = "sweep"
    BY NoProcIsHook, Zenon DEF Hook
  <2> HIDE DEF r
  <2> QED BY <1>1, <1>2, <1>3, <2>1, <2>2, <2>3, MovesOne DEF AtFile
<1>12. ASSUME NEW p \in Procs, NEW s \in Sessions, SweepCheck(p, s) PROVE LInv'
  <2> DEFINE r == [proc[p] EXCEPT !.at = "open", !.sid = s, !.left = @ \ {s},
                                  !.changed = IF FileChanged(s) THEN @ \cup {s} ELSE @]
  <2>1. proc' = [proc EXCEPT ![p] = r] /\ UNCHANGED <<hi, written, open, stored>>
    BY <1>12, Zenon DEF SweepCheck, vars
  <2>2. proc[p].at = "check"
    BY <1>12 DEF SweepCheck
  <2>3. proc[p].kind # "none"
    BY <1>4, <2>2 DEF HookOK
  <2>4. PICK c \in SUBSET Sessions :
          c = IF FileChanged(s) THEN proc[p].changed \cup {s} ELSE proc[p].changed
    BY <1>4, HookFields
  <2>5. proc[p].left \ {s} \in SUBSET Sessions
    BY <1>4, HookFields
  <2>6. r = [proc[p] EXCEPT !.at = "open", !.sid = s, !.left = proc[p].left \ {s}, !.changed = c]
    BY <1>4, <2>4, Zenon DEF Hook
  <2>7. [proc[p] EXCEPT !.at = "open", !.sid = s, !.left = proc[p].left \ {s}, !.changed = c] \in Hook
    BY <1>4, <2>5, Zenon DEF Hook, AtFile
  <2>8. r.at = "open" /\ r.kind = proc[p].kind /\ r.sid = s
    BY <1>4, Zenon DEF Hook
  <2>9. r \in Hook
    BY <2>6, <2>7, Zenon
  <2> HIDE DEF r
  <2> QED BY <1>1, <1>2, <1>3, <2>1, <2>3, <2>8, <2>9, MovesOne DEF AtFile
<1>13. ASSUME NEW p \in Procs, SkipPass(p) PROVE LInv'
  <2>1. proc[p].at = "open" /\ proc' = [proc EXCEPT ![p] = After(p)]
        /\ UNCHANGED <<hi, written, open, stored>>
    BY <1>13 DEF SkipPass, vars
  <2> QED BY <1>1, <1>2, <1>3, <2>1, AfterIsHook, MovesOne DEF AtFile
<1>14. ASSUME NEW p \in Procs, OpenFile(p) PROVE LInv'
  <2> DEFINE s == proc[p].sid
             r == [proc[p] EXCEPT !.at = "archive", !.mtime = written[s]]
  <2>1. proc' = [proc EXCEPT ![p] = r] /\ UNCHANGED <<hi, written, open, stored>>
    BY <1>14, Zenon DEF OpenFile, vars
  <2>2. proc[p].at = "open" /\ written[s] > 0
    BY <1>14 DEF OpenFile
  <2>3. s \in Sessions /\ proc[p].kind # "none"
    BY <1>4, <2>2 DEF HookOK, AtFile
  <2>4. r \in Hook
    BY <1>2, <1>4, <2>3, Zenon DEF Hook, AtFile
  <2>5. r.at = "archive" /\ r.kind = proc[p].kind /\ r.sid = s /\ r.mtime = written[s]
    BY <1>4, Zenon DEF Hook
  <2>6. written[s] <= written[s]
    BY <1>2, <2>3, SMT
  <2> HIDE DEF r
  <2> QED BY <1>1, <1>2, <1>3, <2>1, <2>2, <2>3, <2>4, <2>5, <2>6, MovesOne DEF AtFile
<1>15. ASSUME NEW p \in Procs, EndEnqueue(p) \/ SweepDone(p) PROVE LInv'
  <2>1. proc' = [proc EXCEPT ![p] = NoProc] /\ UNCHANGED <<hi, written, open, stored>>
    BY <1>15 DEF EndEnqueue, SweepDone, Enqueue, vars
  <2> QED BY <1>1, <1>2, <1>3, <2>1, MovesOne, NoProcIsHook DEF AtFile
<1>16. ASSUME NEW p \in Procs, SweepList(p) PROVE LInv'
  <2>1. PICK l \in SUBSET Sessions :
          l = {s \in proc[p].changed : row[s].there /\ s \notin queue /\ hi[s] > row[s].mark}
    BY <1>4, HookFields
  <2> DEFINE r == [proc[p] EXCEPT !.at = "list", !.changed = {}, !.left = l]
  <2>2. proc' = [proc EXCEPT ![p] = r] /\ UNCHANGED <<hi, written, open, stored>>
    BY <1>16, <2>1, Zenon DEF SweepList, vars
  <2>3. proc[p].at = "check"
    BY <1>16 DEF SweepList
  <2>4. proc[p].kind \notin {"none", "end"}
    BY <1>4, <2>3 DEF HookOK, AtFile
  <2>5. r \in Hook
    BY <1>4, Zenon DEF Hook, AtFile
  <2>6. r.at = "list" /\ r.kind = proc[p].kind
    BY <1>4, Zenon DEF Hook
  <2> HIDE DEF r
  <2> QED BY <1>1, <1>2, <1>3, <2>2, <2>4, <2>5, <2>6, MovesOne DEF AtFile
<1>17. ASSUME NEW p \in Procs, NEW s \in Sessions, ListEnqueue(p, s) PROVE LInv'
  <2> DEFINE r == [proc[p] EXCEPT !.left = @ \ {s}]
  <2>1. proc' = [proc EXCEPT ![p] = r] /\ UNCHANGED <<hi, written, open, stored>>
    BY <1>17, Zenon DEF ListEnqueue, Enqueue
  <2>2. proc[p].at = "list"
    BY <1>17 DEF ListEnqueue
  <2>3. proc[p].kind \notin {"none", "end"}
    BY <1>4, <2>2 DEF HookOK, AtFile
  <2>4. proc[p].left \ {s} \in SUBSET Sessions
    BY <1>4, HookFields
  <2>5. r \in Hook
    BY <1>4, <2>4, Zenon DEF Hook
  <2>6. r.at = "list" /\ r.kind = proc[p].kind
    BY <1>4, <2>2, Zenon DEF Hook
  <2> HIDE DEF r
  <2> QED BY <1>1, <1>2, <1>3, <2>1, <2>3, <2>5, <2>6, MovesOne DEF AtFile
<1>18. CASE Distilling
  <2>1. PICK r \in Readers : Reading(r)
    BY <1>18 DEF Distilling
  <2>2. hi' = hi
    BY <2>1 DEF Reading, Mute, Capture, Look, ReadTurns, Finish, DropThrough, MarkThrough, Fail
  <2>3. UNCHANGED <<written, open, stored, proc>>
    BY <1>18 DEF Distilling
  <2> QED BY <1>1, <1>2, <1>3, <2>2, <2>3, NobodyMoves
<1>19. ASSUME NEW p \in Procs, Run(p) PROVE LInv'
  BY <1>1, <1>12, <1>13, <1>14, <1>15, <1>16, <1>17, <1>19, ArchiveKeeps, SaveKeeps DEF Run
<1>20. CASE LNext
  BY <1>6, <1>7, <1>8, <1>9, <1>10, <1>11, <1>18, <1>19, <1>20
  DEF LNext, Healthy, Claude, Stopped
<1> QED BY <1>5, <1>20

(* Each step of a hook is a commit of the queue, or none.                  *)
LEMMA HooksCommit == LInv /\ TypeOK /\ [LNext]_lvars => [Next]_vars
<1> SUFFICES ASSUME LInv, TypeOK, [LNext]_lvars PROVE [Next]_vars
  OBVIOUS
<1>1. CASE UNCHANGED lvars
  BY <1>1 DEF lvars
<1>2. CASE Stopped \/ Claude \/ \E s \in Sessions : EndUnheard(s)
  BY <1>2 DEF Stopped, Kill, Busy, Claude, Write, Resume, SessionStart, StopHook, SessionEnd,
              EndUnheard
<1>3. ASSUME NEW p \in Procs, Run(p) PROVE [Next]_vars
  <2>1. proc[p] \in Hook /\ HookOK(p) /\ Sessions \subseteq All /\ MaxSeq \in Nat
    BY ConstantsAssumption DEF LInv, LTypeOK, All, ConstantsAssumption
  <2>2. CASE \/ SkipPass(p) \/ OpenFile(p) \/ SweepList(p) \/ SweepDone(p)
             \/ \E s \in Sessions : SweepCheck(p, s)
    BY <2>2 DEF SkipPass, OpenFile, SweepList, SweepDone, SweepCheck
  <2>3. CASE ReadAndArchive(p)
    <3> DEFINE s == proc[p].sid
    <3>1. s \in Sessions /\ written[s] > 0 /\ written[s] \in Lengths
      BY <2>1, <2>3 DEF ReadAndArchive, HookOK, AtFile, LInv, LTypeOK
    <3>2. written[s] - 1 \in Seqs
      BY <2>1, <3>1, SMT DEF Lengths, Seqs
    <3>3. ArchiveTurns(s, written[s] - 1, TRUE) \/ UNCHANGED vars
      BY <2>3 DEF ReadAndArchive
    <3> QED BY <2>1, <3>1, <3>2, <3>3 DEF Next, Hooks
  <2>4. CASE SavePass(p)
    <3> DEFINE s == proc[p].sid
    <3>1. s \in Sessions
      BY <2>1, <2>4 DEF SavePass, HookOK, AtFile
    <3>2. SaveRow(s, FALSE, written[s] > proc[p].read)
      BY <2>4 DEF SavePass
    <3>3. (written[s] > proc[p].read) \in BOOLEAN
      OBVIOUS
    <3> QED BY <2>1, <3>1, <3>2, <3>3 DEF Next, Hooks
  <2>5. CASE EndEnqueue(p) \/ \E s \in Sessions : ListEnqueue(p, s)
    <3>1. \E s \in Sessions : Enqueue(s)
      BY <2>1, <2>5 DEF EndEnqueue, ListEnqueue, HookOK, AtFile
    <3> QED BY <3>1 DEF Next, Commands
  <2> QED BY <1>3, <2>2, <2>3, <2>4, <2>5 DEF Run
<1>4. CASE Distilling
  BY <1>4 DEF Distilling, Next
<1> QED BY <1>1, <1>2, <1>3, <1>4 DEF LNext, Healthy

(* The hooks find an empty archive.                                        *)
LEMMA HooksStart == LInit => LInv
<1> SUFFICES ASSUME LInit PROVE LInv
  OBVIOUS
<1>1. 0 \in Lengths /\ -1 + 1 = 0 /\ 0 <= 0
  BY ConstantsAssumption, SMT DEF ConstantsAssumption, Lengths
<1>2. LTypeOK
  BY <1>1, NoProcIsHook DEF LInit, LTypeOK, NoFile
<1>3. RowsBehind
  BY <1>1 DEF LInit, Init, RowsBehind, NoFile, All
<1>4. ASSUME NEW p \in Procs PROVE HookOK(p)
  BY NoProcIsHook DEF LInit, HookOK, AtFile
<1> QED BY <1>2, <1>3, <1>4 DEF LInv

(* However the hooks overlap, are killed, give up or never run, what they  *)
(* commit is what the queue admits.                                        *)
THEOREM HooksImplementCheckpoint == LSpec => Spec
<1>1. LInit => Init /\ Inv /\ LInv
  BY Initially, HooksStart DEF LInit
<1>2. Inv /\ LInv /\ [LNext]_lvars => [Next]_vars /\ (Inv /\ LInv)'
  BY HooksCommit, Steps, HookSteps DEF Inv
<1> QED BY <1>1, <1>2, PTL DEF LSpec, Spec

(* Hence a sweep, a worker or a Stop hook writes off no turn nobody read,  *)
(* loses nothing that waits and queues no child.                           *)
THEOREM HooksKeepTheQueue ==
  LSpec => [](HonestWatermark /\ NothingOwedLost /\ ChildNeverQueued)
BY HooksImplementCheckpoint, WatermarkIsHonest, NothingIsLost, ChildStaysOut, PTL

(* A hook that passes over a transcript as unchanged leaves nothing of it  *)
(* behind (UnchangedIsArchived).                                           *)
THEOREM NothingIsPassedOver == LSpec => []UnchangedIsArchived
<1>1. Inv /\ LInv => UnchangedIsArchived
  <2> SUFFICES ASSUME Inv, LInv, NEW s \in Sessions, ~FileChanged(s) \/ Unchanged(s)
               PROVE  hi[s] = written[s] - 1
    BY DEF UnchangedIsArchived
  <2>1. /\ hi[s] + 1 <= written[s] /\ stored[s].off <= hi[s] + 1
        /\ stored[s].mtime <= hi[s] + 1
    BY DEF LInv, RowsBehind
  <2>2. stored[s].mtime = written[s] \/ stored[s].off = written[s]
    BY DEF FileChanged, Unchanged
  <2>3. hi[s] \in Int /\ written[s] \in Int
    <3>1. hi[s] \in -1 .. MaxSeq /\ written[s] \in Lengths /\ MaxSeq \in Nat
      BY ConstantsAssumption DEF Inv, TypeOK, LInv, LTypeOK, All, ConstantsAssumption
    <3> QED BY <3>1, SMT DEF Lengths
  <2> QED BY <2>1, <2>2, <2>3, SMT
<1>2. LInit => Inv /\ LInv
  BY Initially, HooksStart DEF LInit
<1>3. Inv /\ LInv /\ [LNext]_lvars => (Inv /\ LInv)'
  BY HooksCommit, Steps, HookSteps DEF Inv
<1> QED BY <1>1, <1>2, <1>3, PTL DEF LSpec

(* The steps of the behaviours the runs check are among these.             *)
LEMMA RunsAreHooks == Heard \/ Unheard => LNext
  BY DEF Heard, Unheard, LNext, Stopped
=============================================================================
