----------------------------- MODULE FactsProofs -----------------------------
(***************************************************************************)
(* Proofs about the curated facts: that a new fact comes after those that  *)
(* were stored, that a pin is undone only by `fact unpin`, and that an     *)
(* index line nobody wrote follows the description; that the index of any  *)
(* facts holds the best of them that fit and stays within its bytes when   *)
(* lanes write it at once; that importing a generated index changes        *)
(* nothing in it; that `fact link` and `fact doctor` agree with one        *)
(* another about any memory; and that the answer to a question, in which   *)
(* facts and turns share the lines, is the best there is.                  *)
(***************************************************************************)
EXTENDS Curated, Ranking, FiniteSetTheorems, WellFoundedInduction, TLAPS

(* A set of numbers has a least one.                                       *)
LEMMA LeastExists ==
  ASSUME NEW U \in SUBSET Nat, U # {}
  PROVE  \E u \in U : \A y \in U : ~(y < u)
<1> DEFINE R == OpToRel(<, Nat)
<1>1. IsWellFoundedOn(R, Nat)
  BY NatLessThanWellFounded
<1> HIDE DEF R
<1>2. PICK u \in U : \A y \in U : ~(<<y, u>> \in R)
  BY <1>1, WFMin
<1>3. \A y \in U : ~(y < u)
  BY <1>2 DEF R, OpToRel
<1> QED BY <1>3

(* A set of numbers below a bound has a greatest one: the least of its     *)
(* upper bounds is in it.                                                  *)
LEMMA GreatestExists ==
  ASSUME NEW S \in SUBSET Nat, S # {}, NEW b \in Nat, \A n \in S : n <= b
  PROVE  \E n \in S : \A m \in S : m <= n
<1> DEFINE U == {u \in Nat : \A n \in S : n <= u}
<1>1. U \subseteq Nat /\ b \in U
  OBVIOUS
<1>2. \E u \in U : \A y \in U : ~(y < u)
  <2> HIDE DEF U
  <2> QED BY <1>1, LeastExists
<1>3. PICK u \in U : \A y \in U : ~(y < u)
  BY <1>2
<1>4. u \in S
  <2> SUFFICES ASSUME u \notin S PROVE FALSE
    OBVIOUS
  <2>1. PICK n \in S : TRUE
    OBVIOUS
  <2>2. \A m \in S : m \in Nat /\ m <= u - 1
    BY SMT
  <2>3. n <= u - 1 /\ n \in Nat
    BY <2>1, <2>2
  <2>4. u - 1 \in Nat
    BY <2>3, SMT
  <2>5. u - 1 \in U
    BY <2>2, <2>4
  <2> QED BY <1>3, <2>5, SMT
<1> QED BY <1>4

-----------------------------------------------------------------------------
(* The part of the types about the rows, and what a lane carries from its  *)
(* reads to its writes: an update is of a stored fact, and the position of *)
(* an insert is after those of the facts it knew, and not beyond the end.  *)

RowsOK ==
  /\ row \in [Leaves -> Row \cup {NoRow}]
  /\ \A l \in Stored : row[l].seq < Cardinality(Stored)
  /\ before \subseteq Stored \X Stored
  /\ handed \subseteq Leaves /\ blanked \subseteq Leaves

UpsertOK(u) ==
  /\ u.at = "row" => /\ u.leaf \in Leaves /\ u.flag \in {"empty", "hand"}
                     /\ u.pin \in BOOLEAN /\ u.fm \in Leaf
  /\ u.at \in {"update", "seq", "insert"} =>
       /\ u.leaf \in Leaves /\ u.pin \in BOOLEAN /\ u.given \in BOOLEAN
       /\ u.hook \in Hook /\ u.description \in Leaf
  /\ u.at = "update" => u.leaf \in Stored
  /\ u.at = "insert" => /\ u.seq \in Nat /\ u.seq <= Cardinality(Stored)
                        /\ u.known \subseteq Stored
                        /\ \A k \in u.known : row[k].seq < u.seq
LanesOK == /\ proc = [p \in Procs |-> proc[p]]
           /\ \A p \in Procs : proc[p].at \in
                {"idle", "row", "update", "seq", "insert", "open", "write"}
           /\ \A p \in Procs : UpsertOK(proc[p])

(* A written line of a fact that nobody wrote a line for, or that a lane   *)
(* is about to write, copies the description beside it.                    *)
Follows(l, hook, description) ==
  l \in handed \cup blanked \/ hook = cap_hook(description)
LinesFollow ==
  /\ \A l \in Stored : Follows(l, row[l].hook, row[l].description)
  /\ \A p \in Procs : proc[p].at \in {"update", "seq", "insert"} =>
       \/ proc[p].given \/ proc[p].description = "blank"
       \/ Follows(proc[p].leaf, proc[p].hook, proc[p].description)

FInv == leaf \in [Leaves -> Leaf] /\ RowsOK /\ LanesOK /\ OrderKept /\ LinesFollow

(* No row is a fact without a row.                                         *)
LEMMA NoRowIsNone == NoRow \notin Row
  BY FactsAssumption DEF FactsAssumption, Row, Hook, Leaf

(* The stored facts and their positions are finitely many.                 *)
LEMMA StoredFinite == IsFiniteSet(Stored) /\ Cardinality(Stored) \in Nat
<1>1. IsFiniteSet(Leaves) /\ Stored \subseteq Leaves
  BY FactsAssumption DEF FactsAssumption, Stored
<1> QED BY <1>1, FS_Subset, FS_CardinalityType

(* A row is kept field by field.                                           *)
LEMMA RowFields ==
  ASSUME RowsOK, NEW l \in Stored
  PROVE  /\ row[l] \in Row /\ row[l].seq \in Nat /\ row[l].hook \in Hook
         /\ row[l].description \in Leaf /\ row[l].pinned \in BOOLEAN
<1>1. row[l] \in Row
  BY DEF RowsOK, Stored
<1> QED BY <1>1, SMT DEF Row

(* The next position is after every stored one, and at most at the end.    *)
LEMMA NextSeqIsNext ==
  ASSUME RowsOK
  PROVE  /\ NextSeq \in Nat /\ NextSeq <= Cardinality(Stored)
         /\ \A l \in Stored : row[l].seq < NextSeq
<1>1. \A l \in Stored : row[l].seq \in Nat /\ row[l].seq < Cardinality(Stored)
  BY RowFields DEF RowsOK
<1>2. Cardinality(Stored) \in Nat
  BY StoredFinite
<1>3. CASE Positions = {}
  <2>1. NextSeq = 0 /\ Stored = {}
    BY <1>3 DEF NextSeq, Positions
  <2> QED BY <1>2, <2>1, SMT
<1>4. CASE Positions # {}
  <2>1. Positions \in SUBSET Nat /\ \A n \in Positions : n < Cardinality(Stored)
    BY <1>1 DEF Positions
  <2>2. \A n \in Positions : n <= Cardinality(Stored)
    BY <1>2, <2>1, SMT
  <2>3. \E n \in Positions : \A m \in Positions : m <= n
    <3> HIDE DEF Positions
    <3> QED BY <1>2, <1>4, <2>1, <2>2, GreatestExists
  <2> DEFINE g == CHOOSE n \in Positions : \A m \in Positions : m <= n
  <2>4. g \in Positions /\ \A m \in Positions : m <= g
    BY <2>3
  <2>5. NextSeq = 1 + g
    BY <1>4 DEF NextSeq
  <2>6. \A l \in Stored : row[l].seq \in Positions
    BY DEF Positions
  <2> HIDE DEF g
  <2>7. g \in Nat /\ g < Cardinality(Stored)
    BY <2>1, <2>4
  <2>8. \A l \in Stored : row[l].seq <= g
    BY <2>4, <2>6
  <2>9. NextSeq \in Nat /\ NextSeq <= Cardinality(Stored)
    BY <1>2, <2>5, <2>7, SMT
  <2>10. \A l \in Stored : row[l].seq < NextSeq
    BY <1>1, <2>5, <2>7, <2>8, SMT
  <2> QED BY <2>9, <2>10
<1> QED BY <1>3, <1>4

(* A lane that moves on; the others stay as they are.                      *)
LEMMA LaneUpdate ==
  ASSUME LanesOK, NEW p \in Procs, NEW u, Sets(p, u)
  PROVE  /\ proc' = [q \in Procs |-> proc'[q]] /\ proc'[p] = u
         /\ \A q \in Procs \ {p} : proc'[q] = proc[q]
<1>1. proc' = [q \in Procs |-> IF q = p THEN u ELSE proc[q]]
  BY Zenon DEF Sets, LanesOK
<1> QED BY <1>1, Zenon

-----------------------------------------------------------------------------
(* Steps that only move a lane.                                            *)
LEMMA LaneStep ==
  ASSUME FInv, NEW p \in Procs, NEW u, Sets(p, u), UNCHANGED <<leaf, db>>,
         u.at \in {"idle", "row", "update", "seq", "insert", "open", "write"},
         UpsertOK(u),
         u.at \in {"update", "seq", "insert"} =>
           \/ u.given \/ u.description = "blank" \/ Follows(u.leaf, u.hook, u.description)
  PROVE  FInv'
<1>1. /\ proc' = [q \in Procs |-> proc'[q]] /\ proc'[p] = u
      /\ \A q \in Procs \ {p} : proc'[q] = proc[q]
  BY LaneUpdate DEF FInv
<1>2. /\ Stored' = Stored /\ row' = row /\ before' = before /\ handed' = handed
      /\ blanked' = blanked /\ leaf' = leaf
  BY DEF Stored, db
<1>3. LanesOK'
  <2>1. \A q \in Procs : proc'[q] \in {u, proc[q]} /\ UpsertOK(proc'[q])
    BY <1>1, Zenon DEF FInv, LanesOK
  <2>2. \A q \in Procs : UpsertOK(proc[q])'
    BY <1>2, <2>1, Zenon DEF UpsertOK
  <2> QED BY <1>1, <2>1, <2>2, Zenon DEF FInv, LanesOK
<1>4. LinesFollow'
  BY <1>1, <1>2, Zenon DEF FInv, LinesFollow, Follows
<1> QED BY <1>2, <1>3, <1>4, Zenon DEF FInv, RowsOK, OrderKept

(* Idle lanes are in order.                                                *)
LEMMA IdleIsOK == UpsertOK(Idle) /\ Idle.at = "idle"
  BY DEF Idle, UpsertOK

(* The upsert reads its leaf, then its row.                                *)
LEMMA UpsertStep == ASSUME FInv, NEW p \in Procs, Upsert(p) PROVE FInv'
<1>1. PICK l \in Leaves, flag \in {"empty", "hand"}, pin \in BOOLEAN :
        Sets(p, [at |-> "row", leaf |-> l, flag |-> flag, pin |-> pin, fm |-> leaf[l]])
  BY DEF Upsert
<1> DEFINE u == [at |-> "row", leaf |-> l, flag |-> flag, pin |-> pin, fm |-> leaf[l]]
<1>2. leaf[l] \in Leaf
  BY DEF FInv
<1>3. UpsertOK(u) /\ u.at = "row"
  BY <1>2 DEF UpsertOK
<1>4. Sets(p, u) /\ UNCHANGED <<leaf, db>>
  BY <1>1 DEF Upsert
<1> HIDE DEF u
<1> QED BY <1>3, <1>4, LaneStep

(* What an upsert writes: a line that is copied follows the description.   *)
LEMMA NewLineFollows ==
  ASSUME NEW r, r # NoRow => r.hook \in Hook /\ r.description \in Leaf,
         NEW flag \in {"empty", "hand"}, NEW fm \in Leaf,
         r # NoRow => r.hook = cap_hook(r.description) \/ flag # "empty"
  PROVE  \/ flag # "empty" \/ NewDescription(fm, r) = "blank"
         \/ NewHook(flag, fm, r) = cap_hook(NewDescription(fm, r))
<1> SUFFICES ASSUME flag = "empty" PROVE \/ NewDescription(fm, r) = "blank"
                                          \/ NewHook(flag, fm, r) = cap_hook(NewDescription(fm, r))
  OBVIOUS
<1>1. CASE r = NoRow
  BY <1>1 DEF NewHook, NewDescription, cap_hook, Leaf
<1>2. CASE r # NoRow
  <2>1. r.hook = cap_hook(r.description) /\ r.description \in Leaf
    BY <1>2
  <2>2. CASE r.description \in {"none", "blank"}
    <3>1. r.hook = "empty"
      BY <2>1, <2>2 DEF cap_hook
    <3>2. NewHook(flag, fm, r) = cap_hook(fm)
      BY <3>1 DEF NewHook
    <3> QED BY <1>2, <2>2, <3>2 DEF NewDescription, cap_hook, Leaf
  <2>3. CASE r.description \in {"short", "long"}
    <3>1. r.hook # "empty" /\ r.description # "none"
      BY <2>1, <2>3 DEF cap_hook
    <3>2. DefaultHook(r)
      BY <1>2, <2>1, <3>1 DEF DefaultHook
    <3>3. CASE fm \in {"none", "blank"}
      BY <1>2, <2>1, <3>1, <3>3, Zenon DEF NewHook, NewDescription
    <3>4. CASE fm \notin {"none", "blank"}
      BY <1>2, <3>2, <3>4, Zenon DEF NewHook, NewDescription
    <3> QED BY <3>3, <3>4
  <2> QED BY <2>1, <2>2, <2>3 DEF Leaf
<1> QED BY <1>1, <1>2

(* An upsert writes an index line and a description.                       *)
LEMMA NewLineType ==
  ASSUME NEW r, r # NoRow => r.hook \in Hook /\ r.description \in Leaf,
         NEW flag \in {"empty", "hand"}, NEW fm \in Leaf
  PROVE  NewHook(flag, fm, r) \in Hook /\ NewDescription(fm, r) \in Leaf
<1>1. cap_hook(fm) \in Hook
  BY DEF cap_hook, Leaf, Hook
<1>2. flag \in Hook /\ "none" \in Leaf
  BY DEF Hook, Leaf
<1> QED BY <1>1, <1>2, Zenon DEF NewHook, NewDescription

(* The row is read, or found missing.                                      *)
LEMMA ReadRowStep == ASSUME FInv, NEW p \in Procs, ReadRow(p) PROVE FInv'
<1> DEFINE u == proc[p]
           r == row[u.leaf]
           w == [at |-> IF r = NoRow THEN "seq" ELSE "update",
                 leaf |-> u.leaf, pin |-> u.pin, given |-> u.flag # "empty",
                 hook |-> NewHook(u.flag, u.fm, r),
                 description |-> NewDescription(u.fm, r)]
<1>1. /\ u.leaf \in Leaves /\ u.flag \in {"empty", "hand"} /\ u.pin \in BOOLEAN
      /\ u.fm \in Leaf
  BY DEF ReadRow, At, FInv, LanesOK, UpsertOK
<1>2. r # NoRow => u.leaf \in Stored /\ r.hook \in Hook /\ r.description \in Leaf
  BY <1>1, RowFields DEF Stored, FInv
<1>3. w.hook \in Hook /\ w.description \in Leaf
  BY <1>1, <1>2, NewLineType
<1>4. /\ w.at \in {"seq", "update"} /\ w.leaf = u.leaf /\ w.pin = u.pin
      /\ w.given \in BOOLEAN /\ w.at = "update" <=> r # NoRow
  OBVIOUS
<1>5. UpsertOK(w)
  BY <1>1, <1>2, <1>3, <1>4 DEF UpsertOK
<1>6. w.given \/ w.description = "blank" \/ Follows(w.leaf, w.hook, w.description)
  <2>1. CASE u.leaf \in handed \cup blanked
    BY <2>1, <1>4 DEF Follows
  <2>2. CASE u.leaf \notin handed \cup blanked
    <3>1. r # NoRow => r.hook = cap_hook(r.description)
      BY <1>2, <2>2 DEF FInv, LinesFollow, Follows
    <3>2. \/ u.flag # "empty" \/ NewDescription(u.fm, r) = "blank"
          \/ NewHook(u.flag, u.fm, r) = cap_hook(NewDescription(u.fm, r))
      BY <1>1, <1>2, <3>1, NewLineFollows
    <3> QED BY <3>2 DEF Follows
  <2> QED BY <2>1, <2>2
<1>7. Sets(p, w) /\ UNCHANGED <<leaf, db>>
  BY DEF ReadRow
<1> HIDE DEF w
<1> QED BY <1>4, <1>5, <1>6, <1>7, LaneStep

(* The next position is read.                                              *)
LEMMA ReadSeqStep == ASSUME FInv, NEW p \in Procs, ReadSeq(p) PROVE FInv'
<1> DEFINE u == proc[p]
           w == [at |-> "insert", leaf |-> u.leaf, pin |-> u.pin, given |-> u.given,
                 hook |-> u.hook, description |-> u.description,
                 seq |-> NextSeq, known |-> Stored]
<1>1. /\ u.leaf \in Leaves /\ u.pin \in BOOLEAN /\ u.given \in BOOLEAN
      /\ u.hook \in Hook /\ u.description \in Leaf
      /\ u.given \/ u.description = "blank" \/ Follows(u.leaf, u.hook, u.description)
  BY DEF ReadSeq, At, FInv, LanesOK, UpsertOK, LinesFollow
<1>2. /\ NextSeq \in Nat /\ NextSeq <= Cardinality(Stored)
      /\ \A l \in Stored : row[l].seq < NextSeq
  BY NextSeqIsNext DEF FInv
<1>3. UpsertOK(w)
  BY <1>1, <1>2 DEF UpsertOK
<1>4. /\ w.at = "insert" /\ w.given = u.given /\ w.leaf = u.leaf /\ w.hook = u.hook
      /\ w.description = u.description
  OBVIOUS
<1>5. Sets(p, w) /\ UNCHANGED <<leaf, db>>
  BY DEF ReadSeq
<1> HIDE DEF w
<1> QED BY <1>1, <1>3, <1>4, <1>5, LaneStep

(* Generate, a killed lane and an edited leaf leave the rows alone.        *)
LEMMA GenerateStep ==
  ASSUME FInv, NEW p \in Procs, ReadFacts(p) \/ OpenIndex(p) \/ WriteIndex(p) \/ Killed(p)
  PROVE  FInv'
<1>1. ASSUME NEW body, NEW at \in {"open", "write"}, Sets(p, [at |-> at, body |-> body]),
             UNCHANGED <<leaf, db>>
      PROVE  FInv'
  <2> DEFINE u == [at |-> at, body |-> body]
  <2>1. UpsertOK(u) /\ u.at = at
    BY DEF UpsertOK
  <2>2. Sets(p, u)
    BY <1>1
  <2> HIDE DEF u
  <2> QED BY <1>1, <2>1, <2>2, LaneStep
<1>2. CASE ReadFacts(p)
  BY <1>1, <1>2 DEF ReadFacts
<1>3. CASE OpenIndex(p)
  BY <1>1, <1>3 DEF OpenIndex
<1>4. CASE WriteIndex(p) \/ Killed(p)
  <2>1. Sets(p, Idle) /\ UNCHANGED <<leaf, db>>
    BY <1>4 DEF WriteIndex, Killed
  <2> QED BY <2>1, IdleIsOK, LaneStep
<1> QED BY <1>2, <1>3, <1>4

(* Nothing but the leaf files and MEMORY.md changes.                       *)
LEMMA LeafStep ==
  ASSUME FInv, UNCHANGED <<proc, db>>, leaf' \in [Leaves -> Leaf]
  PROVE  FInv'
<1>1. /\ Stored' = Stored /\ row' = row /\ before' = before /\ handed' = handed
      /\ blanked' = blanked /\ proc' = proc
  BY DEF Stored, db
<1> QED BY <1>1, Zenon DEF FInv, RowsOK, LanesOK, UpsertOK, OrderKept, LinesFollow, Follows

-----------------------------------------------------------------------------
(* A stored row replaced by one at the same position: the lanes carry what *)
(* they carried.                                                           *)
LEMMA RowStep ==
  ASSUME FInv, NEW l \in Stored, NEW r \in Row, row' = [row EXCEPT ![l] = r],
         r.seq = row[l].seq,
         before' = before, leaf' = leaf,
         handed \subseteq handed', handed' \subseteq Leaves,
         blanked \subseteq blanked', blanked' \subseteq Leaves,
         proc' = [q \in Procs |-> proc'[q]],
         \A q \in Procs : proc'[q] = proc[q] \/ proc'[q] = Idle,
         l \in handed' \cup blanked' \/ r.hook = cap_hook(r.description)
  PROVE  FInv'
<1>1. l \in Leaves /\ row[l] # NoRow
  BY DEF Stored
<1>2. row' \in [Leaves -> Row \cup {NoRow}]
  BY DEF FInv, RowsOK
<1>3. row'[l] = r /\ \A k \in Leaves \ {l} : row'[k] = row[k]
  BY <1>1 DEF FInv, RowsOK
<1>4. Stored' = Stored
  BY <1>1, <1>3, NoRowIsNone DEF Stored
<1>5. \A k \in Stored : row'[k].seq = row[k].seq
  BY <1>3 DEF Stored
<1>6. RowsOK'
  BY <1>2, <1>4, <1>5 DEF RowsOK, FInv
<1>7. OrderKept'
  BY <1>5 DEF OrderKept, FInv, RowsOK
<1>8. \A q \in Procs : UpsertOK(proc[q])'
  <2> SUFFICES ASSUME NEW q \in Procs, proc'[q] = proc[q] PROVE UpsertOK(proc[q])'
    BY <1>4, IdleIsOK DEF UpsertOK, Idle
  <2>1. UpsertOK(proc[q])
    BY DEF FInv, LanesOK
  <2>2. proc[q].at = "insert" => \A k \in proc[q].known : row'[k].seq = row[k].seq
    BY <1>5, <2>1 DEF UpsertOK
  <2> QED BY <1>4, <2>1, <2>2 DEF UpsertOK
<1>9. LanesOK'
  BY <1>8, IdleIsOK, Zenon DEF LanesOK, FInv
<1>10. ASSUME NEW k, NEW hook, NEW description, Follows(k, hook, description)
       PROVE  k \in handed' \cup blanked' \/ hook = cap_hook(description)
  BY <1>10 DEF Follows
<1>11. \A k \in Stored' : Follows(k, row[k].hook, row[k].description)'
  BY <1>3, <1>4, <1>10 DEF FInv, LinesFollow, Follows, Stored
<1>12. ASSUME NEW q \in Procs, proc'[q].at \in {"update", "seq", "insert"}
       PROVE  \/ proc'[q].given \/ proc'[q].description = "blank"
              \/ Follows(proc[q].leaf, proc[q].hook, proc[q].description)'
  <2>1. proc'[q] = proc[q]
    BY <1>12, IdleIsOK
  <2> QED BY <1>10, <1>12, <2>1 DEF FInv, LinesFollow, Follows
<1>13. LinesFollow'
  BY <1>11, <1>12, Zenon DEF LinesFollow
<1> QED BY <1>6, <1>7, <1>9, <1>13 DEF FInv

(* Archiving, pinning and unpinning.                                       *)
LEMMA SetRowStep == ASSUME FInv, NEW l \in Leaves, Archive(l) \/ Pin(l) \/ Unpin(l) PROVE FInv'
<1>1. l \in Stored /\ row[l] \in Row
  BY DEF Archive, Pin, Unpin, FInv, RowsOK, Stored
<1>2. PICK r : SetRow(l, r) /\ r \in {[row[l] EXCEPT !.active = FALSE],
                                      [row[l] EXCEPT !.pinned = TRUE],
                                      [row[l] EXCEPT !.pinned = FALSE]}
  BY Zenon DEF Archive, Pin, Unpin
<1>3. r \in Row
  BY <1>1, <1>2, Zenon DEF Row
<1>4. r.seq = row[l].seq /\ r.hook = row[l].hook /\ r.description = row[l].description
  BY <1>1, <1>2, SMT DEF Row
<1>5. UNCHANGED <<leaf, proc, before, handed, blanked>> /\ row' = [row EXCEPT ![l] = r]
  BY <1>2, Zenon DEF Archive, Pin, Unpin, SetRow
<1>6. l \in handed' \cup blanked' \/ r.hook = cap_hook(r.description)
  BY <1>1, <1>4, <1>5 DEF FInv, LinesFollow, Follows
<1>7. handed' \subseteq Leaves /\ blanked' \subseteq Leaves /\ proc' = [q \in Procs |-> proc'[q]]
  BY <1>5 DEF FInv, RowsOK, LanesOK
<1> QED BY <1>1, <1>3, <1>4, <1>5, <1>6, <1>7, RowStep, Zenon

(* What a write does to the histories.                                     *)
LEMMA Remembered ==
  ASSUME FInv, NEW u, u.leaf \in Leaves, Remember(u),
         u.given \/ u.description = "blank" \/ Follows(u.leaf, u.hook, u.description)
  PROVE  /\ handed \subseteq handed' /\ handed' \subseteq Leaves
         /\ blanked \subseteq blanked' /\ blanked' \subseteq Leaves
         /\ u.leaf \in handed' \cup blanked' \/ u.hook = cap_hook(u.description)
  BY DEF Remember, FInv, RowsOK, Follows

(* An upsert of a stored fact keeps its position.                          *)
LEMMA UpdateRowStep == ASSUME FInv, NEW p \in Procs, UpdateRow(p) PROVE FInv'
<1> DEFINE u == proc[p]
           l == u.leaf
           r == [row[l] EXCEPT !.hook = u.hook, !.description = u.description,
                               !.active = TRUE, !.pinned = MaxPin(@, u.pin)]
<1>1. /\ l \in Stored /\ l \in Leaves /\ u.pin \in BOOLEAN
      /\ u.hook \in Hook /\ u.description \in Leaf
      /\ u.given \/ u.description = "blank" \/ Follows(l, u.hook, u.description)
  BY DEF UpdateRow, At, FInv, LanesOK, UpsertOK, LinesFollow
<1>2. row[l] \in Row /\ MaxPin(row[l].pinned, u.pin) \in BOOLEAN
  BY <1>1, RowFields DEF FInv, RowsOK, Stored, MaxPin
<1>3. r \in Row
  BY <1>1, <1>2, Zenon DEF Row
<1>4. r.seq = row[l].seq /\ r.hook = u.hook /\ r.description = u.description
  BY <1>2, SMT DEF Row
<1>5. row' = [row EXCEPT ![l] = r]
  BY Zenon DEF UpdateRow
<1>6. /\ Sets(p, Idle) /\ before' = before /\ leaf' = leaf /\ Remember(u)
  BY DEF UpdateRow
<1>7. /\ proc' = [q \in Procs |-> proc'[q]]
      /\ \A q \in Procs : proc'[q] = proc[q] \/ proc'[q] = Idle
  BY <1>6, LaneUpdate, Zenon DEF FInv
<1>8. /\ handed \subseteq handed' /\ handed' \subseteq Leaves
      /\ blanked \subseteq blanked' /\ blanked' \subseteq Leaves
      /\ l \in handed' \cup blanked' \/ u.hook = cap_hook(u.description)
  BY <1>1, <1>6, Remembered
<1>9. l \in handed' \cup blanked' \/ r.hook = cap_hook(r.description)
  BY <1>4, <1>8
<1> HIDE DEF r, l
<1> QED BY <1>1, <1>3, <1>4, <1>5, <1>6, <1>7, <1>8, <1>9, RowStep, Zenon

(* A new fact comes after those that were known when its position was read.*)
LEMMA InsertRowStep == ASSUME FInv, NEW p \in Procs, InsertRow(p) PROVE FInv'
<1> DEFINE u == proc[p]
           l == u.leaf
           r == [hook |-> u.hook, description |-> u.description,
                 seq |-> u.seq, pinned |-> u.pin, active |-> TRUE]
<1>1. /\ l \in Leaves /\ u.pin \in BOOLEAN /\ u.hook \in Hook /\ u.description \in Leaf
      /\ u.given \/ u.description = "blank" \/ Follows(l, u.hook, u.description)
      /\ u.seq \in Nat /\ u.seq <= Cardinality(Stored)
      /\ u.known \subseteq Stored /\ \A k \in u.known : row[k].seq < u.seq
  BY DEF InsertRow, At, FInv, LanesOK, UpsertOK, LinesFollow
<1>2. Sets(p, Idle) /\ leaf' = leaf
  BY DEF InsertRow
<1>3. CASE row[l] # NoRow
  <2>1. UNCHANGED <<leaf, db>>
    BY <1>3 DEF InsertRow
  <2> QED BY <1>2, <2>1, IdleIsOK, LaneStep
<1>4. CASE row[l] = NoRow
  <2>1. /\ row' = [row EXCEPT ![l] = r]
        /\ before' = before \cup {<<k, l>> : k \in u.known}
        /\ Remember(u)
    BY <1>4 DEF InsertRow
  <2>2. r \in Row /\ r.seq = u.seq /\ r.hook = u.hook /\ r.description = u.description
    BY <1>1 DEF Row
  <2>3. l \notin Stored
    BY <1>4 DEF Stored
  <2> HIDE DEF r
  <2>4. /\ row' \in [Leaves -> Row \cup {NoRow}]
        /\ row'[l] = r /\ \A k \in Leaves \ {l} : row'[k] = row[k]
    BY <1>1, <2>1, <2>2 DEF FInv, RowsOK
  <2>5. Stored' = Stored \cup {l}
    BY <1>1, <2>2, <2>4, NoRowIsNone DEF Stored
  <2>6. /\ Cardinality(Stored') = Cardinality(Stored) + 1
        /\ Cardinality(Stored) \in Nat
    BY <2>3, <2>5, StoredFinite, FS_AddElement
  <2>7. \A k \in Stored : row'[k] = row[k]
    BY <2>3, <2>4 DEF Stored
  <2>8. \A k \in Stored' : row'[k].seq < Cardinality(Stored')
    <3>1. row'[l].seq < Cardinality(Stored')
      BY <1>1, <2>2, <2>4, <2>6, SMT
    <3>2. ASSUME NEW k \in Stored PROVE row'[k].seq < Cardinality(Stored')
      <4>1. row[k].seq \in Nat /\ row[k].seq < Cardinality(Stored)
        BY RowFields DEF FInv, RowsOK
      <4> QED BY <2>6, <2>7, <4>1, SMT
    <3> QED BY <2>5, <3>1, <3>2
  <2>9. /\ handed \subseteq handed' /\ handed' \subseteq Leaves
        /\ blanked \subseteq blanked' /\ blanked' \subseteq Leaves
        /\ l \in handed' \cup blanked' \/ u.hook = cap_hook(u.description)
    BY <1>1, <2>1, Remembered
  <2>10. before' \subseteq Stored' \X Stored'
    BY <1>1, <2>1, <2>5 DEF FInv, RowsOK
  <2>11. RowsOK'
    BY <2>4, <2>8, <2>9, <2>10 DEF RowsOK
  <2>12. OrderKept'
    <3> SUFFICES ASSUME NEW pair \in before' PROVE row'[pair[1]].seq < row'[pair[2]].seq
      BY DEF OrderKept
    <3>1. CASE pair \in before
      BY <2>7, <3>1 DEF FInv, RowsOK, OrderKept
    <3>2. CASE pair \notin before
      <4>1. PICK k \in u.known : pair = <<k, l>>
        BY <2>1, <3>2
      <4> QED BY <1>1, <2>2, <2>4, <2>7, <4>1
    <3> QED BY <3>1, <3>2
  <2>13. /\ proc' = [q \in Procs |-> proc'[q]]
         /\ \A q \in Procs : proc'[q] = proc[q] \/ proc'[q] = Idle
    BY <1>2, LaneUpdate, Zenon DEF FInv
  <2>14. ASSUME NEW q \in Procs PROVE UpsertOK(proc[q])'
    <3>1. CASE proc'[q] = Idle
      BY <3>1 DEF UpsertOK, Idle
    <3>2. CASE proc'[q] = proc[q]
      <4>1. UpsertOK(proc[q])
        BY DEF FInv, LanesOK
      <4>2. proc[q].at = "insert" =>
              /\ proc[q].seq <= Cardinality(Stored') /\ proc[q].known \subseteq Stored'
              /\ \A k \in proc[q].known : row'[k].seq < proc[q].seq
        BY <2>5, <2>6, <2>7, <4>1 DEF UpsertOK
      <4>3. proc[q].at = "update" => proc[q].leaf \in Stored'
        BY <2>5, <4>1 DEF UpsertOK
      <4> QED BY <3>2, <4>1, <4>2, <4>3 DEF UpsertOK
    <3> QED BY <2>13, <3>1, <3>2
  <2>15. LanesOK'
    BY <2>13, <2>14, IdleIsOK, Zenon DEF LanesOK, FInv
  <2>16. \A k \in Stored' : k \in handed' \cup blanked' \/ row'[k].hook = cap_hook(row'[k].description)
    BY <2>2, <2>4, <2>5, <2>7, <2>9 DEF FInv, LinesFollow, Follows
  <2>17. ASSUME NEW q \in Procs, proc'[q].at \in {"update", "seq", "insert"}
         PROVE  \/ proc'[q].given \/ proc'[q].description = "blank"
                \/ proc'[q].leaf \in handed' \cup blanked'
                \/ proc'[q].hook = cap_hook(proc'[q].description)
    <3>1. proc'[q] = proc[q]
      BY <2>13, <2>17, IdleIsOK
    <3> QED BY <2>9, <2>17, <3>1 DEF FInv, LinesFollow, Follows
  <2>18. LinesFollow'
    BY <2>16, <2>17, Zenon DEF LinesFollow, Follows
  <2> QED BY <1>2, <2>11, <2>12, <2>15, <2>18 DEF FInv
<1> QED BY <1>3, <1>4

-----------------------------------------------------------------------------
(* The invariant holds at first.                                           *)
LEMMA FInvInit == FInit => FInv
<1> SUFFICES ASSUME FInit PROVE FInv
  OBVIOUS
<1>1. Stored = {} /\ row \in [Leaves -> Row \cup {NoRow}]
  BY DEF FInit, Stored
<1>2. leaf \in [Leaves -> Leaf]
  BY DEF FInit, Leaf
<1>3. \A p \in Procs : proc[p] = Idle
  BY DEF FInit
<1>4. LanesOK
  BY <1>3, IdleIsOK DEF LanesOK, FInit
<1>5. RowsOK /\ OrderKept /\ LinesFollow
  BY <1>1, <1>3, IdleIsOK DEF RowsOK, OrderKept, LinesFollow, FInit
<1> QED BY <1>2, <1>4, <1>5 DEF FInv

(* Every step keeps it.                                                    *)
LEMMA FInvStep == FInv /\ [FNext]_fvars => FInv'
<1> SUFFICES ASSUME FInv, [FNext]_fvars PROVE FInv'
  OBVIOUS
<1>1. ASSUME NEW p \in Procs, Upsert(p) \/ ReadFacts(p) PROVE FInv'
  BY <1>1, UpsertStep, GenerateStep
<1>2. ASSUME NEW l \in Leaves, Archive(l) \/ Pin(l) \/ Unpin(l) PROVE FInv'
  BY <1>2, SetRowStep
<1>3. ASSUME NEW l \in Leaves, EditLeaf(l) PROVE FInv'
  <2>1. UNCHANGED <<proc, db>> /\ leaf' \in [Leaves -> Leaf]
    BY <1>3 DEF EditLeaf, FInv
  <2> QED BY <2>1, LeafStep
<1>4. ASSUME NEW p \in Procs, Works(p) \/ Killed(p) PROVE FInv'
  BY <1>4, ReadRowStep, UpdateRowStep, ReadSeqStep, InsertRowStep, GenerateStep DEF Works
<1>5. CASE UNCHANGED fvars
  <2>1. UNCHANGED <<proc, db>> /\ leaf' \in [Leaves -> Leaf]
    BY <1>5 DEF fvars, FInv
  <2> QED BY <2>1, LeafStep
<1> QED BY <1>1, <1>2, <1>3, <1>4, <1>5, Zenon DEF FNext, Command

(* The invariant of the curated facts.                                     *)
LEMMA FInvAlways == FSpec => []FInv
  BY FInvInit, FInvStep, PTL DEF FSpec

(* The types of the curated facts; a stored fact has a position among the  *)
(* stored ones.                                                            *)
THEOREM FactTypes == FSpec => []FTypeOK
<1>1. FInv => FTypeOK
  BY DEF FInv, RowsOK, LanesOK, FTypeOK
<1> QED BY <1>1, FInvAlways, PTL

(* New facts append to the end of the curated order (facts.rs:297).        *)
THEOREM NewFactsAppend == FSpec => []OrderKept
<1>1. FInv => OrderKept
  BY DEF FInv
<1> QED BY <1>1, FInvAlways, PTL

(* An index line that nobody wrote follows the description.                *)
THEOREM LinesFollowLeaves == FSpec => []LineFollows
<1>1. FInv => LineFollows
  BY DEF FInv, LinesFollow, Follows, LineFollows
<1> QED BY <1>1, FInvAlways, PTL

(* Only `fact unpin` takes a pin away.                                     *)
LEMMA PinStep ==
  ASSUME FInv, [FNext]_fvars, NEW l \in Stored, row[l].pinned, ~row'[l].pinned
  PROVE  Unpin(l)
<1>1. l \in Leaves /\ row[l] \in Row
  BY DEF Stored, FInv, RowsOK
<1>2. row' # row
  OBVIOUS
<1>3. ASSUME NEW p \in Procs, UpdateRow(p) PROVE FALSE
  <2> DEFINE k == proc[p].leaf
  <2>1. row' = [row EXCEPT ![k].hook = proc[p].hook, ![k].description = proc[p].description,
                           ![k].active = TRUE, ![k].pinned = MaxPin(@, proc[p].pin)]
    BY <1>3 DEF UpdateRow
  <2> HIDE DEF k
  <2>2. CASE k # l
    BY <1>1, <2>1, <2>2 DEF FInv, RowsOK
  <2>3. CASE k = l
    <3>1. row'[l] = [row[l] EXCEPT !.hook = proc[p].hook, !.description = proc[p].description,
                                   !.active = TRUE, !.pinned = MaxPin(@, proc[p].pin)]
      BY <1>1, <2>1, <2>3, Zenon DEF FInv, RowsOK
    <3>2. row'[l].pinned = MaxPin(row[l].pinned, proc[p].pin)
      BY <1>1, <3>1, SMT DEF Row
    <3> QED BY <3>2 DEF MaxPin
  <2> QED BY <2>2, <2>3
<1>4. ASSUME NEW p \in Procs, InsertRow(p) PROVE FALSE
  <2>1. row[proc[p].leaf] = NoRow /\ \E r : row' = [row EXCEPT ![proc[p].leaf] = r]
    BY <1>2, <1>4, Zenon DEF InsertRow, db
  <2>2. proc[p].leaf # l
    BY <2>1 DEF Stored
  <2> QED BY <1>1, <2>1, <2>2 DEF FInv, RowsOK
<1>5. ASSUME NEW k \in Leaves, Archive(k) \/ Pin(k) PROVE FALSE
  <2>1. PICK r : row' = [row EXCEPT ![k] = r] /\ r \in {[row[k] EXCEPT !.active = FALSE],
                                                        [row[k] EXCEPT !.pinned = TRUE]}
    BY <1>5, Zenon DEF Archive, Pin, SetRow
  <2>2. k = l => r.pinned
    BY <1>1, <2>1, SMT DEF Row
  <2> QED BY <1>1, <2>1, <2>2 DEF FInv, RowsOK
<1>6. ASSUME NEW k \in Leaves, Unpin(k) PROVE k = l
  BY <1>1, <1>6, Zenon DEF Unpin, SetRow, FInv, RowsOK
<1>7. ASSUME NEW p \in Procs,
             Upsert(p) \/ ReadRow(p) \/ ReadSeq(p) \/ ReadFacts(p) \/ OpenIndex(p)
             \/ WriteIndex(p) \/ Killed(p)
      PROVE  FALSE
  BY <1>2, <1>7, Zenon DEF Upsert, ReadRow, ReadSeq, ReadFacts, OpenIndex, WriteIndex, Killed, db
<1>8. ASSUME NEW k \in Leaves, EditLeaf(k) PROVE FALSE
  BY <1>2, <1>8 DEF EditLeaf, db
<1>9. ~UNCHANGED fvars
  BY <1>2 DEF fvars, db
<1> QED BY <1>3, <1>4, <1>5, <1>6, <1>7, <1>8, <1>9, Zenon DEF FNext, Command, Works

(* A pin is undone only by `fact unpin`, whatever an upsert read before.   *)
THEOREM PinsStay == FSpec => PinKept
<1>1. FInv /\ [FNext]_fvars => [\A l \in Stored : row[l].pinned /\ ~row'[l].pinned => Unpin(l)]_fvars
  BY PinStep
<1> QED BY <1>1, FInvAlways, PTL DEF FSpec, PinKept

-----------------------------------------------------------------------------
(* The places of the members of a finite set in a strict order of all of   *)
(* them: each place has its member, and the members come in the order.     *)
LEMMA PlacesInOrder ==
  ASSUME NEW S, IsFiniteSet(S), NEW Q,
         \A x \in S : <<x, x>> \notin Q,
         \A x, y \in S : x # y => <<x, y>> \in Q \/ <<y, x>> \in Q,
         \A x, y, z \in S : <<x, y>> \in Q /\ <<y, z>> \in Q => <<x, z>> \in Q,
         NEW perm,
         \A k \in 1 .. Cardinality(S) : \A x \in S :
           1 + Cardinality({y \in S : <<y, x>> \in Q}) = k
             => perm[k] \in S /\ 1 + Cardinality({y \in S : <<y, perm[k]>> \in Q}) = k
  PROVE  /\ Cardinality(S) \in Nat
         /\ \A k \in 1 .. Cardinality(S) : perm[k] \in S
         /\ \A x \in S : \E k \in 1 .. Cardinality(S) : perm[k] = x
         /\ \A k, m \in 1 .. Cardinality(S) : k < m => <<perm[k], perm[m]>> \in Q
<1> DEFINE below(x) == {y \in S : <<y, x>> \in Q}
           n == Cardinality(S)
           f == [x \in S |-> 1 + Cardinality(below(x))]
<1>1. n \in Nat
  BY FS_CardinalityType
<1>2. ASSUME NEW x \in S
      PROVE  /\ IsFiniteSet(below(x)) /\ Cardinality(below(x)) \in Nat
             /\ 1 + Cardinality(below(x)) \in 1 .. n
  <2>1. below(x) \in SUBSET (S \ {x})
    BY Zenon
  <2>2. IsFiniteSet(S \ {x}) /\ Cardinality(S \ {x}) = n - 1
    BY FS_RemoveElement
  <2>3. IsFiniteSet(below(x)) /\ Cardinality(below(x)) <= Cardinality(S \ {x})
    <3> HIDE DEF below
    <3> QED BY <2>1, <2>2, FS_Subset
  <2>4. Cardinality(below(x)) \in Nat
    <3> HIDE DEF below
    <3> QED BY <2>3, FS_CardinalityType
  <2>5. 1 + Cardinality(below(x)) \in 1 .. n
    <3> HIDE DEF below, n
    <3> QED BY <1>1, <2>2, <2>3, <2>4, SMT
  <2> QED BY <2>3, <2>4, <2>5
<1>3. ASSUME NEW x \in S, NEW z \in S, <<x, z>> \in Q
      PROVE  Cardinality(below(x)) < Cardinality(below(z))
  <2>1. below(x) \cup {x} \in SUBSET below(z) /\ x \notin below(x)
    BY <1>3, Zenon
  <2>2. Cardinality(below(x) \cup {x}) = Cardinality(below(x)) + 1
    <3> HIDE DEF below
    <3> QED BY <1>2, <2>1, FS_AddElement
  <2>3. Cardinality(below(x) \cup {x}) <= Cardinality(below(z))
    <3> HIDE DEF below
    <3> QED BY <1>2, <2>1, FS_Subset
  <2> HIDE DEF below
  <2> QED BY <1>2, <2>2, <2>3, SMT
<1>4. \A k \in 1 .. n : \A x \in S : 1 + Cardinality(below(x)) = k
        => perm[k] \in S /\ 1 + Cardinality(below(perm[k])) = k
  OBVIOUS
<1> HIDE DEF below
<1>5. f \in [S -> 1 .. n] /\ \A x \in S : f[x] = 1 + Cardinality(below(x))
  BY <1>2
<1> HIDE DEF n, f
<1>6. \A x, z \in S : f[x] = f[z] => x = z
  <2> TAKE x \in S, z \in S
  <2> HAVE f[x] = f[z]
  <2>1. Cardinality(below(x)) = Cardinality(below(z))
    BY <1>2, <1>5, SMT
  <2>2. <<x, z>> \notin Q /\ <<z, x>> \notin Q
    BY <1>2, <1>3, <2>1, SMT
  <2> QED BY <2>2
<1>7. f \in Injection(S, 1 .. n)
  BY <1>5, <1>6 DEF Injection, IsInjective
<1>8. IsFiniteSet(1 .. n) /\ Cardinality(1 .. n) = n
  BY <1>1, FS_Interval, SMT
<1>9. f \in Surjection(S, 1 .. n)
  BY <1>7, <1>8, FS_Injection DEF n
<1>10. \A k \in 1 .. n : perm[k] \in S /\ 1 + Cardinality(below(perm[k])) = k
  <2> TAKE k \in 1 .. n
  <2>1. PICK x \in S : f[x] = k
    BY <1>9 DEF Surjection
  <2>2. 1 + Cardinality(below(x)) = k
    BY <1>5, <2>1
  <2> QED BY <1>4, <2>2
<1>11. \A x \in S : \E k \in 1 .. n : perm[k] = x
  <2> TAKE x \in S
  <2> DEFINE k == 1 + Cardinality(below(x))
  <2>1. k \in 1 .. n
    BY <1>2
  <2>2. perm[k] \in S /\ f[perm[k]] = f[x]
    BY <1>5, <1>10, <2>1
  <2>3. perm[k] = x
    BY <1>6, <2>2
  <2> QED BY <2>1, <2>3
<1>12. ASSUME NEW k \in 1 .. n, NEW m \in 1 .. n, k < m
       PROVE  <<perm[k], perm[m]>> \in Q
  <2>1. perm[k] # perm[m]
    BY <1>10, <1>12, SMT
  <2>2. ASSUME <<perm[m], perm[k]>> \in Q PROVE FALSE
    <3>1. Cardinality(below(perm[m])) < Cardinality(below(perm[k]))
      BY <1>3, <1>10, <2>2
    <3>2. /\ Cardinality(below(perm[m])) \in Nat /\ Cardinality(below(perm[k])) \in Nat
          /\ 1 + Cardinality(below(perm[m])) = m /\ 1 + Cardinality(below(perm[k])) = k
      BY <1>2, <1>10
    <3> QED BY <1>12, <3>1, <3>2, SMT
  <2> QED BY <1>10, <2>1, <2>2
<1> QED BY <1>1, <1>10, <1>11, <1>12 DEF n

(* A strict order that puts some together.                                 *)
Weak(S, R) ==
  /\ \A x \in S : <<x, x>> \notin R
  /\ \A x, y, z \in S : <<x, y>> \in R /\ <<y, z>> \in R => <<x, z>> \in R
  /\ \A x, y, z \in S : <<x, y>> \notin R /\ <<y, z>> \notin R => <<x, z>> \notin R

(* perm puts the places in R's order, none behind one it goes before and   *)
(* equals as they were, and sorted has what is there.                      *)
Sorts(s, in, R, perm, sorted) ==
  LET n == Cardinality(in)
  IN  /\ perm \in [1 .. n -> in]
      /\ \A i \in in : \E k \in 1 .. n : perm[k] = i
      /\ \A k, m \in 1 .. n : k < m => perm[k] # perm[m] /\ <<perm[m], perm[k]>> \notin R
      /\ \A k, m \in 1 .. n : k < m => <<perm[k], perm[m]>> \in R \/ perm[k] < perm[m]
      /\ sorted = [k \in 1 .. n |-> s[perm[k]]]

(* What a stable sort returns: what is at the places, each once.           *)
LEMMA StableSortIs ==
  ASSUME NEW s, NEW in, in \subseteq Nat, IsFiniteSet(in), NEW R, Weak(in, R)
  PROVE  /\ Cardinality(in) \in Nat
         /\ \E perm : Sorts(s, in, R, perm, StableSort(s, in, R))
<1> DEFINE Q == {p \in in \X in : \/ <<p[1], p[2]>> \in R
                                  \/ <<p[2], p[1]>> \notin R /\ p[1] < p[2]}
           n == Cardinality(in)
           set(i) == {j \in in : \/ <<j, i>> \in R
                                 \/ <<i, j>> \notin R /\ j < i}
           perm == [k \in 1 .. n |-> CHOOSE i \in in : 1 + Cardinality(set(i)) = k]
<1>1. \A i, j \in in : <<i, j>> \in Q <=> \/ <<i, j>> \in R
                                          \/ <<j, i>> \notin R /\ i < j
  BY Zenon
<1>2. \A i \in in : i \in Nat
  OBVIOUS
<1>3. \A i \in in : {j \in in : <<j, i>> \in Q} = set(i)
  BY <1>1, Zenon
<1> HIDE DEF Q
<1>4. StableSort(s, in, R) = [k \in 1 .. n |-> s[perm[k]]]
  <2>1. \A k \in 1 .. n : perm[k] = CHOOSE i \in in : 1 + Cardinality(set(i)) = k
    OBVIOUS
  <2> HIDE DEF perm
  <2>2. [k \in 1 .. n |-> s[perm[k]]]
          = [k \in 1 .. n |-> s[CHOOSE i \in in : 1 + Cardinality(set(i)) = k]]
    BY <2>1, Zenon
  <2> QED BY <2>2 DEF StableSort
<1>5. \A i \in in : <<i, i>> \notin Q
  <2> TAKE i \in in
  <2>1. ~(i < i)
    BY <1>2, SMT
  <2> QED BY <1>1, <2>1, Zenon DEF Weak
<1>6. \A i, j \in in : i # j => <<i, j>> \in Q \/ <<j, i>> \in Q
  <2> TAKE i \in in, j \in in
  <2> HAVE i # j
  <2>1. i < j \/ j < i
    BY <1>2, SMT
  <2> QED BY <1>1, <2>1, Zenon
<1>7. \A i, j, k \in in : <<i, j>> \in Q /\ <<j, k>> \in Q => <<i, k>> \in Q
  <2> TAKE i \in in, j \in in, k \in in
  <2> HAVE <<i, j>> \in Q /\ <<j, k>> \in Q
  <2>1. i < j /\ j < k => i < k
    BY <1>2, SMT
  <2>2. \A x, y \in in : <<x, y>> \in R => <<y, x>> \notin R
    BY Zenon DEF Weak
  <2>3. <<i, j>> \notin R => <<j, i>> \notin R /\ i < j
    BY <1>1, Zenon
  <2>4. <<j, k>> \notin R => <<k, j>> \notin R /\ j < k
    BY <1>1, Zenon
  <2>5. CASE <<i, j>> \notin R /\ <<j, k>> \notin R
    <3>1. <<k, i>> \notin R
      BY <2>3, <2>4, <2>5, Zenon DEF Weak
    <3> QED BY <1>1, <2>1, <2>3, <2>4, <2>5, <3>1, Zenon
  <2>6. CASE <<i, j>> \in R
    <3>1. <<k, j>> \notin R
      BY <2>2, <2>4, Zenon
    <3>2. <<i, k>> \in R
      BY <2>6, <3>1, Zenon DEF Weak
    <3> QED BY <1>1, <3>2, Zenon
  <2>7. CASE <<j, k>> \in R
    <3>1. <<j, i>> \notin R
      BY <2>2, <2>3, Zenon
    <3>2. <<i, k>> \in R
      BY <2>7, <3>1, Zenon DEF Weak
    <3> QED BY <1>1, <3>2, Zenon
  <2> QED BY <2>5, <2>6, <2>7
<1>8. /\ n \in Nat
      /\ \A k \in 1 .. n : perm[k] \in in
      /\ \A i \in in : \E k \in 1 .. n : perm[k] = i
      /\ \A k, m \in 1 .. n : k < m => <<perm[k], perm[m]>> \in Q
  <2>1. ASSUME NEW k \in 1 .. n, NEW i \in in,
               1 + Cardinality({j \in in : <<j, i>> \in Q}) = k
        PROVE  /\ perm[k] \in in
               /\ 1 + Cardinality({j \in in : <<j, perm[k]>> \in Q}) = k
    <3>1. perm[k] = CHOOSE x \in in : 1 + Cardinality(set(x)) = k
      OBVIOUS
    <3>2. 1 + Cardinality(set(i)) = k
      BY <1>3, <2>1
    <3>3. perm[k] \in in /\ 1 + Cardinality(set(perm[k])) = k
      <4> HIDE DEF perm, set
      <4> QED BY <3>1, <3>2, Zenon
    <3> HIDE DEF perm, set
    <3> QED BY <1>3, <3>3
  <2> HIDE DEF perm, set
  <2> QED BY <1>5, <1>6, <1>7, <2>1, PlacesInOrder
<1>9. \A k, m \in 1 .. n : k < m => perm[k] # perm[m] /\ <<perm[m], perm[k]>> \notin R
  <2> HIDE DEF perm, n
  <2> TAKE k \in 1 .. n, m \in 1 .. n
  <2> HAVE k < m
  <2>1. <<perm[k], perm[m]>> \in Q /\ perm[k] \in in /\ perm[m] \in in
    BY <1>8
  <2>2. perm[k] # perm[m]
    BY <1>5, <2>1, Zenon
  <2>3. <<perm[k], perm[m]>> \in R \/ <<perm[m], perm[k]>> \notin R
    BY <1>1, <2>1, Zenon
  <2>4. <<perm[k], perm[m]>> \in R => <<perm[m], perm[k]>> \notin R
    BY <2>1, Zenon DEF Weak
  <2> QED BY <2>2, <2>3, <2>4, Zenon
<1>10. perm \in [1 .. n -> in]
  BY <1>8
<1> HIDE DEF perm
<1>11. \A k, m \in 1 .. n : k < m => <<perm[k], perm[m]>> \in R \/ perm[k] < perm[m]
  BY <1>1, <1>8, Zenon
<1>12. Sorts(s, in, R, perm, StableSort(s, in, R))
  BY <1>4, <1>8, <1>9, <1>10, <1>11, Zenon DEF Sorts
<1> QED BY <1>8, <1>12

(* Numbers order what has them.                                            *)
LEMMA OrderIsWeak ==
  ASSUME NEW S, NEW at, \A x \in S : at[x] \in Int,
         NEW R, \A x, y \in S : <<x, y>> \in R <=> at[x] < at[y]
  PROVE  Weak(S, R)
<1>1. \A x \in S : <<x, x>> \notin R
  <2> TAKE x \in S
  <2>1. at[x] \in Int
    OBVIOUS
  <2>2. ~(at[x] < at[x])
    BY <2>1, SMT
  <2> QED BY <2>2, Zenon
<1>2. \A x, y, z \in S : <<x, y>> \in R /\ <<y, z>> \in R => <<x, z>> \in R
  <2> TAKE x \in S, y \in S, z \in S
  <2>1. at[x] \in Int /\ at[y] \in Int /\ at[z] \in Int
    OBVIOUS
  <2>2. at[x] < at[y] /\ at[y] < at[z] => at[x] < at[z]
    BY <2>1, SMT
  <2> QED BY <2>2, Zenon
<1>3. \A x, y, z \in S : <<x, y>> \notin R /\ <<y, z>> \notin R => <<x, z>> \notin R
  <2> TAKE x \in S, y \in S, z \in S
  <2>1. at[x] \in Int /\ at[y] \in Int /\ at[z] \in Int
    OBVIOUS
  <2>2. ~(at[x] < at[y]) /\ ~(at[y] < at[z]) => ~(at[x] < at[z])
    BY <2>1, SMT
  <2> QED BY <2>2, Zenon
<1> QED BY <1>1, <1>2, <1>3, Zenon DEF Weak

-----------------------------------------------------------------------------
(* What a fact is ranked by are numbers.                                   *)
CanRank(f) ==
  /\ f.pinned \in Int /\ f.updated \in Int /\ f.hits \in Int
  /\ f.seq = <<>> \/ \E n \in Int : f.seq = <<n>>

(* Keys are compared part after part.                                      *)
Lex(a1, a2, a3, a4, a5, b1, b2, b3, b4, b5) ==
  \/ a1 > b1
  \/ a1 = b1 /\ a2 > b2
  \/ a1 = b1 /\ a2 = b2 /\ a3 > b3
  \/ a1 = b1 /\ a2 = b2 /\ a3 = b3 /\ a4 > b4
  \/ a1 = b1 /\ a2 = b2 /\ a3 = b3 /\ a4 = b4 /\ a5 > b5

(* That is what Above does.                                                *)
LEMMA AboveIs ==
  ASSUME NEW a1 \in Int, NEW a2 \in Int, NEW a3 \in Int, NEW a4 \in Int, NEW a5 \in Int,
         NEW b1 \in Int, NEW b2 \in Int, NEW b3 \in Int, NEW b4 \in Int, NEW b5 \in Int
  PROVE  Above(<<a1, a2, a3, a4, a5>>, <<b1, b2, b3, b4, b5>>) <=>
           Lex(a1, a2, a3, a4, a5, b1, b2, b3, b4, b5)
<1> DEFINE a == <<a1, a2, a3, a4, a5>>
           b == <<b1, b2, b3, b4, b5>>
<1>1. /\ a[1] = a1 /\ a[2] = a2 /\ a[3] = a3 /\ a[4] = a4 /\ a[5] = a5
      /\ b[1] = b1 /\ b[2] = b2 /\ b[3] = b3 /\ b[4] = b4 /\ b[5] = b5
      /\ DOMAIN a = 1 .. 5
  OBVIOUS
<1> HIDE DEF a, b
<1>2. Above(a, b) <=> \E i \in 1 .. 5 : a[i] > b[i] /\ \A j \in 1 .. i - 1 : a[j] = b[j]
  BY <1>1 DEF Above
<1>3. 1 .. 5 = {1, 2, 3, 4, 5}
  BY SMT
<1>4. /\ 1 .. 1 - 1 = {} /\ 1 .. 2 - 1 = {1} /\ 1 .. 3 - 1 = {1, 2}
      /\ 1 .. 4 - 1 = {1, 2, 3} /\ 1 .. 5 - 1 = {1, 2, 3, 4}
  BY SMT
<1>5. Above(a, b) <=>
        \/ a[1] > b[1] /\ \A j \in 1 .. 1 - 1 : a[j] = b[j]
        \/ a[2] > b[2] /\ \A j \in 1 .. 2 - 1 : a[j] = b[j]
        \/ a[3] > b[3] /\ \A j \in 1 .. 3 - 1 : a[j] = b[j]
        \/ a[4] > b[4] /\ \A j \in 1 .. 4 - 1 : a[j] = b[j]
        \/ a[5] > b[5] /\ \A j \in 1 .. 5 - 1 : a[j] = b[j]
  BY <1>2, <1>3
<1>6. Above(a, b) <=>
           Lex(a1, a2, a3, a4, a5, b1, b2, b3, b4, b5)
  BY <1>1, <1>4, <1>5 DEF Lex
<1> QED BY <1>6 DEF a, b

(* The parts of a rank are numbers.                                        *)
LEMMA RankIs ==
  ASSUME NEW f, CanRank(f)
  PROVE  \E a1, a2, a3, a4, a5 \in Int : rank_key(f) = <<a1, a2, a3, a4, a5>>
<1>1. type_weight(f.type) \in Int
  BY DEF type_weight
<1>2. -(IF f.seq = <<>> THEN NoSeq ELSE f.seq[1]) \in Int
  <2>1. CASE f.seq = <<>>
    BY <2>1 DEF NoSeq
  <2>2. CASE f.seq # <<>>
    <3>1. PICK n \in Int : f.seq = <<n>>
      BY <2>2 DEF CanRank
    <3>2. f.seq[1] = n
      BY <3>1
    <3> QED BY <2>2, <3>2
  <2> QED BY <2>1, <2>2
<1> QED BY <1>1, <1>2, Zenon DEF CanRank, rank_key

(* Better is a strict order that puts equals together.                     *)
LEMMA BetterIsWeak ==
  ASSUME NEW f, NEW g, NEW h, CanRank(f), CanRank(g), CanRank(h)
  PROVE  /\ ~Better(f, f)
         /\ Better(f, g) /\ Better(g, h) => Better(f, h)
         /\ ~Better(f, g) /\ ~Better(g, h) => ~Better(f, h)
<1>1. PICK a1 \in Int, a2 \in Int, a3 \in Int, a4 \in Int, a5 \in Int : rank_key(f) = <<a1, a2, a3, a4, a5>>
  BY RankIs
<1>2. PICK b1 \in Int, b2 \in Int, b3 \in Int, b4 \in Int, b5 \in Int : rank_key(g) = <<b1, b2, b3, b4, b5>>
  BY RankIs
<1>3. PICK c1 \in Int, c2 \in Int, c3 \in Int, c4 \in Int, c5 \in Int : rank_key(h) = <<c1, c2, c3, c4, c5>>
  BY RankIs
<1>4. ~Better(f, f)
  <2>1. ~Above(<<a1, a2, a3, a4, a5>>, <<a1, a2, a3, a4, a5>>)
    <3>1. Above(<<a1, a2, a3, a4, a5>>, <<a1, a2, a3, a4, a5>>) <=>
            Lex(a1, a2, a3, a4, a5, a1, a2, a3, a4, a5)
      BY AboveIs
    <3>2. ~Lex(a1, a2, a3, a4, a5, a1, a2, a3, a4, a5)
      BY SMT DEF Lex
    <3> QED BY <3>1, <3>2
  <2> QED BY <1>1, <2>1 DEF Better
<1>5. Better(f, g) <=>
           Lex(a1, a2, a3, a4, a5, b1, b2, b3, b4, b5)
  <2>1. Above(<<a1, a2, a3, a4, a5>>, <<b1, b2, b3, b4, b5>>) <=>
          Lex(a1, a2, a3, a4, a5, b1, b2, b3, b4, b5)
    BY AboveIs
  <2> QED BY <1>1, <1>2, <2>1 DEF Better
<1>6. Better(g, h) <=>
           Lex(b1, b2, b3, b4, b5, c1, c2, c3, c4, c5)
  <2>1. Above(<<b1, b2, b3, b4, b5>>, <<c1, c2, c3, c4, c5>>) <=>
          Lex(b1, b2, b3, b4, b5, c1, c2, c3, c4, c5)
    BY AboveIs
  <2> QED BY <1>2, <1>3, <2>1 DEF Better
<1>7. Better(f, h) <=>
           Lex(a1, a2, a3, a4, a5, c1, c2, c3, c4, c5)
  <2>1. Above(<<a1, a2, a3, a4, a5>>, <<c1, c2, c3, c4, c5>>) <=>
          Lex(a1, a2, a3, a4, a5, c1, c2, c3, c4, c5)
    BY AboveIs
  <2> QED BY <1>1, <1>3, <2>1 DEF Better
<1>8. Better(f, g) /\ Better(g, h) => Better(f, h)
  BY <1>5, <1>6, <1>7, SMT DEF Lex
<1>9. ~Better(f, g) /\ ~Better(g, h) => ~Better(f, h)
  BY <1>5, <1>6, <1>7, SMT DEF Lex
<1> QED BY <1>4, <1>8, <1>9

(* So is the order of the index.                                           *)
LEMMA ShownBeforeIsWeak ==
  ASSUME NEW f, NEW g, NEW h, CanRank(f), CanRank(g), CanRank(h)
  PROVE  /\ ~ShownBefore(f, f)
         /\ ShownBefore(f, g) /\ ShownBefore(g, h) => ShownBefore(f, h)
         /\ ~ShownBefore(f, g) /\ ~ShownBefore(g, h) => ~ShownBefore(f, h)
<1>1. ASSUME NEW x, CanRank(x) PROVE x.seq # <<>> => x.seq[1] \in Int
  <2> SUFFICES ASSUME x.seq # <<>> PROVE x.seq[1] \in Int
    OBVIOUS
  <2>1. PICK n \in Int : x.seq = <<n>>
    BY <1>1 DEF CanRank
  <2> QED BY <2>1
<1>2. PICK a, b, c : a = f.seq[1] /\ b = g.seq[1] /\ c = h.seq[1]
  OBVIOUS
<1>3. /\ f.seq # <<>> => a \in Int
      /\ g.seq # <<>> => b \in Int
      /\ h.seq # <<>> => c \in Int
  BY <1>1, <1>2
<1>4. /\ ShownBefore(f, g) <=> f.seq # <<>> /\ (g.seq = <<>> \/ a < b)
      /\ ShownBefore(g, h) <=> g.seq # <<>> /\ (h.seq = <<>> \/ b < c)
      /\ ShownBefore(f, h) <=> f.seq # <<>> /\ (h.seq = <<>> \/ a < c)
      /\ ShownBefore(f, f) <=> f.seq # <<>> /\ (f.seq = <<>> \/ a < a)
  BY <1>2 DEF ShownBefore
<1> QED BY <1>3, <1>4, SMT

(* Among the places of a sequence, too.                                    *)
LEMMA OrdersAreWeak ==
  ASSUME NEW s, NEW in, \A i \in in : CanRank(s[i])
  PROVE  /\ Weak(in, {p \in in \X in : Better(s[p[1]], s[p[2]])})
         /\ Weak(in, {p \in in \X in : ShownBefore(s[p[1]], s[p[2]])})
<1> DEFINE B == {p \in in \X in : Better(s[p[1]], s[p[2]])}
           D == {p \in in \X in : ShownBefore(s[p[1]], s[p[2]])}
<1>1. \A i, j \in in : /\ <<i, j>> \in B <=> Better(s[i], s[j])
                       /\ <<i, j>> \in D <=> ShownBefore(s[i], s[j])
  BY Zenon
<1> HIDE DEF B, D
<1>2. Weak(in, B)
  BY <1>1, BetterIsWeak, Zenon DEF Weak
<1>3. Weak(in, D)
  BY <1>1, ShownBeforeIsWeak, Zenon DEF Weak
<1> QED BY <1>2, <1>3 DEF B, D

-----------------------------------------------------------------------------
(* The bytes of no line, of one more line and of fewer lines.              *)
LEMMA BytesOfNone == ASSUME NEW size PROVE Bytes({}, size) = {}
  BY DEF Bytes

(* One line more takes its own bytes more.                                 *)
LEMMA BytesAdd ==
  ASSUME NEW S, NEW size, NEW f, f \notin S, size[f] \in Nat, IsFiniteSet(Bytes(S, size))
  PROVE  /\ IsFiniteSet(Bytes(S \cup {f}, size))
         /\ Cardinality(Bytes(S, size)) \in Nat
         /\ Cardinality(Bytes(S \cup {f}, size)) = Cardinality(Bytes(S, size)) + size[f]
<1> DEFINE B == Bytes(S, size)
           L == {f} \X (1 .. size[f])
<1>1. Bytes(S \cup {f}, size) = B \cup L
  BY DEF Bytes
<1>2. IsFiniteSet(1 .. size[f]) /\ Cardinality(1 .. size[f]) = size[f]
  <2>1. PICK n \in Nat : n = size[f]
    OBVIOUS
  <2>2. IsFiniteSet(1 .. n) /\ Cardinality(1 .. n) = IF 1 > n THEN 0 ELSE n - 1 + 1
    BY FS_Interval
  <2>3. (IF 1 > n THEN 0 ELSE n - 1 + 1) = n
    BY SMT
  <2> QED BY <2>1, <2>2, <2>3
<1>3. IsFiniteSet({f}) /\ Cardinality({f}) = 1
  BY FS_Singleton
<1>4. IsFiniteSet(L) /\ Cardinality(L) = size[f]
  <2>1. IsFiniteSet(L) /\ Cardinality(L) = Cardinality({f}) * Cardinality(1 .. size[f])
    BY <1>2, <1>3, FS_Product
  <2> HIDE DEF L
  <2> QED BY <1>2, <1>3, <2>1, SMT
<1>5. B \cap L = {}
  <2>1. \A b \in B : b[1] \in S
    BY DEF Bytes
  <2>2. \A b \in L : b[1] = f
    OBVIOUS
  <2> HIDE DEF B, L
  <2> QED BY <2>1, <2>2, Zenon
<1> HIDE DEF B, L
<1>6. /\ IsFiniteSet(B \cup L)
      /\ Cardinality(B \cup L) = Cardinality(B) + Cardinality(L) - Cardinality(B \cap L)
  BY <1>4, FS_Union DEF B
<1>7. Cardinality(B \cap L) = 0
  BY <1>5, FS_EmptySet
<1>8. Cardinality(B) \in Nat
  BY FS_CardinalityType DEF B
<1>9. Cardinality(B \cup L) = Cardinality(B) + size[f]
  BY <1>4, <1>6, <1>7, <1>8, SMT
<1> QED BY <1>1, <1>6, <1>8, <1>9 DEF B

(* Fewer lines take no more.                                               *)
LEMMA BytesLess ==
  ASSUME NEW S, NEW T, S \subseteq T, NEW size, IsFiniteSet(Bytes(T, size))
  PROVE  /\ IsFiniteSet(Bytes(S, size))
         /\ Cardinality(Bytes(S, size)) \in Nat /\ Cardinality(Bytes(T, size)) \in Nat
         /\ Cardinality(Bytes(S, size)) <= Cardinality(Bytes(T, size))
<1>1. Bytes(S, size) \in SUBSET Bytes(T, size)
  BY DEF Bytes
<1>2. IsFiniteSet(Bytes(S, size)) /\ Cardinality(Bytes(S, size)) <= Cardinality(Bytes(T, size))
  BY <1>1, FS_Subset
<1> QED BY <1>2, FS_CardinalityType

-----------------------------------------------------------------------------
(* What the tries are: a function of how many were made.                   *)
Tries(s, size, kept, n) ==
  kept = [k \in 0 .. n |-> IF k = 0 THEN [used |-> 0, in |-> <<>>]
                           ELSE Try(kept[k - 1], s[k], size[s[k]])]

(* There is one.                                                           *)
LEMMA TriesExist ==
  ASSUME NEW s, NEW size, NEW n \in Nat
  PROVE  \E kept : Tries(s, size, kept, n)
<1> DEFINE Missing == {m \in Nat : ~\E kept : Tries(s, size, kept, m)}
<1> SUFFICES ASSUME Missing # {} PROVE FALSE
  OBVIOUS
<1>1. Missing \in SUBSET Nat
  OBVIOUS
<1>2. PICK m \in Missing : \A y \in Missing : ~(y < m)
  <2> HIDE DEF Missing
  <2> QED BY <1>1, LeastExists
<1>3. m \in Nat /\ ~\E kept : Tries(s, size, kept, m)
  BY <1>2
<1>4. m # 0
  <2> SUFFICES ASSUME m = 0 PROVE FALSE
    OBVIOUS
  <2> DEFINE g == [k \in 0 .. 0 |-> [used |-> 0, in |-> <<>>]]
  <2>1. \A k \in 0 .. 0 : k = 0
    BY SMT
  <2>2. Tries(s, size, g, 0)
    BY <2>1, Zenon DEF Tries
  <2> QED BY <1>3, <2>2
<1>5. m - 1 \in Nat /\ m - 1 < m
  BY <1>3, <1>4, SMT
<1>6. PICK h : Tries(s, size, h, m - 1)
  BY <1>2, <1>5
<1> DEFINE g == [k \in 0 .. m |-> IF k = m THEN Try(h[m - 1], s[m], size[s[m]]) ELSE h[k]]
<1>7. \A k \in 0 .. m : g[k] = IF k = 0 THEN [used |-> 0, in |-> <<>>]
                               ELSE Try(g[k - 1], s[k], size[s[k]])
  <2> TAKE k \in 0 .. m
  <2>1. CASE k = m
    <3>1. k # 0 /\ k - 1 \in 0 .. m /\ k - 1 # m
      BY <1>3, <1>4, <2>1, SMT
    <3>2. g[k - 1] = h[m - 1] /\ g[k] = Try(h[m - 1], s[m], size[s[m]])
      BY <2>1, <3>1
    <3> QED BY <2>1, <3>1, <3>2
  <2>2. CASE k # m
    <3>1. k \in 0 .. m - 1
      BY <1>3, <2>2, SMT
    <3>2. h[k] = IF k = 0 THEN [used |-> 0, in |-> <<>>] ELSE Try(h[k - 1], s[k], size[s[k]])
      BY <1>6, <3>1, Zenon DEF Tries
    <3>3. g[k] = h[k]
      BY <2>2
    <3>4. k # 0 => g[k - 1] = h[k - 1]
      <4> SUFFICES ASSUME k # 0 PROVE g[k - 1] = h[k - 1]
        OBVIOUS
      <4>1. k - 1 \in 0 .. m /\ k - 1 # m
        BY <1>3, <2>2, SMT
      <4> QED BY <4>1
    <3> QED BY <3>2, <3>3, <3>4
  <2> QED BY <2>1, <2>2
<1>8. DOMAIN g = 0 .. m /\ g = [k \in 0 .. m |-> g[k]]
  OBVIOUS
<1>9. Tries(s, size, g, m)
  <2> HIDE DEF g
  <2> QED BY <1>7, <1>8, Zenon DEF Tries
<1> QED BY <1>3, <1>9

(* What fits is what the last of them kept.                                *)
LEMMA FittingTries ==
  ASSUME NEW s, NEW size, Len(s) \in Nat
  PROVE  \E kept : /\ Tries(s, size, kept, Len(s))
                   /\ Fitting(s, size) = kept[Len(s)].in
<1> DEFINE T(kept) == kept = [k \in 0 .. Len(s) |->
                         IF k = 0 THEN [used |-> 0, in |-> <<>>]
                         ELSE Try(kept[k - 1], s[k], size[s[k]])]
           h == CHOOSE kept : T(kept)
<1>1. \E kept : T(kept)
  BY TriesExist, Zenon DEF Tries
<1>2. Fitting(s, size) = h[Len(s)].in
  BY DEF Fitting
<1> HIDE DEF T
<1>3. T(h)
  BY <1>1
<1> QED BY <1>2, <1>3 DEF Tries, T

-----------------------------------------------------------------------------
(* A sequence whose members are all different, each with a line.           *)
Lined(s, size) ==
  /\ Len(s) \in Nat /\ DOMAIN s = 1 .. Len(s)
  /\ \A i, j \in DOMAIN s : s[i] = s[j] => i = j
  /\ \A i \in DOMAIN s : size[s[i]] \in Nat

(* The facts tried before the k-th.                                        *)
Before(s, k) == {s[i] : i \in 1 .. k - 1}

(* After k tries: what is kept is some of what was tried, each once, and   *)
(* within both limits; and what was left out had too little room beside    *)
(* those kept before it.                                                   *)
KeptOK(s, size, k, kept) ==
  /\ kept.in \in Seq(Before(s, k + 1)) /\ kept.used \in Nat
  /\ IsFiniteSet(Bytes(ToSet(kept.in), size))
  /\ Cardinality(Bytes(ToSet(kept.in), size)) = kept.used
  /\ IsFiniteSet(ToSet(kept.in)) /\ Cardinality(ToSet(kept.in)) = Len(kept.in)
  /\ kept.used <= Room /\ Len(kept.in) <= Lines
  /\ \A j \in 1 .. k : s[j] \in ToSet(kept.in)
       \/ \E T \in SUBSET (ToSet(kept.in) \cap Before(s, j)) :
            \/ Cardinality(Bytes(T, size)) + size[s[j]] > Room
            \/ Cardinality(T) >= Lines

(* One more try keeps that.                                                *)
LEMMA TryKeeps ==
  ASSUME NEW s, NEW size, Lined(s, size), Room \in Nat, Lines \in Nat,
         NEW k \in 1 .. Len(s), NEW kept, KeptOK(s, size, k - 1, kept)
  PROVE  KeptOK(s, size, k, Try(kept, s[k], size[s[k]]))
<1> DEFINE f == s[k]
           X == Before(s, k)
           Y == Before(s, k + 1)
<1>1. /\ k \in DOMAIN s /\ size[f] \in Nat /\ k \in Nat /\ Len(s) \in Nat
      /\ k - 1 + 1 = k /\ k + 1 - 1 = k /\ k \in 1 .. k
  BY SMT DEF Lined
<1>2. /\ kept.in \in Seq(X) /\ kept.used \in Nat
      /\ IsFiniteSet(Bytes(ToSet(kept.in), size))
      /\ Cardinality(Bytes(ToSet(kept.in), size)) = kept.used
      /\ IsFiniteSet(ToSet(kept.in)) /\ Cardinality(ToSet(kept.in)) = Len(kept.in)
      /\ kept.used <= Room /\ Len(kept.in) <= Lines
      /\ \A j \in 1 .. k - 1 : s[j] \in ToSet(kept.in)
           \/ \E T \in SUBSET (ToSet(kept.in) \cap Before(s, j)) :
                \/ Cardinality(Bytes(T, size)) + size[s[j]] > Room
                \/ Cardinality(T) >= Lines
  BY <1>1, Zenon DEF KeptOK
<1>3. X \subseteq Y /\ f \in Y /\ f \notin X
  <2>1. 1 .. k - 1 \subseteq 1 .. k
    BY SMT
  <2>2. \A i \in 1 .. k - 1 : i \in DOMAIN s /\ i # k
    BY SMT DEF Lined
  <2>3. X = {s[i] : i \in 1 .. k - 1}
    BY DEF Before
  <2>4. Y = {s[i] : i \in 1 .. k}
    BY <1>1 DEF Before
  <2>5. \A i \in 1 .. k - 1 : s[i] # f
    BY <1>1, <2>2, Zenon DEF Lined
  <2> HIDE DEF X, Y
  <2>6. X \subseteq Y /\ f \in Y
    BY <1>1, <2>1, <2>3, <2>4, Zenon
  <2>7. f \notin X
    <3> HIDE DEF f
    <3> QED BY <2>3, <2>5, Zenon
  <2> QED BY <2>6, <2>7
<1>4. Len(kept.in) \in Nat /\ DOMAIN kept.in = 1 .. Len(kept.in) /\ \A i \in DOMAIN kept.in : kept.in[i] \in X
  BY <1>2
<1>5. ToSet(kept.in) \subseteq X
  BY <1>4 DEF ToSet
<1>6. f \notin ToSet(kept.in)
  BY <1>3, <1>5
<1> HIDE DEF X, Y, f
<1>7. CASE Fits(kept, size[f])
  <2> DEFINE more == [used |-> kept.used + size[f], in |-> Append(kept.in, f)]
             S == ToSet(kept.in)
  <2>1. Try(kept, f, size[f]) = more
    BY <1>7 DEF Try
  <2>2. kept.used + size[f] <= Room /\ Len(kept.in) < Lines
    BY <1>7 DEF Fits
  <2>3. Append(kept.in, f) \in Seq(Y) /\ Len(Append(kept.in, f)) = Len(kept.in) + 1
    <3>1. kept.in \in Seq(Y)
      BY <1>2, <1>3
    <3> QED BY <1>3, <3>1
  <2>4. ToSet(Append(kept.in, f)) = S \cup {f}
    <3>1. /\ DOMAIN Append(kept.in, f) = 1 .. Len(kept.in) + 1
          /\ Append(kept.in, f)[Len(kept.in) + 1] = f
          /\ \A i \in 1 .. Len(kept.in) : Append(kept.in, f)[i] = kept.in[i]
      BY <1>2
    <3>2. 1 .. Len(kept.in) + 1 = (1 .. Len(kept.in)) \cup {Len(kept.in) + 1}
      BY <1>4, SMT
    <3> QED BY <1>4, <3>1, <3>2 DEF ToSet
  <2>11. /\ IsFiniteSet(Bytes(S, size)) /\ Cardinality(Bytes(S, size)) = kept.used
         /\ IsFiniteSet(S) /\ Cardinality(S) = Len(kept.in) /\ f \notin S
    BY <1>2, <1>6
  <2>12. size[f] \in Nat
    BY <1>1 DEF f
  <2> HIDE DEF S
  <2>5. /\ IsFiniteSet(Bytes(S \cup {f}, size))
        /\ Cardinality(Bytes(S \cup {f}, size)) = kept.used + size[f]
    <3>1. IsFiniteSet(Bytes(S, size)) /\ f \notin S
      BY <2>11
    <3>2. /\ IsFiniteSet(Bytes(S \cup {f}, size))
          /\ Cardinality(Bytes(S \cup {f}, size)) = Cardinality(Bytes(S, size)) + size[f]
      BY <2>12, <3>1, BytesAdd, Zenon
    <3> QED BY <2>11, <3>2
  <2>6. IsFiniteSet(S \cup {f}) /\ Cardinality(S \cup {f}) = Len(kept.in) + 1
    <3>1. IsFiniteSet(S) /\ f \notin S /\ Cardinality(S) = Len(kept.in)
      BY <2>11
    <3>2. IsFiniteSet(S \cup {f}) /\ Cardinality(S \cup {f}) = Cardinality(S) + 1
      BY <3>1, FS_AddElement, Zenon
    <3> QED BY <3>1, <3>2
  <2>7. kept.used + size[f] \in Nat /\ Len(kept.in) + 1 <= Lines
    <3>1. PICK u \in Nat, z \in Nat, l \in Nat : u = kept.used /\ z = size[f] /\ l = Len(kept.in)
      BY <1>2, <1>4, <2>12
    <3>2. u + z \in Nat /\ l + 1 <= Lines
      BY <2>2, <3>1, SMT
    <3> QED BY <3>1, <3>2
  <2>8. \A j \in 1 .. k : s[j] \in S \cup {f}
       \/ \E T \in SUBSET ((S \cup {f}) \cap Before(s, j)) :
            \/ Cardinality(Bytes(T, size)) + size[s[j]] > Room
            \/ Cardinality(T) >= Lines
    <3> TAKE j \in 1 .. k
    <3>1. CASE j = k
      BY <3>1 DEF f
    <3>2. CASE j # k
      <4>1. j \in 1 .. k - 1
        BY <1>1, <3>2, SMT
      <4>2. s[j] \in S
              \/ \E T \in SUBSET (S \cap Before(s, j)) :
                   \/ Cardinality(Bytes(T, size)) + size[s[j]] > Room
                   \/ Cardinality(T) >= Lines
        BY <1>2, <4>1 DEF S
      <4>3. \A T \in SUBSET (S \cap Before(s, j)) : T \in SUBSET ((S \cup {f}) \cap Before(s, j))
        OBVIOUS
      <4> QED BY <4>2, <4>3, Zenon
    <3> QED BY <3>1, <3>2
  <2>9. more.used = kept.used + size[f] /\ more.in = Append(kept.in, f)
    OBVIOUS
  <2> HIDE DEF more
  <2>10. KeptOK(s, size, k, more)
    <3>1. more.in \in Seq(Before(s, k + 1)) /\ more.used \in Nat
      BY <2>3, <2>7, <2>9 DEF Y
    <3>2. more.used <= Room /\ Len(more.in) <= Lines
      BY <2>2, <2>3, <2>7, <2>9
    <3>3. ToSet(more.in) = S \cup {f} /\ Cardinality(S \cup {f}) = Len(more.in)
      BY <2>3, <2>4, <2>6, <2>9
    <3> QED BY <2>5, <2>6, <2>8, <2>9, <3>1, <3>2, <3>3, Zenon DEF KeptOK
  <2> QED BY <2>1, <2>10 DEF f
<1>8. CASE ~Fits(kept, size[f])
  <2> DEFINE S == ToSet(kept.in)
  <2>1. Try(kept, f, size[f]) = kept
    BY <1>8 DEF Try
  <2>2. kept.in \in Seq(Y)
    BY <1>2, <1>3
  <2>3. S \in SUBSET (S \cap X)
    BY <1>5
  <2>4. Cardinality(Bytes(S, size)) + size[f] > Room \/ Cardinality(S) >= Lines
    <3>1. kept.used + size[f] > Room \/ Len(kept.in) >= Lines
      BY <1>1, <1>2, <1>4, <1>8, SMT DEF Fits
    <3> QED BY <1>2, <3>1
  <2> HIDE DEF S
  <2>5. \A j \in 1 .. k : s[j] \in S
       \/ \E T \in SUBSET (S \cap Before(s, j)) :
            \/ Cardinality(Bytes(T, size)) + size[s[j]] > Room
            \/ Cardinality(T) >= Lines
    <3> TAKE j \in 1 .. k
    <3>1. CASE j = k
      BY <2>3, <2>4, <3>1 DEF X, f
    <3>2. CASE j # k
      <4>1. j \in 1 .. k - 1
        BY <1>1, <3>2, SMT
      <4> QED BY <1>2, <4>1 DEF S
    <3> QED BY <3>1, <3>2
  <2>6. KeptOK(s, size, k, kept)
    BY <1>2, <2>2, <2>5, Zenon DEF KeptOK, S, Y
  <2> QED BY <2>1, <2>6 DEF f
<1> QED BY <1>7, <1>8

(* What fits, in the end.                                                  *)
LEMMA FittingIs ==
  ASSUME NEW s, NEW size, Lined(s, size), Room \in Nat, Lines \in Nat
  PROVE  \E kept : KeptOK(s, size, Len(s), kept) /\ Fitting(s, size) = kept.in
<1>1. Len(s) \in Nat
  BY DEF Lined
<1>2. PICK h : Tries(s, size, h, Len(s)) /\ Fitting(s, size) = h[Len(s)].in
  BY <1>1, FittingTries
<1> DEFINE Wrong == {k \in 0 .. Len(s) : ~KeptOK(s, size, k, h[k])}
<1>3. Wrong = {}
  <2> SUFFICES ASSUME Wrong # {} PROVE FALSE
    OBVIOUS
  <2>1. Wrong \in SUBSET Nat
    BY SMT
  <2>2. PICK k \in Wrong : \A y \in Wrong : ~(y < k)
    <3> HIDE DEF Wrong
    <3> QED BY <2>1, LeastExists
  <2>3. k \in 0 .. Len(s) /\ ~KeptOK(s, size, k, h[k])
    BY <2>2
  <2>4. h[k] = IF k = 0 THEN [used |-> 0, in |-> <<>>] ELSE Try(h[k - 1], s[k], size[s[k]])
    BY <1>2, <2>3, Zenon DEF Tries
  <2>5. CASE k = 0
    <3> DEFINE none == [used |-> 0, in |-> <<>>]
    <3>1. h[k] = none
      BY <2>4, <2>5
    <3>2. ToSet(<<>>) = {}
      BY DEF ToSet
    <3>3. Cardinality({}) = 0 /\ IsFiniteSet({}) /\ Bytes({}, size) = {}
      BY FS_EmptySet, BytesOfNone
    <3>4. <<>> \in Seq(Before(s, 0 + 1)) /\ Len(<<>>) = 0 /\ 1 .. 0 = {}
      BY SMT
    <3>5. 0 <= Room /\ 0 <= Lines /\ 0 \in Nat
      BY SMT
    <3>6. none.in = <<>> /\ none.used = 0
      OBVIOUS
    <3> HIDE DEF none
    <3>7. KeptOK(s, size, 0, none)
      BY <3>2, <3>3, <3>4, <3>5, <3>6, Zenon DEF KeptOK
    <3> QED BY <2>3, <2>5, <3>1, <3>7
  <2>6. CASE k # 0
    <3>1. k \in 1 .. Len(s) /\ k - 1 \in 0 .. Len(s) /\ k - 1 < k
      BY <1>1, <2>3, <2>6, SMT
    <3>2. KeptOK(s, size, k - 1, h[k - 1])
      BY <2>2, <3>1
    <3> QED BY <2>3, <2>4, <2>6, <3>1, <3>2, TryKeeps
  <2> QED BY <2>5, <2>6
<1>4. Len(s) \in 0 .. Len(s)
  BY <1>1, SMT
<1> QED BY <1>2, <1>3, <1>4

-----------------------------------------------------------------------------
(* Some places of a memory whose facts are all different.                  *)
Rankable(facts, of, size) ==
  /\ of \subseteq Nat /\ IsFiniteSet(of)
  /\ \A i \in of : CanRank(facts[i]) /\ size[facts[i]] \in Nat
  /\ \A i, j \in of : facts[i] = facts[j] => i = j

(* What is tried, in which order.                                          *)
Tried(facts, wanted) ==
  StableSort(facts, wanted, {p \in wanted \X wanted : Better(facts[p[1]], facts[p[2]])})

(* Every one of them once, none behind one it is better than.              *)
LEMMA TriedIs ==
  ASSUME NEW facts, NEW of, NEW size, Rankable(facts, of, size)
  PROVE  /\ Lined(Tried(facts, of), size)
         /\ ToSet(Tried(facts, of)) = {facts[i] : i \in of}
         /\ \A k, m \in DOMAIN Tried(facts, of) :
              k < m => ~Better(Tried(facts, of)[m], Tried(facts, of)[k])
<1> DEFINE R == {p \in of \X of : Better(facts[p[1]], facts[p[2]])}
           n == Cardinality(of)
           tried == Tried(facts, of)
<1>1. Weak(of, R)
  BY OrdersAreWeak DEF Rankable
<1>2. \A i, j \in of : <<i, j>> \in R <=> Better(facts[i], facts[j])
  BY Zenon
<1>3. tried = StableSort(facts, of, R)
  BY DEF Tried
<1> HIDE DEF R, tried
<1>4. n \in Nat /\ \E perm : Sorts(facts, of, R, perm, StableSort(facts, of, R))
  <2>1. of \subseteq Nat /\ IsFiniteSet(of)
    BY DEF Rankable
  <2> QED BY <1>1, <2>1, StableSortIs, Zenon
<1>5. PICK perm \in [1 .. n -> of] :
              /\ \A i \in of : \E k \in 1 .. n : perm[k] = i
              /\ \A k, m \in 1 .. n :
                   k < m => perm[k] # perm[m] /\ <<perm[m], perm[k]>> \notin R
              /\ tried = [k \in 1 .. n |-> facts[perm[k]]]
  <2>1. PICK perm : Sorts(facts, of, R, perm, tried)
    BY <1>3, <1>4
  <2> QED BY <2>1 DEF Sorts
<1> HIDE DEF n
<1>6. /\ DOMAIN tried = 1 .. n /\ Len(tried) = n
      /\ \A k \in 1 .. n : perm[k] \in of /\ tried[k] = facts[perm[k]]
  BY <1>4, <1>5
<1>7. \A k, m \in 1 .. n : tried[k] = tried[m] => k = m
  <2> TAKE k \in 1 .. n, m \in 1 .. n
  <2> HAVE tried[k] = tried[m]
  <2>1. perm[k] = perm[m]
    <3>1. perm[k] \in of /\ perm[m] \in of /\ facts[perm[k]] = facts[perm[m]]
      BY <1>6
    <3> QED BY <3>1, Zenon DEF Rankable
  <2>2. ~(k < m) /\ ~(m < k)
    BY <1>5, <2>1
  <2> QED BY <1>4, <2>2, SMT
<1>8. Lined(tried, size)
  <2>1. \A k \in 1 .. n : size[tried[k]] \in Nat
    BY <1>6 DEF Rankable
  <2> QED BY <1>4, <1>6, <1>7, <2>1 DEF Lined
<1>9. ToSet(tried) = {facts[i] : i \in of}
  BY <1>5, <1>6 DEF ToSet
<1>10. \A k, m \in 1 .. n : k < m => ~Better(tried[m], tried[k])
  BY <1>2, <1>5, <1>6
<1> QED BY <1>6, <1>8, <1>9, <1>10 DEF tried

(* The index holds the best that fit, in order.                            *)
LEMMA ShownIsBest ==
  ASSUME NEW facts, NEW of, NEW size, Rankable(facts, of, size), NEW orphans,
         Room \in Nat, Lines \in Nat
  PROVE  /\ BestFirst(facts, of, orphans, size)
         /\ Len(Shown(facts, of, orphans, size)) \in Nat
         /\ DOMAIN Shown(facts, of, orphans, size) = 1 .. Len(Shown(facts, of, orphans, size))
         /\ \E shown : /\ shown = [k \in DOMAIN shown |-> shown[k]]
                       /\ shown = Shown(facts, of, orphans, size)
                       /\ IsFiniteSet(ToSet(shown)) /\ IsFiniteSet(Bytes(ToSet(shown), size))
<1> DEFINE wanted == {i \in of : candidate(facts[i], orphans)}
           W == {facts[i] : i \in wanted}
           tried == Tried(facts, wanted)
           fits == Fitting(tried, size)
           R == {p \in (DOMAIN fits) \X (DOMAIN fits) :
                   ShownBefore(fits[p[1]], fits[p[2]])}
           shown == Shown(facts, of, orphans, size)
<1>1. Rankable(facts, wanted, size)
  <2>1. wanted \in SUBSET of
    OBVIOUS
  <2> HIDE DEF wanted
  <2>2. IsFiniteSet(wanted)
    BY <2>1, FS_Subset DEF Rankable
  <2> QED BY <2>1, <2>2, Zenon DEF Rankable
<1>2. shown = StableSort(fits, DOMAIN fits, R)
  BY DEF Shown, Tried
<1>3. W = {f \in {facts[i] : i \in of} : candidate(f, orphans)}
  OBVIOUS
<1> HIDE DEF shown, wanted
<1>4. /\ Lined(tried, size) /\ ToSet(tried) = W
      /\ \A k, m \in DOMAIN tried : k < m => ~Better(tried[m], tried[k])
  BY <1>1, TriedIs
<1> HIDE DEF tried
<1>5. \A f \in W : CanRank(f)
  BY <1>1, Zenon DEF Rankable
<1> DEFINE n == Len(tried)
<1>6. n \in Nat /\ DOMAIN tried = 1 .. n
  BY <1>4 DEF Lined
<1>7. Before(tried, n + 1) = W
  <2>1. n + 1 - 1 = n
    BY <1>6, SMT
  <2>2. Before(tried, n + 1) = {tried[i] : i \in 1 .. n}
    BY <2>1 DEF Before
  <2>3. ToSet(tried) = {tried[i] : i \in 1 .. n}
    BY <1>6 DEF ToSet
  <2> HIDE DEF W
  <2> QED BY <1>4, <2>2, <2>3
<1>8. PICK kept : KeptOK(tried, size, n, kept) /\ fits = kept.in
  BY <1>4, FittingIs
<1> HIDE DEF fits, W, n
<1>9. /\ fits \in Seq(W)
      /\ IsFiniteSet(Bytes(ToSet(fits), size))
      /\ Cardinality(Bytes(ToSet(fits), size)) <= Room
      /\ IsFiniteSet(ToSet(fits)) /\ Cardinality(ToSet(fits)) = Len(fits)
      /\ Len(fits) <= Lines
      /\ \A j \in 1 .. n : tried[j] \in ToSet(fits)
           \/ \E T \in SUBSET (ToSet(fits) \cap Before(tried, j)) :
                \/ Cardinality(Bytes(T, size)) + size[tried[j]] > Room
                \/ Cardinality(T) >= Lines
  BY <1>7, <1>8, Zenon DEF KeptOK
<1>10. /\ Len(fits) \in Nat /\ DOMAIN fits = 1 .. Len(fits)
       /\ \A k \in DOMAIN fits : fits[k] \in W
  BY <1>9
<1>11. Weak(DOMAIN fits, R)
  BY <1>5, <1>10, OrdersAreWeak
<1>12. DOMAIN fits \subseteq Nat /\ IsFiniteSet(DOMAIN fits) /\ Cardinality(DOMAIN fits) = Len(fits)
  <2>1. PICK m \in Nat : m = Len(fits)
    BY <1>10
  <2>2. IsFiniteSet(1 .. m) /\ Cardinality(1 .. m) = IF 1 > m THEN 0 ELSE m - 1 + 1
    BY FS_Interval
  <2>3. (IF 1 > m THEN 0 ELSE m - 1 + 1) = m /\ 1 .. m \subseteq Nat
    BY SMT
  <2> QED BY <1>10, <2>1, <2>2, <2>3
<1>13. \A i, j \in DOMAIN fits : <<i, j>> \in R <=> ShownBefore(fits[i], fits[j])
  BY Zenon
<1> HIDE DEF R
<1> DEFINE m == Len(fits)
<1>14. PICK perm \in [1 .. m -> DOMAIN fits] :
              /\ \A i \in DOMAIN fits : \E k \in 1 .. m : perm[k] = i
              /\ \A k, l \in 1 .. m :
                   k < l => perm[k] # perm[l] /\ <<perm[l], perm[k]>> \notin R
              /\ shown = [k \in 1 .. m |-> fits[perm[k]]]
  <2>1. \E perm : Sorts(fits, DOMAIN fits, R, perm, StableSort(fits, DOMAIN fits, R))
    BY <1>11, <1>12, StableSortIs, Zenon
  <2>2. PICK perm : Sorts(fits, DOMAIN fits, R, perm, shown)
    BY <1>2, <2>1
  <2> QED BY <1>12, <2>2 DEF Sorts
<1> HIDE DEF m
<1>15. m \in Nat
  BY <1>10 DEF m
<1>16. /\ DOMAIN shown = 1 .. m /\ Len(shown) = m
       /\ \A k \in 1 .. m : perm[k] \in DOMAIN fits /\ shown[k] = fits[perm[k]]
  BY <1>14, <1>15
<1>17. ToSet(shown) = ToSet(fits)
  <2>1. \A k \in DOMAIN shown : shown[k] \in ToSet(fits)
    BY <1>16 DEF ToSet
  <2>2. \A i \in DOMAIN fits : fits[i] \in ToSet(shown)
    <3> TAKE i \in DOMAIN fits
    <3>1. PICK k \in 1 .. m : perm[k] = i
      BY <1>14
    <3>2. k \in DOMAIN shown /\ shown[k] = fits[i]
      BY <1>16, <3>1
    <3> QED BY <3>2 DEF ToSet
  <2> QED BY <2>1, <2>2 DEF ToSet
<1>18. ToSet(shown) \subseteq W
  BY <1>10, <1>17 DEF ToSet
<1>19. \A i, j \in DOMAIN shown : i < j => ~ShownBefore(shown[j], shown[i])
  BY <1>13, <1>14, <1>16
<1> DEFINE ahead(f) == {g \in ToSet(shown) : Better(g, f)}
           level(f) == {g \in ToSet(shown) : ~Better(g, f) /\ ~Better(f, g)}
<1>20. ASSUME NEW f \in W \ ToSet(shown)
       PROVE  \/ Cardinality(Bytes(ahead(f) \cup level(f), size)) + size[f] > Room
              \/ Cardinality(ahead(f) \cup level(f)) >= Lines
  <2> DEFINE D == ahead(f) \cup level(f)
  <2>1. PICK j \in 1 .. n : f = tried[j]
    BY <1>4, <1>6 DEF ToSet
  <2>2. PICK T \in SUBSET (ToSet(fits) \cap Before(tried, j)) :
                \/ Cardinality(Bytes(T, size)) + size[f] > Room
                \/ Cardinality(T) >= Lines
    BY <1>9, <1>17, <2>1
  <2>3. T \subseteq D
    <3> SUFFICES ASSUME NEW g \in T PROVE g \in D
      OBVIOUS
    <3>1. g \in ToSet(shown) /\ g \in Before(tried, j)
      BY <1>17, <2>2
    <3>2. PICK i \in 1 .. j - 1 : g = tried[i]
      BY <3>1 DEF Before
    <3>3. i \in 1 .. n /\ i < j
      BY <1>6, SMT
    <3>4. ~Better(f, g)
      BY <1>4, <1>6, <2>1, <3>2, <3>3
    <3> QED BY <3>1, <3>4
  <2>4. D \in SUBSET ToSet(shown)
    OBVIOUS
  <2> HIDE DEF D
  <2>5. IsFiniteSet(D)
    BY <1>9, <1>17, <2>4, FS_Subset
  <2>6. IsFiniteSet(T) /\ Cardinality(T) <= Cardinality(D) /\ Cardinality(T) \in Nat /\ Cardinality(D) \in Nat
    BY <2>3, <2>5, FS_Subset, FS_CardinalityType
  <2>7. IsFiniteSet(Bytes(D, size))
    BY <1>9, <1>17, <2>4, BytesLess
  <2>8. /\ Cardinality(Bytes(T, size)) <= Cardinality(Bytes(D, size))
        /\ Cardinality(Bytes(T, size)) \in Nat /\ Cardinality(Bytes(D, size)) \in Nat
    BY <2>3, <2>7, BytesLess
  <2>9. size[f] \in Nat
    BY <1>4, <1>6, <2>1 DEF Lined
  <2>10. \/ Cardinality(Bytes(D, size)) + size[f] > Room
         \/ Cardinality(D) >= Lines
    <3>1. PICK a \in Nat, b \in Nat, c \in Nat : a = Cardinality(Bytes(T, size)) /\ b = Cardinality(Bytes(D, size)) /\ c = size[f]
      BY <2>8, <2>9
    <3>2. PICK u \in Nat, v \in Nat : u = Cardinality(T) /\ v = Cardinality(D)
      BY <2>6
    <3>3. a <= b /\ u <= v /\ (a + c > Room \/ u >= Lines)
      BY <2>2, <2>6, <2>8, <3>1, <3>2
    <3>4. b + c > Room \/ v >= Lines
      BY <3>3, SMT
    <3> QED BY <3>1, <3>2, <3>4
  <2> QED BY <2>10 DEF D
<1>21. /\ Cardinality(ToSet(shown)) = Len(shown)
       /\ Cardinality(Bytes(ToSet(shown), size)) <= Room /\ Len(shown) <= Lines
  BY <1>9, <1>16, <1>17 DEF m
<1>22. BestFirst(facts, of, orphans, size)
  <2> HIDE DEF ahead, level
  <2>1. /\ ToSet(shown) \subseteq W
        /\ Cardinality(ToSet(shown)) = Len(shown)
        /\ Cardinality(Bytes(ToSet(shown), size)) <= Room /\ Len(shown) <= Lines
        /\ \A f \in W \ ToSet(shown) :
             \/ Cardinality(Bytes(ahead(f) \cup level(f), size)) + size[f] > Room
             \/ Cardinality(ahead(f) \cup level(f)) >= Lines
        /\ \A i, j \in DOMAIN shown : i < j => ~ShownBefore(shown[j], shown[i])
    BY <1>18, <1>19, <1>20, <1>21, Zenon
  <2> QED BY <1>3, <2>1, Zenon DEF BestFirst, shown, W, ahead, level
<1>23. shown = [k \in DOMAIN shown |-> shown[k]]
  BY <1>14
<1>24. IsFiniteSet(ToSet(shown)) /\ IsFiniteSet(Bytes(ToSet(shown), size))
  BY <1>9, <1>17
<1> QED BY <1>15, <1>16, <1>22, <1>23, <1>24 DEF shown

-----------------------------------------------------------------------------
(* A sequence with as many members as places has each once.                *)
LEMMA EachOnce ==
  ASSUME NEW s, Len(s) \in Nat, DOMAIN s = 1 .. Len(s), s = [i \in DOMAIN s |-> s[i]],
         Cardinality(ToSet(s)) = Len(s)
  PROVE  \A i, j \in DOMAIN s : s[i] = s[j] => i = j
<1> DEFINE D == DOMAIN s
           T == ToSet(s)
<1>1. s \in Surjection(D, T)
  <2>1. s \in [D -> T] /\ \A t \in T : \E i \in D : s[i] = t
    BY DEF ToSet
  <2> HIDE DEF T
  <2> QED BY <2>1 DEF Surjection
<1>2. IsFiniteSet(D) /\ Cardinality(D) = Len(s)
  <2>1. PICK m \in Nat : m = Len(s)
    OBVIOUS
  <2>2. IsFiniteSet(1 .. m) /\ Cardinality(1 .. m) = IF 1 > m THEN 0 ELSE m - 1 + 1
    BY FS_Interval
  <2>3. (IF 1 > m THEN 0 ELSE m - 1 + 1) = m
    BY SMT
  <2> QED BY <2>1, <2>2, <2>3
<1> HIDE DEF D, T
<1>3. s \in Injection(D, T)
  <2>1. Cardinality(D) = Cardinality(T)
    BY <1>2 DEF T
  <2> QED BY <1>1, <1>2, <2>1, FS_SurjSameCardinalityImpliesInj, Zenon
<1> QED BY <1>3 DEF Injection, IsInjective, D

(* Places that only go up, as many as there are, are all of them in order. *)
LEMMA GoingUp ==
  ASSUME NEW n \in Nat, NEW pos, \A k \in 1 .. n : pos[k] \in 1 .. n,
         \A k, l \in 1 .. n : k < l => pos[k] < pos[l]
  PROVE  \A k \in 1 .. n : pos[k] = k
<1>1. \A k \in 1 .. n : ~(pos[k] < k)
  <2> DEFINE Low == {k \in 1 .. n : pos[k] < k}
  <2> SUFFICES ASSUME Low # {} PROVE FALSE
    OBVIOUS
  <2>1. Low \in SUBSET Nat
    BY SMT
  <2>2. PICK k \in Low : \A y \in Low : ~(y < k)
    <3> HIDE DEF Low
    <3> QED BY <2>1, LeastExists
  <2>3. k \in 1 .. n /\ pos[k] < k /\ pos[k] \in 1 .. n
    BY <2>2
  <2>4. k - 1 \in 1 .. n /\ k - 1 < k
    BY <2>3, SMT
  <2>5. pos[k - 1] < pos[k] /\ pos[k - 1] \in 1 .. n
    BY <2>3, <2>4
  <2>6. pos[k - 1] < k - 1
    BY <2>3, <2>5, SMT
  <2>7. k - 1 \in Low
    BY <2>4, <2>6
  <2> QED BY <2>2, <2>4, <2>7
<1>2. \A k \in 1 .. n : ~(pos[k] > k)
  <2> DEFINE High == {d \in 0 .. n - 1 : pos[n - d] > n - d}
  <2> SUFFICES ASSUME NEW k0 \in 1 .. n, pos[k0] > k0 PROVE FALSE
    OBVIOUS
  <2>1. High \in SUBSET Nat /\ n - k0 \in High
    <3>1. n - k0 \in 0 .. n - 1 /\ n - (n - k0) = k0 /\ 0 .. n - 1 \subseteq Nat
      BY SMT
    <3> QED BY <3>1
  <2>2. PICK d \in High : \A y \in High : ~(y < d)
    <3> HIDE DEF High
    <3> QED BY <2>1, LeastExists
  <2>3. d \in 0 .. n - 1 /\ pos[n - d] > n - d
    BY <2>2
  <2>4. n - d \in 1 .. n
    BY <2>3, SMT
  <2>5. pos[n - d] \in 1 .. n
    BY <2>4
  <2>6. d # 0
    BY <2>3, <2>5, SMT
  <2>7. PICK k \in 1 .. n, l \in 1 .. n : k = n - d /\ l = n - (d - 1)
    <3>1. n - (d - 1) \in 1 .. n
      BY <2>3, <2>6, SMT
    <3> QED BY <2>4, <3>1
  <2>8. k < l /\ l = k + 1
    BY <2>3, <2>7, SMT
  <2>9. pos[k] < pos[l] /\ pos[l] \in 1 .. n /\ pos[k] > k /\ pos[k] \in 1 .. n
    BY <2>3, <2>7, <2>8
  <2>10. pos[l] > l
    BY <2>8, <2>9, SMT
  <2>11. d - 1 \in 0 .. n - 1 /\ d - 1 < d
    BY <2>3, <2>6, SMT
  <2>12. d - 1 \in High
    BY <2>7, <2>10, <2>11
  <2> QED BY <2>2, <2>11, <2>12
<1> QED
  <2> TAKE k \in 1 .. n
  <2>1. ~(pos[k] < k) /\ ~(pos[k] > k) /\ pos[k] \in 1 .. n
    BY <1>1, <1>2
  <2> QED BY <2>1, SMT

(* Facts that stand for others of the same size take as many bytes.        *)
LEMMA SameBytes ==
  ASSUME NEW S, NEW T, NEW to \in [S -> T], NEW size1, NEW size2,
         \A f, g \in S : to[f] = to[g] => f = g,
         \A f \in S : size1[f] = size2[to[f]],
         IsFiniteSet(T), IsFiniteSet(Bytes(T, size2))
  PROVE  /\ IsFiniteSet(S) /\ Cardinality(S) <= Cardinality(T)
         /\ IsFiniteSet(Bytes(S, size1))
         /\ Cardinality(Bytes(S, size1)) <= Cardinality(Bytes(T, size2))
<1>1. to \in Injection(S, T)
  BY DEF Injection, IsInjective
<1> DEFINE A == Bytes(S, size1)
           B == Bytes(T, size2)
           move == [b \in A |-> <<to[b[1]], b[2]>>]
<1>2. \A b \in A : b[1] \in S /\ b = <<b[1], b[2]>> /\ b[2] \in 1 .. size1[b[1]]
  BY DEF Bytes
<1>3. \A f \in T : \A i \in 1 .. size2[f] : <<f, i>> \in B
  BY DEF Bytes
<1> HIDE DEF A, B
<1>4. move \in [A -> B]
  <2>1. ASSUME NEW b \in A PROVE <<to[b[1]], b[2]>> \in B
    <3>1. b[1] \in S /\ b[2] \in 1 .. size1[b[1]]
      BY <1>2
    <3>2. to[b[1]] \in T /\ b[2] \in 1 .. size2[to[b[1]]]
      BY <3>1
    <3> QED BY <1>3, <3>2
  <2> QED BY <2>1
<1>5. \A b, c \in A : move[b] = move[c] => b = c
  <2> TAKE b \in A, c \in A
  <2> HAVE move[b] = move[c]
  <2>1. <<to[b[1]], b[2]>> = <<to[c[1]], c[2]>>
    OBVIOUS
  <2>2. to[b[1]] = to[c[1]] /\ b[2] = c[2]
    BY <2>1
  <2>3. b[1] \in S /\ c[1] \in S
    BY <1>2
  <2>4. b[1] = c[1]
    BY <2>2, <2>3
  <2> QED BY <1>2, <2>2, <2>4
<1> HIDE DEF move
<1>6. move \in Injection(A, B)
  BY <1>4, <1>5 DEF Injection, IsInjective
<1>7. IsFiniteSet(S) /\ Cardinality(S) <= Cardinality(T)
  BY <1>1, FS_Injection
<1>8. IsFiniteSet(A) /\ Cardinality(A) <= Cardinality(B)
  <2>1. IsFiniteSet(B)
    BY DEF B
  <2> QED BY <1>6, <2>1, FS_Injection
<1> QED BY <1>7, <1>8 DEF A, B

-----------------------------------------------------------------------------
(* A memory under its leaves, each leaf once.                              *)
LeafFacts(Keys) ==
  [leaf : Keys, pinned : {0, 1}, type : Keys, updated : Int, hits : Int,
   seq : {<<>>} \cup {<<n>> : n \in Int}, size : Nat,
   there : BOOLEAN, pins : BOOLEAN, row : BOOLEAN, active : BOOLEAN]
OnceEach(m) == \A i, j \in DOMAIN m : m[i].leaf = m[j].leaf => i = j

(* Any places of it can be ranked.                                         *)
LEMMA LeavesRank ==
  ASSUME NEW Keys, NEW m \in Seq(LeafFacts(Keys)), OnceEach(m), NEW of \in SUBSET DOMAIN m
  PROVE  Rankable(m, of, Sizes(m))
<1>1. Len(m) \in Nat /\ DOMAIN m = 1 .. Len(m) /\ \A i \in DOMAIN m : m[i] \in LeafFacts(Keys)
  OBVIOUS
<1>2. of \subseteq Nat /\ IsFiniteSet(of)
  <2>1. IsFiniteSet(1 .. Len(m)) /\ 1 .. Len(m) \subseteq Nat
    BY <1>1, FS_Interval, SMT
  <2> QED BY <1>1, <2>1, FS_Subset
<1>3. ASSUME NEW i \in of PROVE CanRank(m[i]) /\ Sizes(m)[m[i]] \in Nat
  <2>1. m[i] \in LeafFacts(Keys) /\ m[i] \in ToSet(m)
    BY <1>1 DEF ToSet
  <2>2. /\ m[i].pinned \in {0, 1} /\ m[i].updated \in Int /\ m[i].hits \in Int /\ m[i].size \in Nat
        /\ m[i].seq \in {<<>>} \cup {<<n>> : n \in Int}
    BY <2>1, Zenon DEF LeafFacts
  <2>3. CanRank(m[i])
    BY <2>2 DEF CanRank
  <2>4. Sizes(m)[m[i]] = m[i].size
    BY <2>1, Zenon DEF Sizes
  <2> QED BY <2>2, <2>3, <2>4
<1>4. \A i, j \in of : m[i] = m[j] => i = j
  BY Zenon DEF OnceEach
<1> QED BY <1>2, <1>3, <1>4 DEF Rankable

(* The index of a memory: a line for some of the selected leaves, in some  *)
(* order, each once.                                                       *)
IndexOK(m, s) ==
  /\ Len(s) \in Nat /\ DOMAIN s = 1 .. Len(s)
  /\ BestFirst(m, Selected(m), FALSE, Sizes(m))
  /\ Len(s) = Cardinality(ToSet(s))
  /\ IsFiniteSet(ToSet(s)) /\ IsFiniteSet(Bytes(ToSet(s), Sizes(m)))
  /\ \A i, j \in DOMAIN s : s[i] = s[j] => i = j
  /\ \A k \in DOMAIN s : \E i \in Selected(m) : s[k] = m[i] /\ candidate(m[i], FALSE)
  /\ Index(m) = [k \in DOMAIN s |-> s[k].leaf]

(* That is what is selected.                                               *)
LEMMA IndexIs ==
  ASSUME NEW Keys, NEW m \in Seq(LeafFacts(Keys)), OnceEach(m), Room \in Nat, Lines \in Nat,
         NEW s, s = Shown(m, Selected(m), FALSE, Sizes(m))
  PROVE  IndexOK(m, s)
<1>1. Selected(m) \in SUBSET DOMAIN m
  BY DEF Selected
<1>2. Rankable(m, Selected(m), Sizes(m))
  BY <1>1, LeavesRank
<1>3. /\ Len(s) \in Nat /\ DOMAIN s = 1 .. Len(s)
      /\ BestFirst(m, Selected(m), FALSE, Sizes(m))
  BY <1>2, ShownIsBest
<1>4. /\ Len(s) = Cardinality(ToSet(s))
      /\ ToSet(s) \subseteq {f \in {m[i] : i \in Selected(m)} : candidate(f, FALSE)}
  BY <1>3, Zenon DEF BestFirst
<1>5. /\ s = [k \in DOMAIN s |-> s[k]]
      /\ IsFiniteSet(ToSet(s)) /\ IsFiniteSet(Bytes(ToSet(s), Sizes(m)))
  <2>1. PICK shown : /\ shown = [k \in DOMAIN shown |-> shown[k]]
                     /\ shown = Shown(m, Selected(m), FALSE, Sizes(m))
                     /\ IsFiniteSet(ToSet(shown)) /\ IsFiniteSet(Bytes(ToSet(shown), Sizes(m)))
    BY <1>2, ShownIsBest
  <2> QED BY <2>1
<1>6. \A i, j \in DOMAIN s : s[i] = s[j] => i = j
  BY <1>3, <1>4, <1>5, EachOnce
<1>7. \A k \in DOMAIN s : \E i \in Selected(m) : s[k] = m[i] /\ candidate(m[i], FALSE)
  <2> TAKE k \in DOMAIN s
  <2>1. s[k] \in ToSet(s)
    BY DEF ToSet
  <2>2. s[k] \in {m[i] : i \in Selected(m)} /\ candidate(s[k], FALSE)
    BY <1>4, <2>1
  <2> QED BY <2>2
<1>8. Index(m) = [k \in DOMAIN s |-> s[k].leaf]
  BY DEF Index
<1> QED BY <1>3, <1>4, <1>5, <1>6, <1>7, <1>8, Zenon DEF IndexOK

(* What the import makes of a leaf.                                        *)
Takes(f, lines, g) ==
  /\ g.leaf = f.leaf /\ g.size = f.size
  /\ g.seq = parse_index(lines, f.leaf)
  /\ g.row = TRUE
  /\ g.active = IF f.row THEN f.active ELSE TRUE
  /\ g.pinned = IF f.row THEN MaxPinned(f.pinned, f.pins) ELSE MaxPinned(0, f.pins)

(* That is what it does, and the result is such a leaf again.              *)
LEMMA ImportLeafIs ==
  ASSUME NEW Keys, NEW f \in LeafFacts(Keys), NEW lines, DOMAIN lines \subseteq Int, NEW now \in Int
  PROVE  /\ ImportLeaf(f, lines, now) \in LeafFacts(Keys)
         /\ Takes(f, lines, ImportLeaf(f, lines, now))
<1> DEFINE g == ImportLeaf(f, lines, now)
           seq == parse_index(lines, f.leaf)
           active == IF f.row THEN f.active ELSE TRUE
           pinned == IF f.row THEN MaxPinned(f.pinned, f.pins) ELSE MaxPinned(0, f.pins)
<1>1. seq \in {<<>>} \cup {<<n>> : n \in Int}
  <2>1. CASE \E i \in DOMAIN lines : lines[i] = f.leaf
    <3> DEFINE place == CHOOSE i \in DOMAIN lines : lines[i] = f.leaf
    <3>1. place \in DOMAIN lines
      BY <2>1
    <3>2. seq = <<place - 1>>
      BY <2>1 DEF parse_index
    <3> HIDE DEF place
    <3>3. place - 1 \in Int
      BY <3>1
    <3> QED BY <3>2, <3>3
  <2>2. CASE ~\E i \in DOMAIN lines : lines[i] = f.leaf
    BY <2>2 DEF parse_index
  <2> QED BY <2>1, <2>2
<1>2. /\ f.row \in BOOLEAN /\ f.active \in BOOLEAN /\ f.pins \in BOOLEAN /\ f.pinned \in {0, 1}
  BY DEF LeafFacts
<1>3. active \in BOOLEAN /\ pinned \in {0, 1}
  BY <1>2 DEF MaxPinned
<1>4. g = [f EXCEPT !.seq = seq, !.updated = now, !.row = TRUE, !.active = active,
                    !.pinned = pinned]
  BY DEF ImportLeaf
<1> HIDE DEF g, seq, active, pinned
<1>5. /\ g \in LeafFacts(Keys) /\ g.leaf = f.leaf /\ g.size = f.size
      /\ g.seq = seq /\ g.row = TRUE /\ g.active = active /\ g.pinned = pinned
  BY <1>1, <1>3, <1>4 DEF LeafFacts
<1> QED BY <1>5 DEF Takes, g, seq, active, pinned

(* And of a memory.                                                        *)
Afterwards(m, lines, now, after) ==
  /\ DOMAIN after = DOMAIN m
  /\ \A i \in DOMAIN m : after[i] = IF m[i].there THEN ImportLeaf(m[i], lines, now) ELSE m[i]

(* That is what it does, and the result is such a memory again.            *)
LEMMA ImportedIs ==
  ASSUME NEW Keys, NEW m \in Seq(LeafFacts(Keys)), OnceEach(m), NEW lines, DOMAIN lines \subseteq Int,
         NEW now \in Int
  PROVE  /\ Imported(m, lines, now) \in Seq(LeafFacts(Keys))
         /\ OnceEach(Imported(m, lines, now))
         /\ Afterwards(m, lines, now, Imported(m, lines, now))
<1> DEFINE after == Imported(m, lines, now)
<1>1. /\ DOMAIN after = DOMAIN m
      /\ \A i \in DOMAIN m : after[i] = IF m[i].there THEN ImportLeaf(m[i], lines, now) ELSE m[i]
  BY DEF Imported
<1>2. ASSUME NEW i \in DOMAIN m PROVE after[i] \in LeafFacts(Keys) /\ after[i].leaf = m[i].leaf
  <2>1. m[i] \in LeafFacts(Keys)
    OBVIOUS
  <2>2. CASE m[i].there
    <3>1. /\ ImportLeaf(m[i], lines, now) \in LeafFacts(Keys)
          /\ Takes(m[i], lines, ImportLeaf(m[i], lines, now))
      BY <2>1, ImportLeafIs
    <3> QED BY <1>1, <2>2, <3>1 DEF Takes
  <2>3. CASE ~m[i].there
    BY <1>1, <2>1, <2>3
  <2> QED BY <2>2, <2>3
<1>3. after = [i \in DOMAIN m |-> after[i]]
  BY <1>1 DEF Imported
<1> HIDE DEF after
<1>4. DOMAIN m = 1 .. Len(m) /\ Len(m) \in Nat
  OBVIOUS
<1>5. after \in [1 .. Len(m) -> LeafFacts(Keys)]
  BY <1>2, <1>3, <1>4
<1>6. after \in Seq(LeafFacts(Keys))
  BY <1>4, <1>5
<1>7. OnceEach(after)
  BY <1>1, <1>2, Zenon DEF OnceEach
<1> QED BY <1>1, <1>6, <1>7 DEF Afterwards, after

(* Its row and pin are kept.                                               *)
LEMMA ImportKeeps ==
  ASSUME NEW Keys, NEW f \in LeafFacts(Keys), f.row, NEW lines, DOMAIN lines \subseteq Int, NEW now \in Int,
         NEW g, g = IF f.there THEN ImportLeaf(f, lines, now) ELSE f
  PROVE  g.active = f.active /\ g.pinned >= f.pinned
<1>1. f.pinned \in {0, 1} /\ f.pins \in BOOLEAN
  BY DEF LeafFacts
<1>2. CASE f.there
  <2>1. g.active = f.active /\ g.pinned = MaxPinned(f.pinned, f.pins)
    <3>1. Takes(f, lines, ImportLeaf(f, lines, now))
      BY ImportLeafIs
    <3> QED BY <1>2, <3>1 DEF Takes
  <2> QED BY <1>1, <2>1 DEF MaxPinned
<1>3. CASE ~f.there
  <2>1. g = f
    BY <1>3
  <2> QED BY <1>1, <2>1
<1> QED BY <1>2, <1>3

(* Every leaf is there with its row, and no pinned one was left out.       *)
Whole(m, lines) ==
  \A i \in DOMAIN m :
    /\ m[i].there /\ m[i].row
    /\ (m[i].pinned = 1 \/ m[i].pins) /\ m[i].active => m[i].leaf \in ToSet(lines)

(* After the import, the same leaves are candidates.                       *)
Stay(m, s, after) ==
  /\ Selected(after) = Selected(m)
  /\ \A i \in Selected(m) :
       /\ i \in DOMAIN m /\ after[i].leaf = m[i].leaf /\ after[i].size = m[i].size
       /\ after[i].seq = parse_index(Index(m), m[i].leaf)
       /\ candidate(after[i], FALSE) <=> \E k \in DOMAIN s : s[k] = m[i]

(* That is what SameIndex asks of them.                                    *)
LEMMA SameCandidates ==
  ASSUME NEW Keys, NEW m \in Seq(LeafFacts(Keys)), OnceEach(m), Room \in Nat, Lines \in Nat,
         NEW now \in Int, NEW s, s = Shown(m, Selected(m), FALSE, Sizes(m)),
         Whole(m, Index(m)), NEW after, after = Imported(m, Index(m), now)
  PROVE  Stay(m, s, after)
<1> DEFINE lines == Index(m)
<1>1. /\ Len(s) \in Nat /\ DOMAIN s = 1 .. Len(s)
      /\ \A k \in DOMAIN s : \E i \in Selected(m) : s[k] = m[i] /\ candidate(m[i], FALSE)
      /\ lines = [k \in DOMAIN s |-> s[k].leaf]
  <2>1. IndexOK(m, s)
    BY IndexIs
  <2> QED BY <2>1 DEF IndexOK
<1> HIDE DEF lines
<1>2. DOMAIN lines = DOMAIN s /\ DOMAIN lines \subseteq Int /\ \A k \in DOMAIN s : lines[k] = s[k].leaf
  <2>1. DOMAIN s \subseteq Int
    <3>1. DOMAIN s = 1 .. Len(s)
      BY <1>1
    <3>2. \A k \in 1 .. Len(s) : k \in Int
      OBVIOUS
    <3> QED BY <3>1, <3>2, Zenon
  <2>2. DOMAIN lines = DOMAIN s /\ \A k \in DOMAIN s : lines[k] = s[k].leaf
    BY <1>1, Zenon
  <2> QED BY <2>1, <2>2
<1>3. /\ DOMAIN after = DOMAIN m
      /\ \A i \in DOMAIN m : after[i] = IF m[i].there THEN ImportLeaf(m[i], lines, now) ELSE m[i]
  <2>1. Afterwards(m, lines, now, Imported(m, lines, now))
    BY <1>2, ImportedIs
  <2> QED BY <2>1 DEF Afterwards, lines
<1>4. ASSUME NEW i \in DOMAIN m
      PROVE  /\ after[i].leaf = m[i].leaf /\ after[i].size = m[i].size
             /\ after[i].seq = parse_index(lines, m[i].leaf)
             /\ after[i].row = TRUE /\ after[i].active = m[i].active
             /\ after[i].pinned = MaxPinned(m[i].pinned, m[i].pins)
             /\ m[i].row
  <2>1. m[i].there /\ m[i].row
    BY DEF Whole
  <2>2. after[i] = ImportLeaf(m[i], lines, now) /\ m[i] \in LeafFacts(Keys)
    BY <1>3, <2>1
  <2>3. Takes(m[i], lines, ImportLeaf(m[i], lines, now))
    BY <1>2, <2>2, ImportLeafIs
  <2> QED BY <2>1, <2>2, <2>3 DEF Takes
<1>5. Selected(after) = Selected(m)
  BY <1>3, <1>4 DEF Selected
<1>6. ASSUME NEW i \in Selected(m)
      PROVE  candidate(after[i], FALSE) <=> \E k \in DOMAIN s : s[k] = m[i]
  <2>1. i \in DOMAIN m /\ m[i].active
    BY DEF Selected
  <2>2. ASSUME m[i].leaf \in ToSet(lines) PROVE \E k \in DOMAIN s : s[k] = m[i]
    <3>1. PICK k \in DOMAIN s : s[k].leaf = m[i].leaf
      BY <1>2, <2>2 DEF ToSet
    <3>2. PICK j \in Selected(m) : s[k] = m[j]
      BY <1>1
    <3>3. j \in DOMAIN m
      BY DEF Selected
    <3>4. j = i
      BY <2>1, <3>1, <3>2, <3>3 DEF OnceEach
    <3> QED BY <3>2, <3>4
  <2>3. after[i].seq # <<>> <=> m[i].leaf \in ToSet(lines)
    <3>1. after[i].seq = parse_index(lines, m[i].leaf)
      BY <1>4, <2>1
    <3>2. m[i].leaf \in ToSet(lines) <=> \E k \in DOMAIN lines : lines[k] = m[i].leaf
      BY DEF ToSet
    <3>3. <<(CHOOSE k \in DOMAIN lines : lines[k] = m[i].leaf) - 1>> # <<>>
      OBVIOUS
    <3> QED BY <3>1, <3>2, <3>3, Zenon DEF parse_index
  <2>4. after[i].pinned # 0 => m[i].leaf \in ToSet(lines)
    <3>1. m[i].pinned \in {0, 1} /\ after[i].pinned = MaxPinned(m[i].pinned, m[i].pins)
      <4>1. m[i] \in LeafFacts(Keys)
        BY <2>1
      <4> QED BY <1>4, <2>1, <4>1 DEF LeafFacts
    <3>2. after[i].pinned # 0 => m[i].pinned = 1 \/ m[i].pins
      BY <3>1 DEF MaxPinned
    <3> QED BY <2>1, <3>2, Zenon DEF Whole, lines
  <2>5. ASSUME NEW k \in DOMAIN s, s[k] = m[i] PROVE m[i].leaf \in ToSet(lines)
    <3>1. lines[k] = m[i].leaf /\ k \in DOMAIN lines
      BY <1>2, <2>5
    <3> QED BY <3>1, Zenon DEF ToSet
  <2>6. candidate(after[i], FALSE) <=> after[i].seq # <<>> \/ after[i].pinned # 0
    BY DEF candidate
  <2> QED BY <2>2, <2>3, <2>4, <2>5, <2>6
<1>7. \A i \in Selected(m) : i \in DOMAIN m
  BY DEF Selected
<1> QED BY <1>4, <1>5, <1>6, <1>7 DEF lines, Stay

(* Generating again gives the same lines in the same order.                *)
LEMMA SameLines ==
  ASSUME NEW Keys, NEW m \in Seq(LeafFacts(Keys)), OnceEach(m), Room \in Nat, Lines \in Nat,
         NEW now \in Int, Whole(m, Index(m))
  PROVE  Index(Imported(m, Index(m), now)) = Index(m)
<1> DEFINE lines == Index(m)
           after == Imported(m, lines, now)
           of == Selected(m)
           sz1 == Sizes(m)
           sz2 == Sizes(after)
           s == Shown(m, of, FALSE, sz1)
           t == Shown(after, Selected(after), FALSE, sz2)
<1>1. IndexOK(m, s)
  BY IndexIs
<1>2. /\ Selected(after) = of
      /\ \A i \in of :
           /\ i \in DOMAIN m /\ after[i].leaf = m[i].leaf /\ after[i].size = m[i].size
           /\ after[i].seq = parse_index(lines, m[i].leaf)
           /\ candidate(after[i], FALSE) <=> \E k \in DOMAIN s : s[k] = m[i]
  <2>1. Stay(m, s, after)
    BY SameCandidates
  <2> QED BY <2>1, Zenon DEF Stay
<1>3. /\ Len(s) \in Nat /\ DOMAIN s = 1 .. Len(s)
      /\ Cardinality(Bytes(ToSet(s), sz1)) <= Room /\ Len(s) <= Lines
      /\ Len(s) = Cardinality(ToSet(s))
      /\ IsFiniteSet(ToSet(s)) /\ IsFiniteSet(Bytes(ToSet(s), sz1))
      /\ \A i, j \in DOMAIN s : s[i] = s[j] => i = j
      /\ \A k \in DOMAIN s : \E i \in of : s[k] = m[i]
      /\ lines = [k \in DOMAIN s |-> s[k].leaf]
  <2>1. Cardinality(Bytes(ToSet(s), sz1)) <= Room /\ Len(s) <= Lines
    BY <1>1, Zenon DEF IndexOK, BestFirst
  <2> QED BY <1>1, <2>1, Zenon DEF IndexOK
<1>4. \A k \in DOMAIN s : k \in Int
  <2>1. DOMAIN s = 1 .. Len(s)
    BY <1>3
  <2>2. \A k \in 1 .. Len(s) : k \in Int
    OBVIOUS
  <2> HIDE DEF s
  <2> QED BY <2>1, <2>2, Zenon
<1>5. after \in Seq(LeafFacts(Keys)) /\ OnceEach(after) /\ DOMAIN after = DOMAIN m
  <2>1. DOMAIN lines \subseteq Int
    BY <1>3, <1>4
  <2> HIDE DEF lines
  <2> QED BY <2>1, ImportedIs DEF Afterwards
<1>6. IndexOK(after, t)
  <2> HIDE DEF after
  <2> QED BY <1>5, IndexIs
<1>7. \A i \in of : after[i] \in ToSet(after) /\ m[i] \in ToSet(m)
  BY <1>2, <1>5, Zenon DEF ToSet
<1>8. \A i \in of : sz2[after[i]] = after[i].size /\ sz1[m[i]] = m[i].size
  BY <1>7, Zenon DEF Sizes
<1> DEFINE W == {f \in {after[i] : i \in of} : candidate(f, FALSE)}
<1>9. /\ Len(t) \in Nat /\ DOMAIN t = 1 .. Len(t)
      /\ Len(t) = Cardinality(ToSet(t))
      /\ IsFiniteSet(ToSet(t)) /\ IsFiniteSet(Bytes(ToSet(t), sz2))
      /\ \A i, j \in DOMAIN t : t[i] = t[j] => i = j
      /\ Index(after) = [k \in DOMAIN t |-> t[k].leaf]
  BY <1>6, Zenon DEF IndexOK
<1>10. /\ ToSet(t) \subseteq W
       /\ \A f \in W \ ToSet(t) : \E D \in SUBSET ToSet(t) :
            \/ Cardinality(Bytes(D, sz2)) + sz2[f] > Room
            \/ Cardinality(D) >= Lines
       /\ \A i, j \in DOMAIN t : i < j => ~ShownBefore(t[j], t[i])
  <2>1. BestFirst(after, of, FALSE, sz2) /\ t = Shown(after, of, FALSE, sz2)
    BY <1>2, <1>6, Zenon DEF IndexOK
  <2> HIDE DEF t, after
  <2>2. ASSUME NEW f \in W \ ToSet(t)
        PROVE  \E D \in SUBSET ToSet(t) :
                 \/ Cardinality(Bytes(D, sz2)) + sz2[f] > Room
                 \/ Cardinality(D) >= Lines
    <3> DEFINE D == {g \in ToSet(t) : Better(g, f)}
                      \cup {g \in ToSet(t) : ~Better(g, f) /\ ~Better(f, g)}
    <3>1. \/ Cardinality(Bytes(D, sz2)) + sz2[f] > Room
          \/ Cardinality(D) >= Lines
      BY <2>1, <2>2, Zenon DEF BestFirst
    <3>2. D \in SUBSET ToSet(t)
      OBVIOUS
    <3> HIDE DEF D
    <3> QED BY <3>1, <3>2
  <2>3. ToSet(t) \subseteq W /\ \A i, j \in DOMAIN t : i < j => ~ShownBefore(t[j], t[i])
    BY <2>1, Zenon DEF BestFirst
  <2> QED BY <2>2, <2>3
<1> HIDE DEF sz1, sz2, s, t, of, lines, after
<1>11. \A i, j \in of : m[i].leaf = m[j].leaf => i = j
  BY <1>2 DEF OnceEach
<1> DEFINE to == [f \in W |-> CHOOSE g \in ToSet(s) : g.leaf = f.leaf]
<1>12. ASSUME NEW i \in of, after[i] \in W
       PROVE  m[i] \in ToSet(s) /\ to[after[i]] = m[i]
  <2>1. PICK k \in DOMAIN s : s[k] = m[i]
    BY <1>2, <1>12
  <2>2. m[i] \in ToSet(s)
    BY <2>1, Zenon DEF ToSet
  <2>3. ASSUME NEW g \in ToSet(s), g.leaf = after[i].leaf PROVE g = m[i]
    <3>1. PICK l \in DOMAIN s : g = s[l]
      BY DEF ToSet
    <3>2. PICK j \in of : g = m[j]
      BY <1>3, <3>1
    <3>3. j = i
      BY <1>2, <1>11, <2>3, <3>2
    <3> QED BY <3>2, <3>3
  <2>4. m[i].leaf = after[i].leaf
    BY <1>2
  <2>5. to[after[i]] = CHOOSE g \in ToSet(s) : g.leaf = after[i].leaf
    BY <1>12
  <2>6. to[after[i]] = m[i]
    <3> HIDE DEF to
    <3> QED BY <2>2, <2>3, <2>4, <2>5, Zenon
  <2> QED BY <2>2, <2>6
<1>13. \A f \in W : \E i \in of : f = after[i]
  OBVIOUS
<1>14. \A i \in of : after[i] \in W <=> \E k \in DOMAIN s : s[k] = m[i]
  BY <1>2, Zenon
<1> HIDE DEF W
<1>15. to \in [W -> ToSet(s)]
  <2>1. ASSUME NEW f \in W PROVE to[f] \in ToSet(s)
    <3> HIDE DEF to
    <3>1. PICK i \in of : f = after[i]
      BY <1>13
    <3> QED BY <1>12, <3>1
  <2>2. to = [f \in W |-> to[f]]
    OBVIOUS
  <2> HIDE DEF to
  <2> QED BY <2>1, <2>2
<1> HIDE DEF to
<1>16. \A f, g \in W : to[f] = to[g] => f = g
  <2> TAKE f \in W, g \in W
  <2> HAVE to[f] = to[g]
  <2>1. PICK i \in of, j \in of : f = after[i] /\ g = after[j]
    BY <1>13
  <2>2. m[i] = m[j]
    BY <1>12, <2>1
  <2>3. i = j
    BY <1>11, <2>2
  <2> QED BY <2>1, <2>3
<1>17. \A f \in W : sz2[f] = sz1[to[f]]
  <2> TAKE f \in W
  <2>1. PICK i \in of : f = after[i]
    BY <1>13
  <2>2. to[f] = m[i]
    BY <1>12, <2>1
  <2> QED BY <1>2, <1>8, <2>1, <2>2
<1>18. /\ IsFiniteSet(W) /\ Cardinality(W) <= Cardinality(ToSet(s))
       /\ IsFiniteSet(Bytes(W, sz2))
       /\ Cardinality(Bytes(W, sz2)) <= Cardinality(Bytes(ToSet(s), sz1))
  BY <1>3, <1>15, <1>16, <1>17, SameBytes, Zenon
<1>19. ToSet(t) = W
  <2> SUFFICES ASSUME NEW f \in W \ ToSet(t) PROVE FALSE
    BY <1>10
  <2>1. PICK D \in SUBSET ToSet(t) : \/ Cardinality(Bytes(D, sz2)) + sz2[f] > Room
                                     \/ Cardinality(D) >= Lines
    BY <1>10
  <2>2. f \notin D /\ D \cup {f} \in SUBSET W
    BY <1>10, <2>1
  <2>3. IsFiniteSet(D) /\ IsFiniteSet(Bytes(D, sz2))
    <3>1. D \in SUBSET W
      BY <2>2
    <3> QED BY <1>18, <3>1, FS_Subset, BytesLess
  <2>4. sz2[f] \in Nat
    <3>1. PICK i \in of : f = after[i]
      BY <1>13
    <3>2. sz2[f] = m[i].size /\ i \in DOMAIN m
      BY <1>2, <1>8, <3>1
    <3>3. m[i] \in LeafFacts(Keys)
      BY <3>2
    <3> QED BY <3>2, <3>3 DEF LeafFacts
  <2>5. /\ Cardinality(Bytes(D, sz2)) \in Nat
        /\ Cardinality(Bytes(D \cup {f}, sz2)) = Cardinality(Bytes(D, sz2)) + sz2[f]
    BY <2>2, <2>3, <2>4, BytesAdd, Zenon
  <2>6. Cardinality(D \cup {f}) = Cardinality(D) + 1 /\ Cardinality(D) \in Nat
    BY <2>2, <2>3, FS_AddElement, FS_CardinalityType
  <2>7. Cardinality(Bytes(D \cup {f}, sz2)) <= Cardinality(Bytes(W, sz2)) /\ Cardinality(Bytes(W, sz2)) \in Nat
    BY <1>18, <2>2, BytesLess
  <2>8. Cardinality(D \cup {f}) <= Cardinality(W) /\ Cardinality(W) \in Nat
    BY <1>18, <2>2, FS_Subset, FS_CardinalityType
  <2>9. /\ Cardinality(Bytes(ToSet(s), sz1)) \in Nat /\ Cardinality(ToSet(s)) \in Nat
    BY <1>3, FS_CardinalityType
  <2>10. PICK a \in Nat, b \in Nat, c \in Nat, d \in Nat :
           /\ a = Cardinality(Bytes(D, sz2)) /\ b = Cardinality(Bytes(W, sz2))
           /\ c = sz2[f] /\ d = Cardinality(Bytes(ToSet(s), sz1))
    BY <2>4, <2>5, <2>7, <2>9
  <2>11. a + c <= b /\ b <= d /\ d <= Room
    BY <1>3, <1>18, <2>5, <2>7, <2>10
  <2>12. PICK u \in Nat, v \in Nat, w \in Nat :
           u = Cardinality(D) /\ v = Cardinality(W) /\ w = Cardinality(ToSet(s))
    BY <2>6, <2>8, <2>9
  <2>13. u + 1 <= v /\ v <= w /\ w <= Lines
    BY <1>3, <1>18, <2>6, <2>8, <2>12
  <2>14. a + c > Room \/ u >= Lines
    BY <2>1, <2>10, <2>12
  <2> QED BY <2>11, <2>13, <2>14, SMT
<1>20. Len(t) = Len(s)
  <2>1. \A g \in ToSet(s) : \E f \in W : to[f] = g
    <3> TAKE g \in ToSet(s)
    <3>1. PICK k \in DOMAIN s : g = s[k]
      BY DEF ToSet
    <3>2. PICK i \in of : s[k] = m[i]
      BY <1>3
    <3>3. after[i] \in W
      BY <1>14, <3>2
    <3> QED BY <1>12, <3>1, <3>2, <3>3
  <2>2. to \in Surjection(W, ToSet(s))
    BY <1>15, <2>1 DEF Surjection
  <2>3. Cardinality(ToSet(s)) <= Cardinality(W)
    BY <1>18, <2>2, FS_Surjection
  <2>4. Cardinality(ToSet(s)) \in Nat /\ Cardinality(W) \in Nat
    BY <1>3, <1>18, FS_CardinalityType
  <2>5. Cardinality(ToSet(s)) = Cardinality(W)
    BY <1>18, <2>3, <2>4, SMT
  <2> QED BY <1>3, <1>9, <1>19, <2>5
<1> DEFINE n == Len(s)
           pos == [k \in 1 .. n |-> CHOOSE j \in DOMAIN lines : lines[j] = t[k].leaf]
<1>21. n \in Nat /\ DOMAIN s = 1 .. n /\ DOMAIN t = 1 .. n /\ DOMAIN lines = 1 .. n
  BY <1>3, <1>9, <1>20
<1> HIDE DEF n
<1>22. ASSUME NEW k \in 1 .. n
       PROVE  /\ pos[k] \in 1 .. n /\ lines[pos[k]] = t[k].leaf
              /\ t[k].seq = <<pos[k] - 1>>
              /\ \E i \in of : t[k] = after[i]
  <2>1. t[k] \in W
    BY <1>19, <1>21, Zenon DEF ToSet
  <2>2. PICK i \in of : t[k] = after[i]
    BY <1>13, <2>1
  <2>3. PICK l \in DOMAIN s : s[l] = m[i]
    BY <1>14, <2>1, <2>2
  <2>4. lines[l] = m[i].leaf /\ l \in DOMAIN lines
    BY <1>3, <2>3
  <2>5. t[k].leaf = m[i].leaf /\ t[k].seq = parse_index(lines, m[i].leaf)
    BY <1>2, <2>2
  <2>6. pos[k] = CHOOSE j \in DOMAIN lines : lines[j] = t[k].leaf
    OBVIOUS
  <2> HIDE DEF pos
  <2>7. pos[k] \in DOMAIN lines /\ lines[pos[k]] = t[k].leaf
    BY <2>4, <2>5, <2>6, Zenon
  <2>8. t[k].seq = <<pos[k] - 1>>
    <3>1. \E j \in DOMAIN lines : lines[j] = t[k].leaf
      BY <2>7
    <3> QED BY <2>5, <2>6, <3>1, Zenon DEF parse_index
  <2> QED BY <1>21, <2>2, <2>7, <2>8
<1> HIDE DEF pos
<1>23. \A k, l \in 1 .. n : k < l => pos[k] < pos[l]
  <2> TAKE k \in 1 .. n, l \in 1 .. n
  <2> HAVE k < l
  <2>1. ~ShownBefore(t[l], t[k])
    BY <1>10, <1>21
  <2>2. PICK a \in 1 .. n, b \in 1 .. n : a = pos[k] /\ b = pos[l]
    BY <1>22
  <2>3. /\ t[k].seq = <<a - 1>> /\ t[l].seq = <<b - 1>>
        /\ lines[a] = t[k].leaf /\ lines[b] = t[l].leaf
    BY <1>22, <2>2
  <2>4. t[l].seq # <<>> /\ t[k].seq[1] = a - 1 /\ t[l].seq[1] = b - 1
    BY <2>3
  <2>5. ~(b - 1 < a - 1)
    BY <2>1, <2>4 DEF ShownBefore
  <2>6. a # b
    <3> SUFFICES ASSUME a = b PROVE FALSE
      OBVIOUS
    <3>1. PICK i \in of, j \in of : t[k] = after[i] /\ t[l] = after[j]
      BY <1>22
    <3>2. m[i].leaf = m[j].leaf
      BY <1>2, <2>3, <3>1
    <3>3. t[k] = t[l]
      BY <1>11, <3>1, <3>2
    <3>4. k = l
      BY <1>9, <1>21, <3>3
    <3> QED BY <1>21, <3>4, SMT
  <2> QED BY <1>21, <2>2, <2>5, <2>6, SMT
<1>24. \A k \in 1 .. n : pos[k] = k
  <2>1. \A k \in 1 .. n : pos[k] \in 1 .. n
    BY <1>22
  <2> QED BY <1>21, <1>23, <2>1, GoingUp
<1>25. \A k \in 1 .. n : t[k].leaf = lines[k]
  BY <1>22, <1>24
<1>26. \A k \in 1 .. n : lines[k] = s[k].leaf
  BY <1>3, <1>21, Zenon
<1>27. [k \in 1 .. n |-> t[k].leaf] = [k \in 1 .. n |-> s[k].leaf]
  BY <1>25, <1>26, Zenon
<1>28. Index(after) = lines
  BY <1>3, <1>9, <1>21, <1>27
<1> QED BY <1>28 DEF after, lines

-----------------------------------------------------------------------------
(* What lines joined one after another make: a function of how many.       *)
Joins(lines, g, n) ==
  g = [i \in 1 .. n |-> IF i = 1 THEN lines[i] ELSE g[i - 1] \o lines[i]]

(* There is one.                                                           *)
LEMMA JoinsExist ==
  ASSUME NEW lines, NEW n \in Nat
  PROVE  \E g : Joins(lines, g, n)
<1> DEFINE Missing == {m \in Nat : ~\E g : Joins(lines, g, m)}
<1> SUFFICES ASSUME Missing # {} PROVE FALSE
  OBVIOUS
<1>1. Missing \in SUBSET Nat
  OBVIOUS
<1>2. PICK m \in Missing : \A y \in Missing : ~(y < m)
  <2> HIDE DEF Missing
  <2> QED BY <1>1, LeastExists
<1>3. m \in Nat /\ ~\E g : Joins(lines, g, m)
  BY <1>2
<1>4. m # 0
  <2> SUFFICES ASSUME m = 0 PROVE FALSE
    OBVIOUS
  <2> DEFINE g == [i \in 1 .. 0 |-> lines[i]]
  <2>1. 1 .. 0 = {}
    BY SMT
  <2>2. g = [i \in 1 .. 0 |-> IF i = 1 THEN lines[i] ELSE g[i - 1] \o lines[i]]
    BY <2>1
  <2> QED BY <1>3, <2>2, Zenon DEF Joins
<1>5. m - 1 \in Nat /\ m - 1 < m
  BY <1>3, <1>4, SMT
<1>6. PICK h : Joins(lines, h, m - 1)
  BY <1>2, <1>5
<1> DEFINE g == [i \in 1 .. m |-> IF i = m THEN IF m = 1 THEN lines[m] ELSE h[m - 1] \o lines[m]
                                  ELSE h[i]]
<1>7. \A i \in 1 .. m : g[i] = IF i = 1 THEN lines[i] ELSE g[i - 1] \o lines[i]
  <2> TAKE i \in 1 .. m
  <2>1. CASE i = m
    <3>1. CASE m = 1
      BY <2>1, <3>1
    <3>2. CASE m # 1
      <4>1. i - 1 \in 1 .. m /\ i - 1 # m /\ i # 1
        BY <1>3, <1>4, <2>1, <3>2, SMT
      <4>2. g[i - 1] = h[m - 1] /\ g[i] = h[m - 1] \o lines[m]
        BY <2>1, <3>2, <4>1
      <4> QED BY <2>1, <4>1, <4>2
    <3> QED BY <3>1, <3>2
  <2>2. CASE i # m
    <3>1. i \in 1 .. m - 1
      BY <1>3, <2>2, SMT
    <3>2. h[i] = IF i = 1 THEN lines[i] ELSE h[i - 1] \o lines[i]
      BY <1>6, <3>1, Zenon DEF Joins
    <3>3. g[i] = h[i]
      BY <2>2
    <3>4. i # 1 => g[i - 1] = h[i - 1]
      <4> SUFFICES ASSUME i # 1 PROVE g[i - 1] = h[i - 1]
        OBVIOUS
      <4>1. i - 1 \in 1 .. m /\ i - 1 # m
        BY <1>3, <2>2, SMT
      <4> QED BY <4>1
    <3> QED BY <3>2, <3>3, <3>4
  <2> QED BY <2>1, <2>2
<1>8. g = [i \in 1 .. m |-> g[i]]
  OBVIOUS
<1>9. Joins(lines, g, m)
  <2> HIDE DEF g
  <2> QED BY <1>7, <1>8, Zenon DEF Joins
<1> QED BY <1>3, <1>9

(* The lines of n different facts, each as long as size says.              *)
LinesOf(P, n, shown, size, lines) ==
  /\ lines = [i \in 1 .. n |-> lines[i]]
  /\ \A i \in 1 .. n : /\ lines[i] \in Seq(P) /\ Len(lines[i]) = size[shown[i]]
                       /\ size[shown[i]] \in Nat
  /\ \A i, j \in 1 .. n : shown[i] = shown[j] => i = j

(* One line more takes the bytes of one fact more.                         *)
JoinOK(P, S, size, all) ==
  all \in Seq(P) /\ IsFiniteSet(Bytes(S, size)) /\ Len(all) = Cardinality(Bytes(S, size))

(* Joining a line keeps that.                                              *)
LEMMA JoinStep ==
  ASSUME NEW P, NEW size, NEW S, NEW f, f \notin S, size[f] \in Nat, NEW all,
         JoinOK(P, S, size, all), NEW line, line \in Seq(P) /\ Len(line) = size[f]
  PROVE  JoinOK(P, S \cup {f}, size, all \o line)
<1>1. all \in Seq(P) /\ IsFiniteSet(Bytes(S, size)) /\ Len(all) = Cardinality(Bytes(S, size))
  BY DEF JoinOK
<1>2. /\ IsFiniteSet(Bytes(S \cup {f}, size))
      /\ Cardinality(Bytes(S \cup {f}, size)) = Cardinality(Bytes(S, size)) + size[f]
  <2>1. IsFiniteSet(Bytes(S, size))
    BY <1>1
  <2> QED BY <2>1, BytesAdd, ZenonT(60)
<1>3. all \o line \in Seq(P) /\ Len(all \o line) = Len(all) + Len(line)
  BY <1>1
<1> QED BY <1>1, <1>2, <1>3 DEF JoinOK

(* Joined they take the bytes of those facts.                              *)
LEMMA JoinedLines ==
  ASSUME NEW P, NEW n \in Nat, NEW shown, NEW size, NEW lines, LinesOf(P, n, shown, size, lines)
  PROVE  JoinOK(P, {shown[i] : i \in 1 .. n}, size, FlattenSeq(lines))
<1> DEFINE some(k) == {shown[i] : i \in 1 .. k}
<1>1. lines \in Seq(Seq(P)) /\ Len(lines) = n
  <2>1. lines \in [1 .. n -> Seq(P)]
    <3>1. \A i \in 1 .. n : lines[i] \in Seq(P)
      BY DEF LinesOf
    <3>2. lines = [i \in 1 .. n |-> lines[i]]
      BY DEF LinesOf
    <3> QED BY <3>1, <3>2
  <2> QED BY <2>1
<1>2. JoinOK(P, {}, size, <<>>)
  <2>1. IsFiniteSet({}) /\ Cardinality({}) = 0
    BY FS_EmptySet
  <2>2. <<>> \in Seq(P) /\ Len(<<>>) = 0
    OBVIOUS
  <2> QED BY <2>1, <2>2, BytesOfNone DEF JoinOK
<1>3. CASE n = 0
  <2>1. FlattenSeq(lines) = lines
    BY <1>1, <1>3 DEF FlattenSeq
  <2>2. lines = <<>>
    BY <1>1, <1>3
  <2>3. 1 .. n = {}
    BY <1>3, SMT
  <2>4. some(n) = {}
    BY <2>3
  <2> QED BY <1>2, <2>1, <2>2, <2>4
<1>4. CASE n # 0
  <2> DEFINE J(g) == g = [i \in 1 .. Len(lines) |-> IF i = 1 THEN lines[i] ELSE g[i - 1] \o lines[i]]
             h == CHOOSE g : J(g)
  <2>1. \E g : J(g)
    BY <1>1, JoinsExist, Zenon DEF Joins
  <2>2. FlattenSeq(lines) = h[n]
    BY <1>1, <1>4 DEF FlattenSeq
  <2>3. Joins(lines, h, n)
    <3>1. J(h)
      <4> HIDE DEF J
      <4> QED BY <2>1
    <3> HIDE DEF h
    <3> QED BY <1>1, <3>1 DEF Joins
  <2> HIDE DEF h, J
  <2> DEFINE Wrong == {k \in 1 .. n : ~JoinOK(P, some(k), size, h[k])}
  <2>4. Wrong = {}
    <3> SUFFICES ASSUME Wrong # {} PROVE FALSE
      OBVIOUS
    <3>1. Wrong \in SUBSET Nat
      BY SMT
    <3>2. PICK k \in Wrong : \A y \in Wrong : ~(y < k)
      <4> HIDE DEF Wrong
      <4> QED BY <3>1, LeastExists
    <3>3. k \in 1 .. n /\ ~JoinOK(P, some(k), size, h[k])
      BY <3>2
    <3>4. h[k] = IF k = 1 THEN lines[k] ELSE h[k - 1] \o lines[k]
      BY <2>3, <3>3, Zenon DEF Joins
    <3>5. size[shown[k]] \in Nat /\ lines[k] \in Seq(P) /\ Len(lines[k]) = size[shown[k]]
      BY <3>3 DEF LinesOf
    <3>6. CASE k = 1
      <4>1. 1 .. 1 = {1}
        BY SMT
      <4>2. some(k) = {} \cup {shown[k]}
        BY <3>6, <4>1
      <4>3. JoinOK(P, {} \cup {shown[k]}, size, <<>> \o lines[k])
        BY <1>2, <3>5, JoinStep, Zenon
      <4>4. <<>> \o lines[k] = lines[k]
        BY <3>5
      <4> QED BY <3>3, <3>4, <3>6, <4>2, <4>3, <4>4
    <3>7. CASE k # 1
      <4>1. 1 .. k = (1 .. k - 1) \cup {k} /\ \A i \in 1 .. k - 1 : i \in 1 .. n /\ i # k
        BY <3>3, <3>7, SMT
      <4>2. some(k) = some(k - 1) \cup {shown[k]}
        BY <4>1
      <4>3. \A i \in 1 .. k - 1 : shown[i] # shown[k]
        BY <3>3, <4>1 DEF LinesOf
      <4>4. shown[k] \notin some(k - 1)
        BY <4>3
      <4>5. k - 1 \in 1 .. n /\ k - 1 < k
        BY <3>3, <3>7, SMT
      <4>6. JoinOK(P, some(k - 1), size, h[k - 1])
        BY <3>2, <4>5
      <4> HIDE DEF some
      <4>7. JoinOK(P, some(k - 1) \cup {shown[k]}, size, h[k - 1] \o lines[k])
        BY <3>5, <4>4, <4>6, JoinStep, Zenon
      <4> QED BY <3>3, <3>4, <3>7, <4>2, <4>7
    <3> QED BY <3>6, <3>7
  <2>5. n \in 1 .. n
    BY <1>4, SMT
  <2>6. JoinOK(P, some(n), size, h[n])
    BY <2>4, <2>5
  <2> QED BY <2>2, <2>6
<1> QED BY <1>3, <1>4

-----------------------------------------------------------------------------
(* MEMORY.md as lanes write it: pieces of lines, as many as fit; what a    *)
(* lane is about to write is such a file too.                              *)
Piece      == Leaves \X Hook \X (1 .. 2)
BodyOK(b)  == b \in Seq(Piece) /\ Len(b) <= Room
FilesOK    == /\ BodyOK(index)
              /\ \A p \in Procs : proc[p].at \in {"open", "write"} => BodyOK(proc[p].body)

(* An index made from the rows fits: the lines of the facts that fit, in   *)
(* any order, take the bytes of those facts.                               *)
LEMMA BodyFits ==
  ASSUME RowsOK, NEW order \in Orders
  PROVE  BodyOK(Body(order))
<1> DEFINE size == [l \in Active |-> LineSize(l)]
           fits == Fitting(order, size)
           R == {p \in (DOMAIN fits) \X (DOMAIN fits) : row[fits[p[1]]].seq < row[fits[p[2]]].seq}
           shown == StableSort(fits, DOMAIN fits, R)
           lines == [i \in DOMAIN shown |-> Line(shown[i])]
<1>1. Room \in Nat /\ Lines \in Nat
  BY FactsAssumption DEF FactsAssumption
<1>2. Active \subseteq Stored /\ Stored \subseteq Leaves
  BY DEF Active, Stored
<1>3. PICK n \in Nat : n = Cardinality(Active)
  BY <1>2, StoredFinite, FS_Subset, FS_CardinalityType
<1>4. order \in [1 .. n -> Active] /\ \A i, j \in 1 .. n : i # j => order[i] # order[j]
  BY <1>3 DEF Orders, SetToSeqs
<1>5. \A l \in Active : size[l] \in Nat /\ size[l] = LineSize(l)
  BY DEF LineSize
<1> HIDE DEF size
<1>6. Len(order) = n /\ Lined(order, size)
  <2>1. DOMAIN order = 1 .. n /\ Len(order) = n
    BY <1>4
  <2>2. \A i \in 1 .. n : order[i] \in Active
    BY <1>4
  <2> QED BY <1>4, <1>5, <2>1, <2>2, Zenon DEF Lined
<1>7. PICK kept : KeptOK(order, size, Len(order), kept) /\ fits = kept.in
  BY <1>1, <1>6, FittingIs
<1>8. fits \in Seq(Active)
  <2>1. fits \in Seq(Before(order, n + 1))
    BY <1>6, <1>7 DEF KeptOK
  <2>2. Before(order, n + 1) \subseteq Active
    <3>1. \A i \in 1 .. n + 1 - 1 : i \in 1 .. n
      BY SMT
    <3> QED BY <1>4, <3>1 DEF Before
  <2> QED BY <2>1, <2>2
<1>9. /\ IsFiniteSet(Bytes(ToSet(fits), size)) /\ Cardinality(Bytes(ToSet(fits), size)) <= Room
      /\ Cardinality(ToSet(fits)) = Len(fits)
  BY <1>7, Zenon DEF KeptOK
<1> HIDE DEF fits
<1>10. PICK m \in Nat : m = Len(fits) /\ DOMAIN fits = 1 .. m /\ fits = [i \in 1 .. m |-> fits[i]]
  BY <1>8
<1>11. \A i \in 1 .. m : fits[i] \in Active
  BY <1>8, <1>10
<1>12. \A i, j \in 1 .. m : fits[i] = fits[j] => i = j
  BY <1>9, <1>10, EachOnce
<1>13. IsFiniteSet(1 .. m) /\ Cardinality(1 .. m) = m /\ 1 .. m \subseteq Nat
  <2>1. IsFiniteSet(1 .. m) /\ Cardinality(1 .. m) = IF 1 > m THEN 0 ELSE m - 1 + 1
    BY FS_Interval
  <2>2. (IF 1 > m THEN 0 ELSE m - 1 + 1) = m /\ 1 .. m \subseteq Nat
    BY SMT
  <2> QED BY <2>1, <2>2
<1>14. Weak(1 .. m, R)
  <2>1. \A i \in 1 .. m : row[fits[i]].seq \in Nat
    BY <1>2, <1>11, RowFields
  <2>2. \A i, j \in 1 .. m : <<i, j>> \in R <=> row[fits[i]].seq < row[fits[j]].seq
    <3>1. R = {p \in (1 .. m) \X (1 .. m) : row[fits[p[1]]].seq < row[fits[p[2]]].seq}
      BY <1>10
    <3> HIDE DEF R
    <3> QED BY <3>1
  <2> HIDE DEF R
  <2> DEFINE at == [i \in 1 .. m |-> row[fits[i]].seq]
  <2>3. /\ \A i \in 1 .. m : at[i] \in Int
        /\ \A i, j \in 1 .. m : <<i, j>> \in R <=> at[i] < at[j]
    BY <2>1, <2>2
  <2> HIDE DEF at
  <2> QED BY <2>3, OrderIsWeak
<1>15. PICK perm : Sorts(fits, 1 .. m, R, perm, shown)
  <2>1. \E perm : Sorts(fits, 1 .. m, R, perm, StableSort(fits, 1 .. m, R))
    <3> HIDE DEF R
    <3> QED BY <1>13, <1>14, StableSortIs, Zenon
  <2> QED BY <1>10, <2>1
<1>16. /\ DOMAIN shown = 1 .. m
       /\ \A k \in 1 .. m : perm[k] \in 1 .. m /\ shown[k] = fits[perm[k]]
       /\ \A k, j \in 1 .. m : k < j => perm[k] # perm[j]
  BY <1>13, <1>15 DEF Sorts
<1> HIDE DEF shown
<1>17. \A k \in 1 .. m : shown[k] \in Active /\ shown[k] \in ToSet(fits)
  BY <1>10, <1>11, <1>16 DEF ToSet
<1>18. \A k, j \in 1 .. m : shown[k] = shown[j] => k = j
  <2> TAKE k \in 1 .. m, j \in 1 .. m
  <2> HAVE shown[k] = shown[j]
  <2>1. perm[k] = perm[j]
    BY <1>12, <1>16
  <2>2. ~(k < j) /\ ~(j < k)
    BY <1>16, <2>1
  <2> QED BY <2>2, SMT
<1>19. \A l \in Active : Line(l) \in Seq(Piece) /\ Len(Line(l)) = LineSize(l)
  <2> TAKE l \in Active
  <2>1. l \in Leaves /\ row[l].hook \in Hook
    BY <1>2, RowFields
  <2>2. LineSize(l) \in {1, 2}
    BY DEF LineSize
  <2>3. PICK z \in {1, 2} : z = LineSize(l)
    BY <2>2
  <2>4. \A i \in 1 .. z : <<l, row[l].hook, i>> \in Piece
    <3> TAKE i \in 1 .. z
    <3>1. i \in 1 .. 2
      BY SMT
    <3> QED BY <2>1, <3>1 DEF Piece
  <2>5. Line(l) = [i \in 1 .. z |-> <<l, row[l].hook, i>>]
    BY <2>3 DEF Line
  <2>6. Line(l) \in [1 .. z -> Piece]
    BY <2>4, <2>5
  <2> QED BY <2>3, <2>6
<1>20. LinesOf(Piece, m, shown, size, lines)
  <2>1. lines = [i \in 1 .. m |-> lines[i]]
    BY <1>16
  <2>2. \A i \in 1 .. m : /\ lines[i] \in Seq(Piece) /\ Len(lines[i]) = size[shown[i]]
                          /\ size[shown[i]] \in Nat
    <3> TAKE i \in 1 .. m
    <3>1. lines[i] = Line(shown[i])
      BY <1>16
    <3> QED BY <1>5, <1>17, <1>19, <3>1
  <2> HIDE DEF lines
  <2> QED BY <1>18, <2>1, <2>2, Zenon DEF LinesOf
<1> HIDE DEF lines
<1>21. JoinOK(Piece, {shown[i] : i \in 1 .. m}, size, FlattenSeq(lines))
  BY <1>20, JoinedLines
<1>22. Cardinality(Bytes({shown[i] : i \in 1 .. m}, size)) <= Room
  <2> DEFINE S == {shown[i] : i \in 1 .. m}
  <2>1. S \subseteq ToSet(fits)
    BY <1>17
  <2> HIDE DEF S
  <2>2. /\ Cardinality(Bytes(S, size)) \in Nat /\ Cardinality(Bytes(ToSet(fits), size)) \in Nat
        /\ Cardinality(Bytes(S, size)) <= Cardinality(Bytes(ToSet(fits), size))
    BY <1>9, <2>1, BytesLess, Zenon
  <2>3. Cardinality(Bytes(S, size)) <= Room
    BY <1>1, <1>9, <2>2, SMT
  <2> QED BY <2>3 DEF S
<1>23. Body(order) = FlattenSeq(lines)
  BY DEF Body, lines, shown, fits, size
<1> QED BY <1>21, <1>22, <1>23 DEF JoinOK, BodyOK

(* Written over what is there, it still fits.                              *)
LEMMA OverFits ==
  ASSUME NEW b, BodyOK(b), NEW old, BodyOK(old)
  PROVE  BodyOK(Over(b, old))
<1>1. b \in Seq(Piece) /\ old \in Seq(Piece) /\ Len(b) <= Room /\ Len(old) <= Room
  BY DEF BodyOK
<1> DEFINE tail == SubSeq(old, Len(b) + 1, Len(old))
<1>2. /\ tail \in Seq(Piece)
      /\ Len(tail) = IF Len(b) + 1 <= Len(old) THEN Len(old) - (Len(b) + 1) + 1 ELSE 0
  BY <1>1
<1> HIDE DEF tail
<1>3. b \o tail \in Seq(Piece) /\ Len(b \o tail) = Len(b) + Len(tail)
  BY <1>1, <1>2
<1>4. Len(b) \in Nat /\ Len(old) \in Nat /\ Room \in Nat
  BY <1>1, FactsAssumption DEF FactsAssumption
<1>5. Len(b \o tail) <= Room
  BY <1>1, <1>2, <1>3, <1>4, SMT
<1> QED BY <1>3, <1>5 DEF BodyOK, Over, tail

(* What is written, and what is about to be, fits at first.                *)
LEMMA FilesInit == FInit => FilesOK
<1> SUFFICES ASSUME FInit PROVE FilesOK
  OBVIOUS
<1>1. Room \in Nat
  BY FactsAssumption DEF FactsAssumption
<1>2. index = <<>> /\ \A p \in Procs : proc[p].at = "idle"
  BY DEF FInit, Idle
<1>3. BodyOK(<<>>)
  BY <1>1 DEF BodyOK
<1> QED BY <1>2, <1>3 DEF FilesOK

(* One lane changes: the others carry what they carried.                   *)
LEMMA FilesLane ==
  ASSUME LanesOK, FilesOK, NEW p \in Procs, NEW u, Sets(p, u), BodyOK(index'),
         u.at \in {"open", "write"} => BodyOK(u.body)
  PROVE  FilesOK'
<1>1. proc'[p] = u /\ \A q \in Procs \ {p} : proc'[q] = proc[q]
  BY LaneUpdate
<1>2. \A q \in Procs : proc'[q].at \in {"open", "write"} => BodyOK(proc'[q].body)
  BY <1>1, Zenon DEF FilesOK
<1> QED BY <1>2 DEF FilesOK, BodyOK, Piece, Hook

(* Every step keeps the files within their bytes.                          *)
LEMMA FilesStep == FInv /\ FilesOK /\ [FNext]_fvars => FilesOK'
<1> SUFFICES ASSUME FInv, FilesOK, [FNext]_fvars PROVE FilesOK'
  OBVIOUS
<1>1. RowsOK /\ LanesOK /\ BodyOK(index)
  BY DEF FInv, FilesOK
<1>2. ASSUME NEW p \in Procs, NEW u, Sets(p, u), UNCHANGED index, u.at \notin {"open", "write"}
      PROVE  FilesOK'
  <2>1. BodyOK(index')
    BY <1>1, <1>2
  <2> QED BY <1>1, <1>2, <2>1, FilesLane
<1>3. ASSUME NEW p \in Procs, Upsert(p) PROVE FilesOK'
  <2>1. PICK l \in Leaves, flag \in {"empty", "hand"}, pin \in BOOLEAN :
               Sets(p, [at |-> "row", leaf |-> l, flag |-> flag, pin |-> pin, fm |-> leaf[l]])
    BY <1>3 DEF Upsert
  <2> DEFINE u == [at |-> "row", leaf |-> l, flag |-> flag, pin |-> pin, fm |-> leaf[l]]
  <2>2. u.at \notin {"open", "write"} /\ Sets(p, u) /\ UNCHANGED index
    BY <1>3, <2>1 DEF Upsert
  <2> HIDE DEF u
  <2> QED BY <1>2, <2>2
<1>4. ASSUME NEW p \in Procs, ReadRow(p) PROVE FilesOK'
  <2> DEFINE r == row[proc[p].leaf]
             u == [at |-> IF r = NoRow THEN "seq" ELSE "update",
                   leaf |-> proc[p].leaf, pin |-> proc[p].pin, given |-> proc[p].flag # "empty",
                   hook |-> NewHook(proc[p].flag, proc[p].fm, r),
                   description |-> NewDescription(proc[p].fm, r)]
  <2>1. Sets(p, u) /\ UNCHANGED index
    BY <1>4 DEF ReadRow
  <2>2. u.at \notin {"open", "write"}
    OBVIOUS
  <2> HIDE DEF u
  <2> QED BY <1>2, <2>1, <2>2
<1>5. ASSUME NEW p \in Procs, ReadSeq(p) PROVE FilesOK'
  <2> DEFINE u == [at |-> "insert", leaf |-> proc[p].leaf, pin |-> proc[p].pin,
                   given |-> proc[p].given, hook |-> proc[p].hook,
                   description |-> proc[p].description, seq |-> NextSeq, known |-> Stored]
  <2>1. Sets(p, u) /\ UNCHANGED index
    BY <1>5 DEF ReadSeq
  <2>2. u.at \notin {"open", "write"}
    OBVIOUS
  <2> HIDE DEF u
  <2> QED BY <1>2, <2>1, <2>2
<1>6. ASSUME NEW p \in Procs, UpdateRow(p) \/ InsertRow(p) \/ Killed(p) PROVE FilesOK'
  <2>1. Sets(p, Idle) /\ UNCHANGED index
    BY <1>6 DEF UpdateRow, InsertRow, Killed
  <2>2. Idle.at \notin {"open", "write"}
    BY DEF Idle
  <2> QED BY <1>2, <2>1, <2>2
<1>7. ASSUME NEW p \in Procs, ReadFacts(p) PROVE FilesOK'
  <2>1. PICK order \in Orders : Sets(p, [at |-> "open", body |-> Body(order)])
    BY <1>7 DEF ReadFacts
  <2>2. BodyOK(Body(order)) /\ UNCHANGED index
    BY <1>1, <1>7, BodyFits DEF ReadFacts
  <2> DEFINE u == [at |-> "open", body |-> Body(order)]
  <2>3. Sets(p, u) /\ BodyOK(u.body)
    BY <2>1, <2>2
  <2>4. BodyOK(index')
    BY <1>1, <2>2
  <2> HIDE DEF u
  <2> QED BY <1>1, <2>3, <2>4, FilesLane
<1>8. ASSUME NEW p \in Procs, OpenIndex(p) PROVE FilesOK'
  <2> DEFINE u == [at |-> "write", body |-> proc[p].body]
  <2>1. Sets(p, u) /\ index' = <<>>
    BY <1>8 DEF OpenIndex
  <2>2. BodyOK(proc[p].body)
    BY <1>8 DEF OpenIndex, At, FilesOK
  <2>3. BodyOK(u.body)
    BY <2>2
  <2>4. BodyOK(index')
    BY <2>1, FactsAssumption DEF BodyOK, FactsAssumption
  <2> HIDE DEF u
  <2> QED BY <1>1, <2>1, <2>3, <2>4, FilesLane
<1>9. ASSUME NEW p \in Procs, WriteIndex(p) PROVE FilesOK'
  <2>1. Sets(p, Idle) /\ index' = Over(proc[p].body, index)
    BY <1>9 DEF WriteIndex
  <2>2. BodyOK(proc[p].body)
    BY <1>9 DEF WriteIndex, At, FilesOK
  <2>3. BodyOK(index')
    BY <1>1, <2>1, <2>2, OverFits
  <2>4. Idle.at \notin {"open", "write"}
    BY DEF Idle
  <2> QED BY <1>1, <2>1, <2>3, <2>4, FilesLane
<1>10. ASSUME UNCHANGED <<index, proc>> PROVE FilesOK'
  BY <1>10 DEF FilesOK, BodyOK, Piece, Hook
<1>11. ASSUME NEW l \in Leaves, Archive(l) \/ Pin(l) \/ Unpin(l) \/ EditLeaf(l) PROVE FilesOK'
  <2>1. UNCHANGED <<index, proc>>
    BY <1>11 DEF Archive, Pin, Unpin, EditLeaf
  <2> QED BY <1>10, <2>1
<1>12. CASE UNCHANGED fvars
  <2>1. UNCHANGED <<index, proc>>
    BY <1>12 DEF fvars
  <2> QED BY <1>10, <2>1
<1> QED BY <1>3, <1>4, <1>5, <1>6, <1>7, <1>8, <1>9, <1>11, <1>12, Zenon DEF FNext, Command, Works

(* The index holds the best facts that fit, of any facts whose lines are   *)
(* all different, and MEMORY.md stays within its bytes when any number of  *)
(* lanes write it at the same time (README.md:146, generate.rs).           *)
THEOREM BestFactsAreShown ==
  /\ FSpec
  /\ [](about = "index" => Rankable(memory, DOMAIN memory, Sizes(memory)))
  => []IndexIsBest
<1>1. FInv /\ FilesOK /\ (about = "index" => Rankable(memory, DOMAIN memory, Sizes(memory)))
      => IndexIsBest
  <2> SUFFICES ASSUME FilesOK, about = "index" => Rankable(memory, DOMAIN memory, Sizes(memory))
               PROVE  IndexIsBest
    OBVIOUS
  <2>1. ASSUME about = "index", NEW orphans \in BOOLEAN
        PROVE  BestFirst(memory, DOMAIN memory, orphans, Sizes(memory))
    <3>1. Room \in Nat /\ Lines \in Nat
      BY FactsAssumption DEF FactsAssumption
    <3>2. Rankable(memory, DOMAIN memory, Sizes(memory))
      BY <2>1
    <3> QED BY <3>1, <3>2, ShownIsBest
  <2>2. IndexFits
    BY DEF FilesOK, BodyOK, IndexFits
  <2> QED BY <2>1, <2>2, Zenon DEF IndexIsBest
<1>2. FSpec => []FilesOK
  <2>1. FInit => FilesOK
    BY FilesInit
  <2>2. FInv /\ FilesOK /\ [FNext]_fvars => FilesOK'
    BY FilesStep
  <2> QED BY <2>1, <2>2, FInvAlways, PTL DEF FSpec
<1> QED BY <1>1, <1>2, FInvAlways, PTL

(* Importing an index that was generated changes nothing in it, and loses  *)
(* no pin and no archived status, whatever the leaves of the memory        *)
(* (import_existing.rs:3).                                                 *)
THEOREM ImportKeepsTheIndex ==
  ASSUME NEW Keys, memory \in Seq(LeafFacts(Keys)), OnceEach(memory)
  PROVE  SameIndex
<1> DEFINE lines == Index(memory)
           after == Imported(memory, lines, 9)
<1>1. Room \in Nat /\ Lines \in Nat /\ 9 \in Int
  BY FactsAssumption DEF FactsAssumption
<1>2. Whole(memory, lines) => Index(after) = lines
  BY <1>1, SameLines
<1>3. DOMAIN lines \subseteq Int
  <2> DEFINE s == Shown(memory, Selected(memory), FALSE, Sizes(memory))
  <2>1. IndexOK(memory, s)
    BY <1>1, IndexIs
  <2> HIDE DEF s
  <2>2. DOMAIN s = 1 .. Len(s) /\ lines = [k \in DOMAIN s |-> s[k].leaf]
    BY <2>1, Zenon DEF IndexOK
  <2> QED BY <2>2
<1> HIDE DEF lines
<1>4. ASSUME NEW i \in DOMAIN memory, memory[i].row
      PROVE  after[i].active = memory[i].active /\ after[i].pinned >= memory[i].pinned
  <2>1. memory[i] \in LeafFacts(Keys)
    BY <1>4
  <2>2. after[i] = IF memory[i].there THEN ImportLeaf(memory[i], lines, 9) ELSE memory[i]
    BY DEF Imported
  <2> HIDE DEF after
  <2> QED BY <1>1, <1>3, <1>4, <2>1, <2>2, ImportKeeps
<1> QED BY <1>2, <1>4, Zenon DEF SameIndex, SameIndexAgain, Whole, lines, after

-----------------------------------------------------------------------------
(* The links between facts (Links).  A memory: keys, files and rows of any *)
(* number of leaves.                                                       *)
LinkedRows(Keys)  == {NoRow} \cup [name : Keys, active : BOOLEAN, seq : Int]
LinkedFacts(Keys) ==
  [stem : Keys, there : BOOLEAN, fm : Keys, links : SUBSET Keys, row : LinkedRows(Keys)]
Memories(Keys)    == Seq(LinkedFacts(Keys))

(* Of a set of numbered things one comes last, by induction on how many    *)
(* numbers there are: at the least number for which this failed, what is   *)
(* left without the thing of that number would have a last one.            *)
LEMMA LatestExists ==
  ASSUME NEW n \in Nat, NEW f \in [1 .. n -> Int], NEW S \in SUBSET (1 .. n), S # {}
  PROVE  \E i \in S : \A j \in S : f[j] <= f[i]
<1> DEFINE HasLast(T) == \E i \in T : \A j \in T : f[j] <= f[i]
           Bad == {k \in 0 .. n : \E T \in SUBSET (1 .. k) : T # {} /\ ~HasLast(T)}
<1> SUFFICES ASSUME ~HasLast(S) PROVE FALSE
  OBVIOUS
<1> HIDE DEF HasLast
<1>1. n \in Bad /\ Bad \subseteq Nat
  BY SMT
<1>2. PICK m \in Bad : \A k \in Bad : ~(k < m)
  <2> HIDE DEF Bad
  <2> QED BY <1>1, LeastExists
<1>3. m \in 0 .. n
  BY <1>2
<1>4. PICK T \in SUBSET (1 .. m) : T # {} /\ ~HasLast(T)
  BY <1>2
<1>5. m # 0
  <2>1. PICK x \in T : x \in 1 .. m
    BY <1>4
  <2> QED BY <1>3, <2>1, SMT
<1>6. m - 1 \in 0 .. n /\ m - 1 < m
  BY <1>3, <1>5, SMT
<1> DEFINE U == T \ {m}
<1>7. U \in SUBSET (1 .. m - 1)
  BY <1>3, <1>5, SMT
<1>8. m - 1 \notin Bad
  BY <1>2, <1>6
<1>9. U = {} \/ HasLast(U)
  BY <1>6, <1>7, <1>8
<1>10. \A i \in T : i \in 1 .. n /\ f[i] \in Int
  BY <1>3, <1>4, SMT
<1>11. CASE U = {}
  <2>1. T = {m}
    BY <1>4, <1>11
  <2>2. f[m] <= f[m]
    BY <1>10, <2>1, SMT
  <2> QED BY <1>4, <2>1, <2>2 DEF HasLast
<1>12. CASE m \notin T
  BY <1>4, <1>9, <1>11, <1>12
<1>13. CASE m \in T /\ U # {}
  <2>1. PICK i \in U : \A j \in U : f[j] <= f[i]
    BY <1>9, <1>13 DEF HasLast
  <2>2. i \in T /\ f[i] \in Int /\ f[m] \in Int
    BY <1>10, <1>13, <2>1
  <2>3. \A j \in T : j = m \/ f[j] <= f[i]
    BY <2>1
  <2>4. CASE f[m] <= f[i]
    BY <1>4, <2>2, <2>3, <2>4 DEF HasLast
  <2>5. CASE ~(f[m] <= f[i])
    <3>1. \A j \in T : f[j] <= f[m]
      BY <1>10, <2>2, <2>3, <2>5, SMT
    <3> QED BY <1>4, <1>13, <3>1 DEF HasLast
  <2> QED BY <2>4, <2>5
<1> QED BY <1>11, <1>12, <1>13

(* A key that resolves leads to a row that has it as its name or its stem. *)
LEMMA KeyLeadsToOwner ==
  ASSUME NEW Keys, NEW m \in Memories(Keys), NEW key, Linked!Resolves(m, key)
  PROVE  /\ Linked!by_key(m, key) \in Linked!Registered(m)
         /\ key \in Linked!anchor_keys(m, Linked!by_key(m, key))
         /\ Linked!Named(m, key) # {} => Linked!by_key(m, key) \in Linked!Named(m, key)
<1> DEFINE S == IF Linked!Named(m, key) # {} THEN Linked!Named(m, key) ELSE Linked!Stemmed(m, key)
           f == [i \in 1 .. Len(m) |-> IF m[i].row = NoRow THEN 0 ELSE m[i].row.seq]
<1>1. Len(m) \in Nat /\ DOMAIN m = 1 .. Len(m)
  BY DEF Memories
<1>2. \A i \in 1 .. Len(m) :
        m[i].row = NoRow \/ m[i].row \in [name : Keys, active : BOOLEAN, seq : Int]
  <2>1. \A i \in 1 .. Len(m) : m[i] \in LinkedFacts(Keys)
    BY DEF Memories
  <2> QED BY <2>1 DEF LinkedFacts, LinkedRows
<1>3. f \in [1 .. Len(m) -> Int]
  BY <1>2
<1>4. S \in SUBSET Linked!Registered(m) /\ S # {}
  BY DEF Linked!Resolves, Linked!Named, Linked!Stemmed
<1>5. Linked!Registered(m) \subseteq 1 .. Len(m)
      /\ \A i \in Linked!Registered(m) : f[i] = m[i].row.seq
  BY <1>1 DEF Linked!Registered
<1> HIDE DEF S, f
<1>6. \E i \in S : \A j \in S : f[j] <= f[i]
  BY <1>1, <1>3, <1>4, <1>5, LatestExists
<1>7. \E i \in S : \A j \in S : m[j].row.seq <= m[i].row.seq
  BY <1>4, <1>5, <1>6
<1>8. Linked!LatestOf(m, S) \in S
  BY <1>7 DEF Linked!LatestOf
<1>9. Linked!by_key(m, key) \in S
  BY <1>8 DEF Linked!by_key, S
<1>10. \A i \in S : key \in Linked!anchor_keys(m, i)
  BY DEF S, Linked!Named, Linked!Stemmed, Linked!anchor_keys
<1> QED BY <1>4, <1>9, <1>10 DEF S

(* A fact that is listed as linked to lists the link.                      *)
LEMMA BothEndsSee ==
  ASSUME NEW Keys, NEW m \in Memories(Keys)
  PROVE  Linked!SeenFromBothEnds(m)
<1> SUFFICES ASSUME NEW i \in Linked!Registered(m), NEW j \in Linked!Outbound(m, i) \ {i}
             PROVE  i \in Linked!Inbound(m, j)
  BY DEF Linked!SeenFromBothEnds
<1>1. PICK w \in Linked!LinksOf(m, i) : Linked!Resolves(m, w) /\ j = Linked!by_key(m, w)
  BY DEF Linked!Outbound
<1>2. w \in Linked!anchor_keys(m, j)
  BY <1>1, KeyLeadsToOwner
<1> QED BY <1>1, <1>2 DEF Linked!Inbound

(* Of two leaves that claim one key, the later in the order of the names   *)
(* is reported: as an error when both are active facts.                    *)
LEMMA LaterIsReported ==
  ASSUME NEW Keys, NEW m \in Memories(Keys), NEW i \in DOMAIN m, NEW j \in DOMAIN m, i < j,
         NEW key \in Linked!Claims(m, i) \cap Linked!Claims(m, j)
  PROVE  /\ j \in Linked!Errors(m) \cup Linked!Warnings(m)
         /\ Linked!ours(m, i) /\ Linked!ours(m, j) => j \in Linked!Errors(m)
<1>1. i \in 1 .. j - 1
  BY SMT DEF Memories
<1>2. i \in Linked!Owners(m, j, key)
  BY <1>1 DEF Linked!Owners
<1>3. /\ Linked!Duplicates(m, j, key) \in {"error", "warning"}
      /\ Linked!ours(m, i) /\ Linked!ours(m, j) => Linked!Duplicates(m, j, key) = "error"
  BY <1>2 DEF Linked!Duplicates
<1> QED BY <1>3 DEF Linked!Errors, Linked!Warnings

(* Where doctor finds nothing, every leaf is there and has a row, and a    *)
(* name is claimed once.                                                   *)
LEMMA CleanIs ==
  ASSUME NEW Keys, NEW m \in Memories(Keys), Linked!Clean(m)
  PROVE  /\ \A i \in DOMAIN m : m[i].there /\ m[i].row # NoRow /\ m[i].fm # NoName
         /\ \A i, j \in DOMAIN m : Linked!Claims(m, i) \cap Linked!Claims(m, j) # {} => i = j
<1>1. Linked!Errors(m) = {} /\ Linked!Warnings(m) = {}
  BY DEF Linked!Clean
<1>2. ASSUME NEW i \in DOMAIN m PROVE m[i].there /\ m[i].row # NoRow /\ m[i].fm # NoName
  <2>1. ~Linked!Gone(m, i) /\ ~Linked!Nameless(m, i)
    BY <1>1 DEF Linked!Errors, Linked!Warnings
  <2>2. m[i].there /\ m[i].fm # NoName
    BY <2>1 DEF Linked!Gone, Linked!Nameless
  <2> QED BY <1>1, <2>2 DEF Linked!Warnings
<1>3. ASSUME NEW i \in DOMAIN m, NEW j \in DOMAIN m,
             Linked!Claims(m, i) \cap Linked!Claims(m, j) # {}, i # j
      PROVE  FALSE
  <2>1. i < j \/ j < i
    BY <1>3, SMT DEF Memories
  <2>2. PICK key \in Linked!Claims(m, i) \cap Linked!Claims(m, j) : TRUE
    BY <1>3
  <2> QED BY <1>1, <2>1, <2>2, LaterIsReported
<1> QED BY <1>2, <1>3

(* Two active facts that claim one name are an error.                      *)
LEMMA ClashesAreErrors ==
  ASSUME NEW Keys, NEW m \in Memories(Keys)
  PROVE  Linked!ClashIsError(m)
<1> SUFFICES ASSUME NEW i \in DOMAIN m, NEW j \in DOMAIN m, i # j, Linked!ours(m, i),
                    Linked!ours(m, j), Linked!Claims(m, i) \cap Linked!Claims(m, j) # {}
             PROVE  Linked!Errors(m) # {}
  BY DEF Linked!ClashIsError
<1>1. PICK key \in Linked!Claims(m, i) \cap Linked!Claims(m, j) : TRUE
  OBVIOUS
<1>2. i < j \/ j < i
  BY SMT DEF Memories
<1> QED BY <1>1, <1>2, LaterIsReported

(* Once doctor finds nothing, a row's name leads to that row.              *)
LEMMA NamesLeadHome ==
  ASSUME NEW Keys, NEW m \in Memories(Keys)
  PROVE  Linked!NothingShadowed(m)
<1> SUFFICES ASSUME Linked!Clean(m), NEW i \in Linked!Registered(m), Linked!RowName(m, i) # {}
             PROVE  Linked!by_key(m, Linked!slug(m, i)) = i
  BY DEF Linked!NothingShadowed
<1> DEFINE key == Linked!slug(m, i)
<1>1. key \in Linked!RowName(m, i)
  BY DEF Linked!slug, Linked!RowName
<1> HIDE DEF key
<1>2. i \in Linked!Named(m, key)
  BY <1>1 DEF Linked!Named
<1>3. Linked!by_key(m, key) \in Linked!Named(m, key)
  BY <1>2, KeyLeadsToOwner DEF Linked!Resolves
<1> DEFINE j == Linked!by_key(m, key)
<1> HIDE DEF j
<1>4. i \in DOMAIN m /\ j \in DOMAIN m /\ key \in Linked!RowName(m, j)
  BY <1>3 DEF j, Linked!Named, Linked!Registered
<1>5. key \in Linked!Claims(m, i) /\ key \in Linked!Claims(m, j)
  BY <1>1, <1>4, CleanIs DEF Linked!Claims
<1>6. i = j
  BY <1>4, <1>5, CleanIs
<1> QED BY <1>6 DEF j, key

(* Once doctor finds nothing, and every row has a name, no link dangles.   *)
LEMMA LinksLeadSomewhere ==
  ASSUME NEW Keys, NEW m \in Memories(Keys)
  PROVE  Linked!NoneDangles(m)
<1> SUFFICES ASSUME Linked!Clean(m), \A i \in Linked!Registered(m) : Linked!RowName(m, i) # {},
                    NEW i \in Linked!Registered(m), NEW w \in Linked!LinksOf(m, i)
             PROVE  Linked!Resolves(m, w)
  BY DEF Linked!NoneDangles, Linked!Dangling
<1>1. i \in DOMAIN m /\ m[i].there /\ w \in m[i].links
  BY DEF Linked!Registered, Linked!LinksOf
<1>2. \A j \in DOMAIN m : j \in Linked!Registered(m) /\ ~Linked!Drifted(m, j) /\ ~Linked!Strays(m, j)
  <2>1. \A j \in DOMAIN m : ~Linked!Drifted(m, j) /\ ~Linked!Strays(m, j)
    BY DEF Linked!Clean, Linked!Warnings
  <2> QED BY <2>1, CleanIs DEF Linked!Registered
<1>3. w \in Linked!resolvable(m)
  BY <1>1, <1>2 DEF Linked!Strays
<1>4. \E j \in DOMAIN m : w = m[j].stem \/ w \in Linked!RowName(m, j) \/ (m[j].there /\ w = m[j].fm)
  <2> DEFINE stems == {m[j].stem : j \in DOMAIN m}
             names == UNION {Linked!RowName(m, j) : j \in DOMAIN m}
             slugs == {m[j].fm : j \in {k \in DOMAIN m : m[k].there}}
  <2>1. w \in stems \cup names \cup (slugs \ {NoName})
    BY <1>3 DEF Linked!resolvable
  <2>2. w \in stems => \E j \in DOMAIN m : w = m[j].stem
    OBVIOUS
  <2>3. w \in names => \E j \in DOMAIN m : w \in Linked!RowName(m, j)
    OBVIOUS
  <2>4. w \in slugs => \E j \in DOMAIN m : m[j].there /\ w = m[j].fm
    OBVIOUS
  <2> HIDE DEF stems, names, slugs
  <2> QED BY <2>1, <2>2, <2>3, <2>4
<1>0. PICK j \in DOMAIN m : w = m[j].stem \/ w \in Linked!RowName(m, j) \/ (m[j].there /\ w = m[j].fm)
  BY <1>4
<1>5. CASE w = m[j].stem
  BY <1>2, <1>5 DEF Linked!Resolves, Linked!Stemmed
<1>6. CASE w \in Linked!RowName(m, j)
  BY <1>2, <1>6 DEF Linked!Resolves, Linked!Named
<1>7. CASE m[j].there /\ w = m[j].fm
  <2>1. Linked!RowName(m, j) = {w}
    BY <1>2, <1>7, CleanIs DEF Linked!Drifted
  <2> QED BY <1>2, <2>1 DEF Linked!Resolves, Linked!Named
<1> QED BY <1>0, <1>5, <1>6, <1>7

(* `fact link` and `fact doctor` agree with one another, whatever names    *)
(* and stems coincide and however many facts there are (LinksAgree).       *)
THEOREM LinkAndDoctorAgree ==
  ASSUME NEW Keys, memory \in Memories(Keys)
  PROVE  LinksAgree
<1> SUFFICES ASSUME NEW m, m = memory, m \in Memories(Keys) PROVE Linked!LinksAgree(m)
  BY DEF LinksAgree
<1> QED BY BothEndsSee, ClashesAreErrors, NamesLeadHome, LinksLeadSomewhere DEF Linked!LinksAgree

-----------------------------------------------------------------------------
(* What is kept, in its order: places that only go up.                     *)
Picks(s, in, m, places, out) ==
  /\ out = [k \in 1 .. m |-> s[places[k]]]
  /\ \A k \in 1 .. m : places[k] \in in
  /\ \A i \in in : \E k \in 1 .. m : places[k] = i
  /\ \A k, j \in 1 .. m : k < j => places[k] < places[j]

(* That is what Filtered does.                                             *)
LEMMA FilteredIs ==
  ASSUME NEW n \in Nat, NEW s, NEW in \in SUBSET (1 .. n)
  PROVE  \E m \in Nat : \E places : Picks(s, in, m, places, Filtered(s, in))
<1>1. in \subseteq Nat /\ IsFiniteSet(in)
  <2>1. IsFiniteSet(1 .. n) /\ 1 .. n \subseteq Nat
    BY FS_Interval, SMT
  <2> QED BY <2>1, FS_Subset
<1>2. Weak(in, {})
  BY DEF Weak
<1>3. PICK m \in Nat : m = Cardinality(in)
  BY <1>1, FS_CardinalityType
<1>4. PICK places : Sorts(s, in, {}, places, Filtered(s, in))
  BY <1>1, <1>2, StableSortIs DEF Filtered
<1>5. Picks(s, in, m, places, Filtered(s, in))
  <2>1. places \in [1 .. m -> in]
    BY <1>3, <1>4 DEF Sorts
  <2>2. /\ \A i \in in : \E k \in 1 .. m : places[k] = i
        /\ \A k, j \in 1 .. m : k < j => places[k] < places[j]
        /\ Filtered(s, in) = [k \in 1 .. m |-> s[places[k]]]
    BY <1>3, <1>4, Zenon DEF Sorts
  <2> QED BY <2>1, <2>2, Zenon DEF Picks
<1> QED BY <1>5

(* The first l of the m members of s.                                      *)
IsFirst(s, m, l, out) ==
  /\ Len(out) = l
  /\ DOMAIN out = 1 .. l
  /\ \A k \in 1 .. l : k \in 1 .. m /\ out[k] = s[k]

(* So many, or as many as there are.                                       *)
LEMMA FirstNIs ==
  ASSUME NEW m \in Nat, NEW s, s = [k \in 1 .. m |-> s[k]], NEW n \in Nat
  PROVE  \E l \in Nat : /\ l = IF m < n THEN m ELSE n
                        /\ IsFirst(s, m, l, FirstN(s, n))
<1> DEFINE X == {s[k] : k \in 1 .. m}
<1>1. s \in Seq(X) /\ Len(s) = m
  <2> DEFINE g == [k \in 1 .. m |-> s[k]]
  <2>1. g \in Seq(X) /\ Len(g) = m
    <3>1. g \in [1 .. m -> X]
      BY Zenon
    <3> HIDE DEF g, X
    <3> QED BY <3>1
  <2>2. s = g
    BY Zenon
  <2> HIDE DEF g
  <2> QED BY <2>1, <2>2, Zenon
<1>2. PICK l \in Nat : l = IF m < n THEN m ELSE n
  OBVIOUS
<1>3. l <= m
  BY <1>2, SMT
<1>4. FirstN(s, n) = SubSeq(s, 1, l)
  BY <1>1, <1>2 DEF FirstN
<1> HIDE DEF X
<1>5. SubSeq(s, 1, l) = [k \in 1 .. l |-> s[k]]
  BY <1>1, <1>3
<1>6. \A k \in 1 .. l : k \in 1 .. m
  BY <1>3, SMT
<1>7. FirstN(s, n) = [k \in 1 .. l |-> s[k]]
  BY <1>4, <1>5
<1>8. Len(FirstN(s, n)) = l
  <2>1. SubSeq(s, 1, l) \in Seq(X) /\ Len(SubSeq(s, 1, l)) = l
    BY <1>1, <1>3
  <2> QED BY <1>4, <2>1, Zenon
<1>9. DOMAIN FirstN(s, n) = 1 .. l /\ \A k \in 1 .. l : FirstN(s, n)[k] = s[k]
  BY <1>7
<1>10. IsFirst(s, m, l, FirstN(s, n))
  BY <1>6, <1>8, <1>9, Zenon DEF IsFirst
<1> QED BY <1>2, <1>10

-----------------------------------------------------------------------------
(* The best score is one of them.                                          *)
LEMMA BestIs ==
  ASSUME NEW n \in Nat, NEW s, NEW in \in SUBSET (1 .. n), in # {},
         \A i \in in : s[i].score \in Int
  PROVE  Best(s, in) \in {s[i].score : i \in in}
<1> DEFINE R == {p \in in \X in : s[p[1]].score < s[p[2]].score}
           score == [i \in in |-> s[i].score]
<1>1. in \subseteq Nat /\ IsFiniteSet(in)
  <2>1. IsFiniteSet(1 .. n) /\ 1 .. n \subseteq Nat
    BY FS_Interval, SMT
  <2> QED BY <2>1, FS_Subset
<1>2. \A i, j \in in : /\ score[i] \in Int /\ score[i] = s[i].score
                       /\ <<i, j>> \in R <=> score[i] < score[j]
  <2>1. \A i \in in : score[i] = s[i].score
    BY Zenon
  <2>2. \A i, j \in in : <<i, j>> \in R <=> s[i].score < s[j].score
    OBVIOUS
  <2> HIDE DEF R, score
  <2> QED BY <2>1, <2>2, Zenon
<1> HIDE DEF R, score
<1>3. Weak(in, R)
  <2>1. \A i \in in : score[i] \in Int
    BY <1>2
  <2>2. \A i, j \in in : <<i, j>> \in R <=> score[i] < score[j]
    BY <1>2
  <2> QED BY <2>1, <2>2, OrderIsWeak
<1>4. PICK m \in Nat : m = Cardinality(in)
  BY <1>1, FS_CardinalityType
<1>5. PICK perm : Sorts(s, in, R, perm, StableSort(s, in, R))
  BY <1>1, <1>3, StableSortIs
<1>6. /\ perm \in [1 .. m -> in]
      /\ \A i \in in : \E k \in 1 .. m : perm[k] = i
      /\ \A k, j \in 1 .. m : k < j => <<perm[j], perm[k]>> \notin R
  BY <1>4, <1>5, Zenon DEF Sorts
<1>7. 1 \in 1 .. m
  <2>1. PICK k \in 1 .. m : TRUE
    BY <1>6
  <2> QED BY <2>1
<1>8. \A i \in in : score[perm[1]] <= score[i]
  <2> TAKE i \in in
  <2>1. PICK k \in 1 .. m : perm[k] = i
    BY <1>6
  <2>2. CASE k = 1
    <3>1. perm[1] = i
      BY <2>1, <2>2, Zenon
    <3>2. score[i] \in Int
      BY <1>2
    <3> QED BY <3>1, <3>2, SMT
  <2>3. CASE k # 1
    <3>1. 1 < k
      BY <2>3
    <3>2. <<i, perm[1]>> \notin R /\ perm[1] \in in
      BY <1>6, <1>7, <2>1, <3>1
    <3>3. ~(score[i] < score[perm[1]]) /\ score[i] \in Int /\ score[perm[1]] \in Int
      BY <1>2, <3>2
    <3> QED BY <3>3, SMT
  <2> QED BY <2>2, <2>3
<1>9. \E b \in {s[i].score : i \in in} : \A i \in in : b <= s[i].score
  <2>1. perm[1] \in in
    BY <1>6, <1>7
  <2> QED BY <1>2, <1>8, <2>1
<1> QED BY <1>9 DEF Best

(* A bonus halved again and again.                                         *)
Halves(left, bonus, n) ==
  left = [i \in 0 .. n |-> IF i = 0 THEN bonus ELSE left[i - 1] \div 2]

(* There is one.                                                           *)
LEMMA HalvesExist ==
  ASSUME NEW bonus, NEW n \in Nat
  PROVE  \E left : Halves(left, bonus, n)
<1> DEFINE Missing == {m \in Nat : ~\E g : Halves(g, bonus, m)}
<1> SUFFICES ASSUME Missing # {} PROVE FALSE
  OBVIOUS
<1>1. Missing \in SUBSET Nat
  OBVIOUS
<1>2. PICK m \in Missing : \A y \in Missing : ~(y < m)
  <2> HIDE DEF Missing
  <2> QED BY <1>1, LeastExists
<1>3. m \in Nat /\ ~\E g : Halves(g, bonus, m)
  BY <1>2
<1>4. m # 0
  <2> SUFFICES ASSUME m = 0 PROVE FALSE
    OBVIOUS
  <2> DEFINE g == [i \in 0 .. 0 |-> bonus]
  <2>1. \A i \in 0 .. 0 : i = 0
    BY SMT
  <2>2. g = [i \in 0 .. 0 |-> IF i = 0 THEN bonus ELSE g[i - 1] \div 2]
    BY <2>1
  <2> QED BY <1>3, <2>2, Zenon DEF Halves
<1>5. m - 1 \in Nat /\ m - 1 < m
  BY <1>3, <1>4, SMT
<1>6. PICK h : Halves(h, bonus, m - 1)
  BY <1>2, <1>5
<1> DEFINE g == [i \in 0 .. m |-> IF i = m THEN h[m - 1] \div 2 ELSE h[i]]
<1>7. \A i \in 0 .. m : g[i] = IF i = 0 THEN bonus ELSE g[i - 1] \div 2
  <2> TAKE i \in 0 .. m
  <2>1. CASE i = m
    <3>1. i - 1 \in 0 .. m /\ i - 1 # m /\ i # 0
      BY <1>3, <1>4, <2>1, SMT
    <3>2. g[i - 1] = h[m - 1] /\ g[i] = h[m - 1] \div 2
      BY <2>1, <3>1
    <3> QED BY <3>1, <3>2
  <2>2. CASE i # m
    <3>1. i \in 0 .. m - 1
      BY <1>3, <2>2, SMT
    <3>2. h[i] = IF i = 0 THEN bonus ELSE h[i - 1] \div 2
      BY <1>6, <3>1, Zenon DEF Halves
    <3>3. g[i] = h[i]
      BY <2>2
    <3>4. i # 0 => g[i - 1] = h[i - 1]
      <4> SUFFICES ASSUME i # 0 PROVE g[i - 1] = h[i - 1]
        OBVIOUS
      <4>1. i - 1 \in 0 .. m /\ i - 1 # m
        BY <1>3, <2>2, SMT
      <4> QED BY <4>1
    <3> QED BY <3>2, <3>3, <3>4
  <2> QED BY <2>1, <2>2
<1>8. g = [i \in 0 .. m |-> g[i]]
  OBVIOUS
<1>9. Halves(g, bonus, m)
  <2> HIDE DEF g
  <2> QED BY <1>7, <1>8, Zenon DEF Halves
<1> QED BY <1>3, <1>9

(* What is left is a part of the bonus, and never grows.                   *)
LEMMA HalvesFall ==
  ASSUME NEW bonus \in Nat, NEW n \in Nat, NEW left, Halves(left, bonus, n)
  PROVE  /\ \A i \in 0 .. n : left[i] \in Nat
         /\ \A i, j \in 0 .. n : i <= j => left[j] <= left[i]
<1>1. \A i \in 0 .. n : left[i] = IF i = 0 THEN bonus ELSE left[i - 1] \div 2
  BY Zenon DEF Halves
<1> DEFINE Wrong == {j \in 0 .. n : ~(left[j] \in Nat)}
<1>2. Wrong = {}
  <2> SUFFICES ASSUME Wrong # {} PROVE FALSE
    OBVIOUS
  <2>1. Wrong \in SUBSET Nat
    BY SMT
  <2>2. PICK k \in Wrong : \A y \in Wrong : ~(y < k)
    <3> HIDE DEF Wrong
    <3> QED BY <2>1, LeastExists
  <2>3. k \in 0 .. n /\ ~(left[k] \in Nat)
    BY <2>2
  <2>4. k # 0
    BY <1>1, <2>3
  <2>5. k - 1 \in 0 .. n /\ k - 1 < k
    BY <2>3, <2>4, SMT
  <2>6. left[k - 1] \in Nat
    BY <2>2, <2>5
  <2>7. PICK x \in Nat : x = left[k - 1]
    BY <2>6
  <2>8. x \div 2 \in Nat
    BY SMT
  <2> QED BY <1>1, <2>3, <2>4, <2>7, <2>8
<1>3. \A i \in 0 .. n : left[i] \in Nat
  BY <1>2
<1>4. ASSUME NEW i \in 0 .. n
      PROVE  \A j \in 0 .. n : i <= j => left[j] <= left[i]
  <2> DEFINE Grown == {j \in 0 .. n : i <= j /\ ~(left[j] <= left[i])}
  <2> SUFFICES ASSUME Grown # {} PROVE FALSE
    OBVIOUS
  <2>1. Grown \in SUBSET Nat
    BY SMT
  <2>2. PICK k \in Grown : \A y \in Grown : ~(y < k)
    <3> HIDE DEF Grown
    <3> QED BY <2>1, LeastExists
  <2>3. k \in 0 .. n /\ i <= k /\ ~(left[k] <= left[i])
    BY <2>2
  <2>4. k # i
    BY <1>3, <2>3
  <2>5. k - 1 \in 0 .. n /\ k - 1 < k /\ i <= k - 1 /\ k # 0
    BY <2>3, <2>4, SMT
  <2>6. left[k - 1] <= left[i]
    BY <2>2, <2>5
  <2>7. left[k] = left[k - 1] \div 2
    BY <1>1, <2>3, <2>5
  <2>8. PICK x \in Nat, y \in Nat : x = left[k - 1] /\ y = left[i]
    BY <1>3, <2>5
  <2>9. x <= y => x \div 2 <= y
    BY SMT
  <2> QED BY <2>3, <2>6, <2>7, <2>8, <2>9
<1> QED BY <1>3, <1>4

(* Halved more often, no more is left.                                     *)
LEMMA HalvedIs ==
  ASSUME NEW bonus \in Nat, NEW a \in Nat
  PROVE  /\ Halved(bonus, a) \in Nat /\ Halved(bonus, a) <= bonus
         /\ \A c \in Nat : a <= c => Halved(bonus, c) <= Halved(bonus, a)
<1>1. ASSUME NEW n \in Nat
      PROVE  \E left : Halves(left, bonus, n) /\ Halved(bonus, n) = left[n]
  <2> DEFINE T(g) == g = [i \in 0 .. n |-> IF i = 0 THEN bonus ELSE g[i - 1] \div 2]
             h == CHOOSE g : T(g)
  <2>1. \E g : T(g)
    BY HalvesExist, Zenon DEF Halves
  <2>2. Halved(bonus, n) = h[n]
    BY DEF Halved
  <2>3. T(h)
    <3> HIDE DEF T
    <3> QED BY <2>1
  <2> HIDE DEF h
  <2> QED BY <2>2, <2>3 DEF Halves
<1>2. PICK l : Halves(l, bonus, a) /\ Halved(bonus, a) = l[a]
  BY <1>1
<1>3. 0 \in 0 .. a /\ a \in 0 .. a /\ 0 <= a
  BY SMT
<1>4. l[0] = bonus
  BY <1>2, <1>3, Zenon DEF Halves
<1>5. l[a] \in Nat /\ l[a] <= l[0]
  BY <1>2, <1>3, HalvesFall
<1>6. ASSUME NEW c \in Nat, a <= c
      PROVE  Halved(bonus, c) <= Halved(bonus, a)
  <2>1. PICK h : Halves(h, bonus, c) /\ Halved(bonus, c) = h[c]
    BY <1>1
  <2>2. \A i \in 0 .. a : l[i] = h[i]
    <3> DEFINE Apart == {i \in 0 .. a : l[i] # h[i]}
    <3> SUFFICES ASSUME Apart # {} PROVE FALSE
      OBVIOUS
    <3>1. Apart \in SUBSET Nat
      BY SMT
    <3>2. PICK k \in Apart : \A y \in Apart : ~(y < k)
      <4> HIDE DEF Apart
      <4> QED BY <3>1, LeastExists
    <3>3. k \in 0 .. a /\ l[k] # h[k]
      BY <3>2
    <3>4. k \in 0 .. c
      BY <1>6, <3>3, SMT
    <3>5. /\ l[k] = IF k = 0 THEN bonus ELSE l[k - 1] \div 2
          /\ h[k] = IF k = 0 THEN bonus ELSE h[k - 1] \div 2
      BY <1>2, <2>1, <3>3, <3>4, Zenon DEF Halves
    <3>6. k # 0
      BY <3>3, <3>5
    <3>7. k - 1 \in 0 .. a /\ k - 1 < k
      BY <3>3, <3>6, SMT
    <3>8. l[k - 1] = h[k - 1]
      BY <3>2, <3>7
    <3> QED BY <3>3, <3>5, <3>6, <3>8
  <2>3. a \in 0 .. c /\ c \in 0 .. c
    BY <1>6, SMT
  <2>4. h[c] <= h[a]
    BY <1>6, <2>1, <2>3, HalvesFall
  <2> QED BY <1>2, <1>3, <2>1, <2>2, <2>4
<1> QED BY <1>2, <1>4, <1>5, <1>6

-----------------------------------------------------------------------------
(* A question full-text search can return: its turns and facts numbered,   *)
(* the scores integers, the ages half-lives or none.                       *)
QuestionOK(q) ==
  /\ \E n \in Nat : DOMAIN q.turns = 1 .. n
  /\ \A i \in DOMAIN q.turns : /\ q.turns[i].score \in Int
                               /\ q.turns[i].age \in Nat \cup {Never}
  /\ \E n \in Nat : DOMAIN q.facts = 1 .. n

(* What a turn that matches has: a scale to measure its bonus by.          *)
LEMMA BonusIs ==
  ASSUME NEW q, QuestionOK(q), NEW h \in Qualified(q)
  PROVE  /\ Scale(q) \in Nat
         /\ \A age \in Nat : Bonus(q, age) \in Nat /\ Bonus(q, age) <= 48 * Scale(q)
         /\ \A a, c \in Nat : a <= c => Bonus(q, c) <= Bonus(q, a)
         /\ Bonus(q, Never) = 0
<1>1. PICK n \in Nat : DOMAIN q.turns = 1 .. n
  BY Zenon DEF QuestionOK
<1>2. Qualified(q) \in SUBSET (1 .. n) /\ Qualified(q) # {}
  BY <1>1, Zenon DEF Qualified
<1>3. \A i \in Qualified(q) : q.turns[i].score \in Int
  BY <1>1, <1>2, Zenon DEF QuestionOK
<1>4. Best(q.turns, Qualified(q)) \in {q.turns[i].score : i \in Qualified(q)}
  BY <1>2, <1>3, BestIs
<1>5. PICK b \in Int : b = Best(q.turns, Qualified(q))
  BY <1>3, <1>4
<1>6. BestMagnitude(q) = IF b < 0 THEN -b ELSE b
  BY <1>5 DEF BestMagnitude
<1>7. PICK g \in Nat : g = BestMagnitude(q)
  BY <1>6, SMT
<1>8. RECENCY_ABS_CAP \in Nat /\ Never \notin Nat
  BY RankingAssumption DEF RankingAssumption
<1>9. PICK scale \in Nat : scale = Scale(q)
  BY <1>7, <1>8 DEF Scale
<1>10. 48 * scale \in Nat
  BY SMT
<1>11. \A age \in Nat : Bonus(q, age) = Halved(48 * scale, age)
  BY <1>8, <1>9, Zenon DEF Bonus
<1>12. \A age \in Nat : /\ Halved(48 * scale, age) \in Nat
                        /\ Halved(48 * scale, age) <= 48 * scale
                        /\ \A c \in Nat : age <= c =>
                             Halved(48 * scale, c) <= Halved(48 * scale, age)
  BY <1>10, HalvedIs
<1>13. Bonus(q, Never) = 0
  BY Zenon DEF Bonus
<1>14. \A a, c \in Nat : a <= c => Bonus(q, c) <= Bonus(q, a)
  BY <1>11, <1>12, Zenon
<1>15. \A age \in Nat : Bonus(q, age) \in Nat /\ Bonus(q, age) <= 48 * Scale(q)
  BY <1>9, <1>11, <1>12, Zenon
<1> QED BY <1>9, <1>13, <1>14, <1>15

(* Of a turn's rank: its score, less a bonus that a cap bounds.            *)
LEMMA RankValueIs ==
  ASSUME NEW q, QuestionOK(q), NEW i \in Qualified(q)
  PROVE  /\ q.turns[i].score \in Int
         /\ q.turns[i].age \in Nat \cup {Never}
         /\ Bonus(q, q.turns[i].age) \in Nat
         /\ Bonus(q, q.turns[i].age) <= 48 * Scale(q)
         /\ rank_value(q, q.turns[i]) \in Int
<1>1. i \in DOMAIN q.turns
  BY Zenon DEF Qualified
<1>2. q.turns[i].score \in Int /\ q.turns[i].age \in Nat \cup {Never}
  BY <1>1, Zenon DEF QuestionOK
<1>3. PICK scale \in Nat : scale = Scale(q)
  BY BonusIs
<1>4. Bonus(q, q.turns[i].age) \in Nat /\ Bonus(q, q.turns[i].age) <= 48 * Scale(q)
  <2>1. CASE q.turns[i].age \in Nat
    BY <2>1, BonusIs
  <2>2. CASE q.turns[i].age = Never
    <3>1. Bonus(q, q.turns[i].age) = 0
      BY <2>2, BonusIs, Zenon
    <3>2. 0 <= 48 * scale
      BY SMT
    <3> QED BY <1>3, <3>1, <3>2
  <2> QED BY <1>2, <2>1, <2>2
<1>5. PICK x \in Int, y \in Nat : x = q.turns[i].score /\ y = Bonus(q, q.turns[i].age)
  BY <1>2, <1>4
<1>6. rank_value(q, q.turns[i]) = 320 * x - y
  BY <1>5, Zenon DEF rank_value, Unit
<1>7. 320 * x - y \in Int
  BY SMT
<1> QED BY <1>2, <1>4, <1>6, <1>7, Zenon

(* A turn that ranks no lower is no worse: what its bonus makes up is a    *)
(* near tie, and only a newer one gets more of it.                         *)
LEMMA RankNoWorse ==
  ASSUME NEW q, QuestionOK(q), NEW i \in Qualified(q), NEW j \in Qualified(q),
         rank_value(q, q.turns[i]) <= rank_value(q, q.turns[j])
  PROVE  NoWorse(q, q.turns[i], q.turns[j])
<1> DEFINE g == q.turns[i]
           h == q.turns[j]
<1>1. PICK scale \in Nat : scale = Scale(q)
  BY BonusIs
<1>2. PICK x \in Int, y \in Int : x = g.score /\ y = h.score
  BY RankValueIs
<1>3. PICK u \in Nat, v \in Nat : u = Bonus(q, g.age) /\ v = Bonus(q, h.age)
  BY RankValueIs
<1>4. u <= 48 * scale
  BY <1>1, <1>3, RankValueIs, Zenon
<1>5. rank_value(q, g) = 320 * x - u /\ rank_value(q, h) = 320 * y - v
  BY <1>2, <1>3, Zenon DEF rank_value, Unit
<1>6. 320 * x - u <= 320 * y - v
  BY <1>5
<1>7. SUFFICES ASSUME ~(x <= y) PROVE NearTie(q, g, h) /\ Newer(g, h)
  BY <1>2, Zenon DEF NoWorse
<1>8. 20 * (x - y) <= 3 * scale /\ v < u
  BY <1>4, <1>6, <1>7, SMT
<1>9. NearTie(q, g, h)
  BY <1>1, <1>2, <1>8, Zenon DEF NearTie
<1>10. g.age # Never
  <2>1. Bonus(q, Never) = 0
    BY BonusIs
  <2>2. u # 0
    BY <1>8, SMT
  <2> QED BY <1>3, <2>1, <2>2, Zenon
<1>11. h.age = Never \/ g.age < h.age
  <2> SUFFICES ASSUME h.age # Never, ~(g.age < h.age) PROVE FALSE
    BY Zenon
  <2>1. PICK a \in Nat, c \in Nat : a = h.age /\ c = g.age
    BY <1>10, RankValueIs
  <2>2. a <= c
    BY <2>1, SMT
  <2>3. Bonus(q, c) <= Bonus(q, a)
    BY <2>2, BonusIs
  <2>4. u <= v
    BY <1>3, <2>1, <2>3, Zenon
  <2> QED BY <1>8, <2>4, SMT
<1> QED BY <1>9, <1>10, <1>11, Zenon DEF Newer

-----------------------------------------------------------------------------
(* The turns that are kept, by rank.                                       *)
InRankOrder(q, m, places) ==
  /\ Ranked(q) = [k \in 1 .. m |-> q.turns[places[k]]]
  /\ \A k \in 1 .. m : places[k] \in Kept(q)
  /\ \A i \in Kept(q) : \E k \in 1 .. m : places[k] = i
  /\ \A k, j \in 1 .. m : k < j =>
       rank_value(q, q.turns[places[k]]) <= rank_value(q, q.turns[places[j]])

(* That is how Ranked has them.                                            *)
LEMMA RankedIs ==
  ASSUME NEW q, QuestionOK(q)
  PROVE  \E m \in Nat : \E places : InRankOrder(q, m, places)
<1> DEFINE in == Kept(q)
           R  == {p \in in \X in : rank_value(q, q.turns[p[1]]) < rank_value(q, q.turns[p[2]])}
           at == [i \in in |-> rank_value(q, q.turns[i])]
<1>1. PICK n \in Nat : DOMAIN q.turns = 1 .. n
  BY Zenon DEF QuestionOK
<1>2. in \subseteq Qualified(q) /\ in \subseteq 1 .. n
  BY <1>1, Zenon DEF Kept, WithinFloor, Qualified
<1>3. in \subseteq Nat /\ IsFiniteSet(in)
  <2>1. IsFiniteSet(1 .. n) /\ 1 .. n \subseteq Nat
    BY FS_Interval, SMT
  <2> HIDE DEF in
  <2> QED BY <1>2, <2>1, FS_Subset
<1>4. \A i \in in : at[i] = rank_value(q, q.turns[i])
  BY Zenon
<1>5. \A i \in in : at[i] \in Int
  BY <1>2, <1>4, RankValueIs, Zenon
<1>6. \A i, j \in in : <<i, j>> \in R <=> at[i] < at[j]
  <2>1. \A i, j \in in : <<i, j>> \in R
                         <=> rank_value(q, q.turns[i]) < rank_value(q, q.turns[j])
    BY Zenon
  <2> HIDE DEF R, at, in
  <2> QED BY <1>4, <2>1, Zenon
<1>7. Ranked(q) = StableSort(q.turns, in, R)
  BY DEF Ranked
<1> HIDE DEF in, R, at
<1>8. Weak(in, R)
  BY <1>5, <1>6, OrderIsWeak
<1>9. PICK m \in Nat : m = Cardinality(in)
  BY <1>3, FS_CardinalityType
<1>10. PICK places : Sorts(q.turns, in, R, places, Ranked(q))
  BY <1>3, <1>7, <1>8, StableSortIs
<1>11. /\ places \in [1 .. m -> in]
       /\ \A i \in in : \E k \in 1 .. m : places[k] = i
       /\ \A k, j \in 1 .. m : k < j => <<places[j], places[k]>> \notin R
       /\ Ranked(q) = [k \in 1 .. m |-> q.turns[places[k]]]
  BY <1>9, <1>10, Zenon DEF Sorts
<1>12. \A k \in 1 .. m : places[k] \in in
  BY <1>11
<1>13. ASSUME NEW k \in 1 .. m, NEW j \in 1 .. m, k < j
       PROVE  rank_value(q, q.turns[places[k]]) <= rank_value(q, q.turns[places[j]])
  <2>1. ~(at[places[j]] < at[places[k]])
    BY <1>6, <1>11, <1>12, <1>13, Zenon
  <2>2. PICK x \in Int, y \in Int : x = at[places[k]] /\ y = at[places[j]]
    BY <1>5, <1>12
  <2>3. x <= y
    BY <2>1, <2>2, SMT
  <2> QED BY <1>4, <1>12, <2>2, <2>3, Zenon
<1>14. InRankOrder(q, m, places)
  BY <1>11, <1>12, <1>13, Zenon DEF InRankOrder, in
<1> QED BY <1>14

-----------------------------------------------------------------------------
(* The places in the ranking where a session that was not shown before     *)
(* comes first.                                                            *)
Opening(q, m, places) ==
  {k \in 1 .. m : /\ q.turns[places[k]].session \notin q.already
                  /\ \A j \in 1 .. k - 1 : q.turns[places[j]].session
                                             # q.turns[places[k]].session}

(* The facts of an answer: so many of those MEMORY.md has no line for.     *)
FactsOK(q, fts, f) ==
  /\ Len(picked_facts(q, fts)) = f /\ f <= MAX_FACTS
  /\ DOMAIN picked_facts(q, fts) = 1 .. f
  /\ \A k \in 1 .. f : /\ ~picked_facts(q, fts)[k].listed
                       /\ picked_facts(q, fts)[k].leaf \notin q.already

(* The turns of an answer: the first l of the w turns that open a session. *)
TurnsOK(q, fts, m, places, w, firsts, l) ==
  /\ \A k \in 1 .. w : firsts[k] \in Opening(q, m, places)
  /\ \A i \in Opening(q, m, places) : \E k \in 1 .. w : firsts[k] = i
  /\ \A k, j \in 1 .. w : k < j => firsts[k] < firsts[j]
  /\ Len(picked(q, fts)) = l
  /\ DOMAIN picked(q, fts) = 1 .. l
  /\ \A k \in 1 .. l : k \in 1 .. w /\ picked(q, fts)[k] = q.turns[places[firsts[k]]]

(* Of the facts none is in MEMORY.md, and none was shown.                  *)
LEMMA FactsAre ==
  ASSUME NEW q, QuestionOK(q), NEW fts
  PROVE  \E f \in Nat : FactsOK(q, fts, f)
<1> DEFINE new == {i \in hidden_facts(q, fts) : /\ q.facts[i].leaf \notin q.already
                                                /\ q.facts[i].fits}
           r   == Filtered(q.facts, new)
<1>1. PICK n \in Nat : DOMAIN q.facts = 1 .. n
  BY Zenon DEF QuestionOK
<1>2. \A i \in hidden_facts(q, fts) : i \in 1 .. n /\ ~q.facts[i].listed
  BY <1>1 DEF hidden_facts, WithinFloor, Found
<1>3. /\ new \in SUBSET (1 .. n)
      /\ \A i \in new : ~q.facts[i].listed /\ q.facts[i].leaf \notin q.already
  BY <1>2, Zenon
<1>4. picked_facts(q, fts) = FirstN(r, MAX_FACTS)
  BY DEF picked_facts
<1>5. MAX_FACTS \in Nat
  BY RankingAssumption DEF RankingAssumption
<1> HIDE DEF new
<1>6. PICK m \in Nat : \E places : Picks(q.facts, new, m, places, r)
  BY <1>1, <1>3, FilteredIs
<1>7. PICK places : Picks(q.facts, new, m, places, r)
  BY <1>6
<1> HIDE DEF r
<1>8. /\ r = [k \in 1 .. m |-> q.facts[places[k]]]
      /\ \A k \in 1 .. m : places[k] \in new
  BY <1>7, Zenon DEF Picks
<1>9. r = [k \in 1 .. m |-> r[k]] /\ \A k \in 1 .. m : r[k] = q.facts[places[k]]
  BY <1>8
<1>10. PICK f \in Nat : /\ f = IF m < MAX_FACTS THEN m ELSE MAX_FACTS
                        /\ IsFirst(r, m, f, FirstN(r, MAX_FACTS))
  BY <1>5, <1>9, FirstNIs
<1>11. f <= MAX_FACTS
  BY <1>5, <1>10, SMT
<1>12. \A k \in 1 .. f : /\ ~picked_facts(q, fts)[k].listed
                         /\ picked_facts(q, fts)[k].leaf \notin q.already
  <2> TAKE k \in 1 .. f
  <2>1. k \in 1 .. m /\ picked_facts(q, fts)[k] = r[k]
    BY <1>4, <1>10, Zenon DEF IsFirst
  <2>2. r[k] = q.facts[places[k]] /\ places[k] \in new
    BY <1>8, <1>9, <2>1, Zenon
  <2>3. picked_facts(q, fts)[k] = q.facts[places[k]]
    BY <2>1, <2>2
  <2> QED BY <1>3, <2>2, <2>3, Zenon
<1>13. FactsOK(q, fts, f)
  BY <1>4, <1>10, <1>11, <1>12, Zenon DEF FactsOK, IsFirst
<1> QED BY <1>13

(* Of the turns each is the first of its session.                          *)
LEMMA TurnsAre ==
  ASSUME NEW q, QuestionOK(q), NEW fts, NEW m \in Nat, NEW places,
         InRankOrder(q, m, places), NEW f \in Nat, FactsOK(q, fts, f)
  PROVE  \E w, l \in Nat : \E firsts :
           /\ l = IF w < MAX_INJECT - f THEN w ELSE MAX_INJECT - f
           /\ TurnsOK(q, fts, m, places, w, firsts, l)
<1> DEFINE r   == Ranked(q)
           new == {k \in DOMAIN r : /\ r[k].session \notin q.already
                                    /\ \A j \in 1 .. k - 1 : r[j].session # r[k].session}
           o   == OnePerSession(q)
<1>1. r = [k \in 1 .. m |-> q.turns[places[k]]]
  BY Zenon DEF InRankOrder
<1>2. DOMAIN r = 1 .. m /\ \A k \in 1 .. m : r[k] = q.turns[places[k]]
  BY <1>1
<1>3. new = Opening(q, m, places)
  <2>1. \A k \in 1 .. m : \A j \in 1 .. k - 1 : j \in 1 .. m
    BY SMT
  <2> HIDE DEF r
  <2> QED BY <1>2, <2>1, Zenon DEF Opening
<1>4. o = Filtered(r, new)
  BY DEF OnePerSession
<1>5. new \in SUBSET (1 .. m)
  BY <1>2
<1> HIDE DEF r, new, o
<1>6. PICK w \in Nat : \E firsts : Picks(r, new, w, firsts, o)
  BY <1>4, <1>5, FilteredIs
<1>7. PICK firsts : Picks(r, new, w, firsts, o)
  BY <1>6
<1>8. /\ o = [k \in 1 .. w |-> r[firsts[k]]]
      /\ \A k \in 1 .. w : firsts[k] \in new
      /\ \A i \in new : \E k \in 1 .. w : firsts[k] = i
      /\ \A k, j \in 1 .. w : k < j => firsts[k] < firsts[j]
  BY <1>7, Zenon DEF Picks
<1>9. o = [k \in 1 .. w |-> o[k]] /\ \A k \in 1 .. w : o[k] = r[firsts[k]]
  BY <1>8
<1>10. PICK N \in Nat : N = MAX_INJECT - f
  <2>1. MAX_FACTS \in Nat /\ MAX_INJECT \in Nat /\ MAX_FACTS < MAX_INJECT
    BY RankingAssumption DEF RankingAssumption
  <2>2. f <= MAX_FACTS
    BY Zenon DEF FactsOK
  <2>3. MAX_INJECT - f \in Nat
    BY <2>1, <2>2, SMT
  <2> QED BY <2>3
<1>11. picked(q, fts) = FirstN(o, N)
  BY <1>10, Zenon DEF picked, FactsOK, o
<1>12. PICK l \in Nat : /\ l = IF w < N THEN w ELSE N
                        /\ IsFirst(o, w, l, FirstN(o, N))
  BY <1>9, FirstNIs
<1>13. \A k \in 1 .. l : /\ k \in 1 .. w
                         /\ picked(q, fts)[k] = q.turns[places[firsts[k]]]
  BY <1>2, <1>5, <1>8, <1>9, <1>11, <1>12, Zenon DEF IsFirst
<1>14. TurnsOK(q, fts, m, places, w, firsts, l)
  BY <1>3, <1>8, <1>11, <1>12, <1>13, Zenon DEF TurnsOK, IsFirst
<1> QED BY <1>10, <1>12, <1>14, Zenon

(* As many members as places, when no two are the same.                    *)
LEMMA AsManyAsPlaces ==
  ASSUME NEW l \in Nat, NEW s, DOMAIN s = 1 .. l,
         \A i, j \in 1 .. l : i # j => s[i] # s[j]
  PROVE  Cardinality(ToSet(s)) = l
<1> DEFINE T == ToSet(s)
           g == [i \in 1 .. l |-> s[i]]
<1>1. \A i \in 1 .. l : g[i] = s[i]
  BY Zenon
<1>2. T = {g[i] : i \in 1 .. l}
  BY <1>1 DEF ToSet
<1>3. g \in [1 .. l -> T]
  BY <1>2
<1>4. \A t \in T : \E i \in 1 .. l : g[i] = t
  BY <1>2
<1>5. \A i, j \in 1 .. l : g[i] = g[j] => i = j
  BY <1>1, Zenon
<1> HIDE DEF T, g
<1>6. ExistsBijection(1 .. l, T)
  <2>1. g \in Injection(1 .. l, T)
    BY <1>3, <1>5, Zenon DEF Injection, IsInjective
  <2>2. g \in Surjection(1 .. l, T)
    BY <1>3, <1>4, Zenon DEF Surjection
  <2> QED BY <2>1, <2>2, Zenon DEF Bijection, ExistsBijection
<1>7. Cardinality(T) = l
  BY <1>6, FS_CountingElements
<1> QED BY <1>7 DEF T

-----------------------------------------------------------------------------
(* Two turns of an answer are of two sessions.                             *)
LEMMA SessionsDiffer ==
  ASSUME NEW q, NEW fts, NEW m \in Nat, NEW places, NEW w \in Nat, NEW l \in Nat,
         NEW firsts, TurnsOK(q, fts, m, places, w, firsts, l)
  PROVE  \A i, j \in 1 .. l : i # j => picked(q, fts)[i].session # picked(q, fts)[j].session
<1> DEFINE p == picked(q, fts)
<1>1. ASSUME NEW i \in 1 .. l, NEW j \in 1 .. l, i < j
      PROVE  p[i].session # p[j].session
  <2>1. i \in 1 .. w /\ j \in 1 .. w
    BY Zenon DEF TurnsOK
  <2>2. firsts[i] < firsts[j]
    BY <1>1, <2>1, Zenon DEF TurnsOK
  <2>3. firsts[i] \in Opening(q, m, places) /\ firsts[j] \in Opening(q, m, places)
    BY <2>1, Zenon DEF TurnsOK
  <2>4. firsts[i] \in 1 .. m /\ firsts[j] \in 1 .. m
    BY <2>3, Zenon DEF Opening
  <2>5. firsts[i] \in 1 .. firsts[j] - 1
    BY <2>2, <2>4, SMT
  <2>6. q.turns[places[firsts[i]]].session # q.turns[places[firsts[j]]].session
    BY <2>3, <2>5, Zenon DEF Opening
  <2> QED BY <2>6, Zenon DEF TurnsOK
<1>2. ASSUME NEW i \in 1 .. l, NEW j \in 1 .. l, i # j
      PROVE  p[i].session # p[j].session
  <2>1. CASE i < j
    BY <1>1, <2>1
  <2>2. CASE j < i
    BY <1>1, <2>2, Zenon
  <2> QED BY <1>2, <2>1, <2>2
<1> QED BY <1>2, Zenon

(* So it has as many turns as places.                                      *)
LEMMA ShownAreMany ==
  ASSUME NEW q, NEW fts, NEW m \in Nat, NEW places, NEW w \in Nat, NEW l \in Nat,
         NEW firsts, TurnsOK(q, fts, m, places, w, firsts, l)
  PROVE  Cardinality(ToSet(picked(q, fts))) = l
<1> DEFINE p == picked(q, fts)
<1>1. \A i, j \in 1 .. l : i # j => p[i] # p[j]
  <2>1. \A i, j \in 1 .. l : i # j => p[i].session # p[j].session
    BY SessionsDiffer
  <2> QED BY <2>1, Zenon
<1>2. DOMAIN p = 1 .. l
  BY Zenon DEF TurnsOK
<1> HIDE DEF p
<1>3. Cardinality(ToSet(p)) = l
  BY <1>1, <1>2, AsManyAsPlaces
<1> QED BY <1>3, Zenon DEF p

(* A turn of a session that was not shown is behind the one that opens it. *)
LEMMA OpenedBefore ==
  ASSUME NEW q, NEW m \in Nat, NEW places, NEW k \in 1 .. m,
         q.turns[places[k]].session \notin q.already
  PROVE  \E o \in Opening(q, m, places) :
           /\ o \in 1 .. m /\ o <= k
           /\ q.turns[places[o]].session = q.turns[places[k]].session
<1> DEFINE S == q.turns[places[k]].session
           K == {j \in 1 .. m : q.turns[places[j]].session = S}
<1>1. K \in SUBSET Nat /\ K # {}
  <2>1. k \in K
    OBVIOUS
  <2>2. 1 .. m \subseteq Nat
    BY SMT
  <2> QED BY <2>1, <2>2, Zenon
<1>2. PICK o \in K : \A j \in K : ~(j < o)
  <2> HIDE DEF K
  <2> QED BY <1>1, LeastExists
<1>3. o \in 1 .. m /\ q.turns[places[o]].session = S
  BY <1>2, Zenon
<1>4. o <= k
  <2>1. ~(k < o)
    BY <1>2
  <2> QED BY <1>3, <2>1, SMT
<1>5. \A j \in 1 .. o - 1 : q.turns[places[j]].session # q.turns[places[o]].session
  <2> TAKE j \in 1 .. o - 1
  <2>1. j \in 1 .. m /\ j < o
    BY <1>3, SMT
  <2>2. j \notin K
    BY <1>2, <2>1, Zenon
  <2> QED BY <1>3, <2>1, <2>2, Zenon
<1>6. o \in Opening(q, m, places)
  BY <1>3, <1>5, Zenon DEF Opening
<1> QED BY <1>3, <1>4, <1>6, Zenon

(* What is ahead in the ranking is no worse.                               *)
LEMMA AheadNoWorse ==
  ASSUME NEW q, QuestionOK(q), NEW m \in Nat, NEW places, InRankOrder(q, m, places),
         NEW k \in 1 .. m, NEW j \in 1 .. m, k <= j
  PROVE  NoWorse(q, q.turns[places[k]], q.turns[places[j]])
<1>1. Kept(q) \subseteq Qualified(q)
  BY Zenon DEF Kept, WithinFloor
<1>2. places[k] \in Qualified(q) /\ places[j] \in Qualified(q)
  BY <1>1, Zenon DEF InRankOrder
<1>3. rank_value(q, q.turns[places[k]]) <= rank_value(q, q.turns[places[j]])
  <2>1. CASE k = j
    <3>1. PICK x \in Int : x = rank_value(q, q.turns[places[k]])
      BY <1>2, RankValueIs
    <3> QED BY <2>1, <3>1
  <2>2. CASE k # j
    <3>1. k < j
      BY <2>2
    <3> QED BY <3>1, Zenon DEF InRankOrder
  <2> QED BY <2>1, <2>2
<1> QED BY <1>2, <1>3, RankNoWorse

-----------------------------------------------------------------------------
(* For any question, each turn that is passed over has its reason.         *)
LEMMA NoneIsHidden ==
  ASSUME NEW q, QuestionOK(q)
  PROVE  NoBetterTurnHidden(q)
<1> SUFFICES ASSUME NEW fts \in fts_terms(q),
                    NEW i0 \in Kept(q), q.turns[i0] \notin ToSet(picked(q, fts)),
                    q.turns[i0].session \notin q.already
    PROVE  \/ \E g \in ToSet(picked(q, fts)) :
                g.session = q.turns[i0].session /\ NoWorse(q, g, q.turns[i0])
           \/ /\ Cardinality(ToSet(picked(q, fts))) + Len(picked_facts(q, fts)) = MAX_INJECT
              /\ \A g \in ToSet(picked(q, fts)) : NoWorse(q, g, q.turns[i0])
  BY Zenon DEF NoBetterTurnHidden
<1> DEFINE h == q.turns[i0]
           p == picked(q, fts)
<1>1. PICK m \in Nat : \E places : InRankOrder(q, m, places)
  BY RankedIs
<1>2. PICK places : InRankOrder(q, m, places)
  BY <1>1
<1>3. PICK f \in Nat : FactsOK(q, fts, f)
  BY FactsAre
<1>4. PICK w, l \in Nat : \E firsts :
        /\ l = IF w < MAX_INJECT - f THEN w ELSE MAX_INJECT - f
        /\ TurnsOK(q, fts, m, places, w, firsts, l)
  BY <1>2, <1>3, TurnsAre
<1>5. PICK firsts : /\ l = IF w < MAX_INJECT - f THEN w ELSE MAX_INJECT - f
                    /\ TurnsOK(q, fts, m, places, w, firsts, l)
  BY <1>4
<1>6. PICK k \in 1 .. m : places[k] = i0
  BY <1>2, Zenon DEF InRankOrder
<1>7. PICK o \in Opening(q, m, places) :
        o \in 1 .. m /\ o <= k /\ q.turns[places[o]].session = h.session
  BY <1>6, OpenedBefore
<1>8. PICK a \in 1 .. w : firsts[a] = o
  BY <1>5, <1>7, Zenon DEF TurnsOK
<1>9. DOMAIN p = 1 .. l /\ \A b \in 1 .. l : b \in 1 .. w /\ p[b] = q.turns[places[firsts[b]]]
  BY <1>5, Zenon DEF TurnsOK
<1>10. CASE a \in 1 .. l
  <2>1. p[a] = q.turns[places[o]] /\ p[a] \in ToSet(p)
    BY <1>8, <1>9, <1>10, Zenon DEF ToSet
  <2>2. NoWorse(q, q.turns[places[o]], h)
    BY <1>2, <1>6, <1>7, AheadNoWorse
  <2> QED BY <1>7, <2>1, <2>2, Zenon
<1>11. CASE ~(a \in 1 .. l)
  <2>1. MAX_INJECT \in Nat
    BY RankingAssumption DEF RankingAssumption
  <2>2. l < a /\ l = MAX_INJECT - f
    BY <1>5, <1>11, <2>1, SMT
  <2>3. Cardinality(ToSet(p)) + Len(picked_facts(q, fts)) = MAX_INJECT
    <3>1. Cardinality(ToSet(p)) = l
      BY <1>5, ShownAreMany
    <3>2. Len(picked_facts(q, fts)) = f
      BY <1>3, Zenon DEF FactsOK
    <3> QED BY <2>1, <2>2, <3>1, <3>2
  <2>4. ASSUME NEW g \in ToSet(p)
        PROVE  NoWorse(q, g, h)
    <3>1. PICK b \in 1 .. l : g = p[b]
      BY <1>9, <2>4, Zenon DEF ToSet
    <3>2. b \in 1 .. w /\ g = q.turns[places[firsts[b]]]
      BY <1>9, <3>1, Zenon
    <3>3. b < a
      BY <2>2, <3>1, SMT
    <3>4. firsts[b] < firsts[a] /\ firsts[b] \in 1 .. m
      BY <1>5, <3>2, <3>3, Zenon DEF TurnsOK, Opening
    <3>5. firsts[b] <= k
      BY <1>7, <1>8, <3>4, SMT
    <3>6. NoWorse(q, q.turns[places[firsts[b]]], q.turns[places[k]])
      BY <1>2, <3>4, <3>5, AheadNoWorse
    <3> QED BY <1>6, <3>2, <3>6, Zenon
  <2> QED BY <2>3, <2>4
<1> QED BY <1>10, <1>11, Zenon

(* For any question, facts leave a turn its room.                          *)
LEMMA TurnsHaveRoom ==
  ASSUME NEW q, QuestionOK(q)
  PROVE  FactsLeaveRoom(q)
<1> SUFFICES ASSUME NEW fts \in fts_terms(q)
    PROVE  LET p == picked(q, fts)
               f == picked_facts(q, fts)
           IN  /\ (\E c \in ToSet(Ranked(q)) : c.session \notin q.already) => p # <<>>
               /\ Len(p) + Len(f) <= MAX_INJECT
               /\ \A i, j \in DOMAIN p : i # j => p[i].session # p[j].session
               /\ \A i \in DOMAIN f : ~f[i].listed /\ f[i].leaf \notin q.already
  BY Zenon DEF FactsLeaveRoom
<1> DEFINE p == picked(q, fts)
<1>1. PICK m \in Nat : \E places : InRankOrder(q, m, places)
  BY RankedIs
<1>2. PICK places : InRankOrder(q, m, places)
  BY <1>1
<1>3. PICK f \in Nat : FactsOK(q, fts, f)
  BY FactsAre
<1>4. PICK w, l \in Nat : \E firsts :
        /\ l = IF w < MAX_INJECT - f THEN w ELSE MAX_INJECT - f
        /\ TurnsOK(q, fts, m, places, w, firsts, l)
  BY <1>2, <1>3, TurnsAre
<1>5. PICK firsts : /\ l = IF w < MAX_INJECT - f THEN w ELSE MAX_INJECT - f
                    /\ TurnsOK(q, fts, m, places, w, firsts, l)
  BY <1>4
<1>6. MAX_INJECT \in Nat /\ MAX_FACTS \in Nat /\ MAX_FACTS < MAX_INJECT /\ f <= MAX_FACTS
  <2>1. f <= MAX_FACTS
    BY <1>3, Zenon DEF FactsOK
  <2> QED BY <2>1, RankingAssumption DEF RankingAssumption
<1>7. ASSUME NEW c \in ToSet(Ranked(q)), c.session \notin q.already
      PROVE  p # <<>>
  <2>1. DOMAIN Ranked(q) = 1 .. m /\ \A k \in 1 .. m : Ranked(q)[k] = q.turns[places[k]]
    BY <1>2 DEF InRankOrder
  <2>2. PICK k \in 1 .. m : c = q.turns[places[k]]
    BY <1>7, <2>1, Zenon DEF ToSet
  <2>3. PICK o \in Opening(q, m, places) : TRUE
    BY <1>7, <2>2, OpenedBefore
  <2>4. PICK a \in 1 .. w : firsts[a] = o
    BY <1>5, <2>3, Zenon DEF TurnsOK
  <2>5. l >= 1
    BY <1>5, <1>6, <2>4, SMT
  <2>6. Len(p) = l
    BY <1>5, Zenon DEF TurnsOK
  <2> HIDE DEF p
  <2> QED BY <2>5, <2>6
<1>8. Len(p) + Len(picked_facts(q, fts)) <= MAX_INJECT
  <2>1. Len(p) = l /\ Len(picked_facts(q, fts)) = f
    BY <1>3, <1>5, Zenon DEF TurnsOK, FactsOK
  <2>2. l + f <= MAX_INJECT
    BY <1>5, <1>6, SMT
  <2> QED BY <2>1, <2>2
<1>9. \A i, j \in DOMAIN p : i # j => p[i].session # p[j].session
  <2>1. DOMAIN p = 1 .. l
    BY <1>5, Zenon DEF TurnsOK
  <2>2. \A i, j \in 1 .. l : i # j => p[i].session # p[j].session
    BY <1>5, SessionsDiffer
  <2> QED BY <2>1, <2>2, Zenon
<1>10. \A i \in DOMAIN picked_facts(q, fts) :
        /\ ~picked_facts(q, fts)[i].listed
        /\ picked_facts(q, fts)[i].leaf \notin q.already
  BY <1>3, Zenon DEF FactsOK
<1> QED BY <1>7, <1>8, <1>9, <1>10, Zenon

(* Of any turns and facts that a search can return, the answer is the best *)
(* that is not shown yet: a turn is passed over only for a turn of its     *)
(* session that is no worse, or when every line is taken by turns that are *)
(* no worse, recency deciding near ties alone; facts leave a turn its room *)
(* (recall.rs).                                                            *)
THEOREM AnswersAreBest ==
  ASSUME QuestionOK(question)
  PROVE  BestAnswer
<1>1. NoBetterTurnHidden(question) /\ FactsLeaveRoom(question)
  BY NoneIsHidden, TurnsHaveRoom
<1> QED BY <1>1, Zenon DEF BestAnswer, Answered
=============================================================================
