-------------------------------- MODULE Facts --------------------------------
(***************************************************************************)
(* The curated facts of one project and the MEMORY.md made from them       *)
(* (src/src/facts.rs, src/src/generate.rs), while several lanes register,  *)
(* archive and pin facts and regenerate the file at the same time.         *)
(*                                                                         *)
(* A fact is a leaf file and a row.  An upsert reads the leaf, reads the   *)
(* row, and writes the row in statements of their own, without a           *)
(* transaction around them; a new row takes the position after the         *)
(* greatest.  Generate reads the rows in one statement and rewrites the    *)
(* file in place: it empties it, then writes.                              *)
(*                                                                         *)
(* Abstractions.  A leaf is its description: none, blank, one that fits an *)
(* index line and one that is cut.  Of a row: the index line, the          *)
(* description, position, pin and status; type and title follow the same   *)
(* precedence and the rest of the ranking is any (it is in Selection).  An *)
(* index line that --hook gave is "hand".                                  *)
(***************************************************************************)
EXTENDS Selection

CONSTANTS
  Leaves, Procs, NoRow,
  MaxCommands  \* bound: commands and edits

ASSUME FactsAssumption ==
  /\ IsFiniteSet(Leaves) /\ {Room, Lines, MaxCommands} \subseteq Nat
  /\ NoRow \notin [hook : {"empty", "short", "cut", "hand"},
                    description : {"none", "blank", "short", "long"},
                    seq : Nat, pinned : BOOLEAN, active : BOOLEAN]

VARIABLES
  leaf,    \* the leaf files
  row,     \* the rows of the facts table
  index,   \* MEMORY.md
  proc,    \* what each lane is doing
  before,  \* history: pairs of facts, the first stored when the second's
           \* position was taken
  handed,  \* history: facts whose index line was once given by hand
  blanked, \* history: facts whose description was once stored blank
  commands \* how many were given

db      == <<row, before, handed, blanked>>
fvars   == <<leaf, index, proc, db, commands>>

Leaf == {"none", "blank", "short", "long"}
Hook == {"empty", "short", "cut", "hand"}
Row  == [hook : Hook, description : Leaf, seq : Nat, pinned : BOOLEAN,
         active : BOOLEAN]
Idle == [at |-> "idle"]

Stored == {l \in Leaves : row[l] # NoRow}
Active == {l \in Stored : row[l].active}

(* The types; a stored fact has a position among the stored ones.          *)
FTypeOK ==
  /\ leaf \in [Leaves -> Leaf]
  /\ row \in [Leaves -> Row \cup {NoRow}]
  /\ \A l \in Stored : row[l].seq < Cardinality(Stored)
  /\ before \subseteq Stored \X Stored
  /\ handed \subseteq Leaves /\ blanked \subseteq Leaves
  /\ \A p \in Procs : proc[p].at \in
       {"idle", "row", "update", "seq", "insert", "open", "write"}

FInit ==
  /\ leaf \in [Leaves -> {"none", "short"}]
  /\ row = [l \in Leaves |-> NoRow]
  /\ index = <<>>
  /\ proc = [p \in Procs |-> Idle]
  /\ before = {} /\ handed = {} /\ blanked = {} /\ commands = 0

-----------------------------------------------------------------------------
(* The index line of an upsert: the flag, else the stored line unless it   *)
(* only copied the old description and the leaf has one, else the leaf's.  *)

cap_hook(d) == CASE d \in {"none", "blank"} -> "empty"
                 [] d = "long" -> "cut"
                 [] OTHER -> d

(* Mutant: a stored line is always somebody's.                             *)
DefaultHookNever(r) == FALSE

DefaultHook(r) ==
  r # NoRow /\ r.hook # "empty" /\ r.description # "none"
            /\ r.hook = cap_hook(r.description)

NewHook(flag, fm, r) ==
  IF flag # "empty" THEN flag
  ELSE IF r # NoRow /\ r.hook # "empty"
          /\ ~(DefaultHook(r) /\ fm \notin {"none", "blank"})
  THEN r.hook
  ELSE cap_hook(fm)

NewDescription(fm, r) ==
  IF fm # "none" THEN fm ELSE IF r # NoRow THEN r.description ELSE "none"

At(p, at) == proc[p].at = at
Sets(p, r) == proc' = [proc EXCEPT ![p] = r]

-----------------------------------------------------------------------------
(* An upsert, which starts by reading the leaf.                            *)

Upsert(p) ==
  /\ At(p, "idle")
  /\ \E l \in Leaves, flag \in {"empty", "hand"}, pin \in BOOLEAN :
       Sets(p, [at |-> "row", leaf |-> l, flag |-> flag, pin |-> pin,
                fm |-> leaf[l]])
  /\ UNCHANGED <<leaf, index, db>>

ReadRow(p) ==
  /\ At(p, "row")
  /\ LET u == proc[p]
         r == row[u.leaf]
     IN  Sets(p, [at |-> IF r = NoRow THEN "seq" ELSE "update",
                  leaf |-> u.leaf, pin |-> u.pin, given |-> u.flag # "empty",
                  hook |-> NewHook(u.flag, u.fm, r),
                  description |-> NewDescription(u.fm, r)])
  /\ UNCHANGED <<leaf, index, db>>

(* What this write does to the histories.                                  *)
Remember(u) ==
  /\ handed' = IF u.given THEN handed \cup {u.leaf} ELSE handed
  /\ blanked' = IF u.description = "blank" THEN blanked \cup {u.leaf} ELSE blanked

(* Mutant: the flag replaces the stored pin.                               *)
PinAsGiven(stored, pin) == pin

MaxPin(stored, pin) == stored \/ pin

UpdateRow(p) ==
  /\ At(p, "update")
  /\ LET u == proc[p]
     IN  /\ row' = [row EXCEPT ![u.leaf].hook = u.hook,
                               ![u.leaf].description = u.description,
                               ![u.leaf].active = TRUE,
                               ![u.leaf].pinned = MaxPin(@, u.pin)]
         /\ Remember(u)
  /\ Sets(p, Idle)
  /\ UNCHANGED <<leaf, index, before>>

Positions == {row[l].seq : l \in Stored}

(* Mutant: the next position after the active facts.                       *)
NextSeqActive ==
  LET taken == {row[l].seq : l \in Active}
  IN  IF taken = {} THEN 0
      ELSE 1 + CHOOSE n \in taken : \A m \in taken : m <= n

NextSeq == IF Positions = {} THEN 0
           ELSE 1 + CHOOSE n \in Positions : \A m \in Positions : m <= n

ReadSeq(p) ==
  /\ At(p, "seq")
  /\ LET u == proc[p]
     IN  Sets(p, [at |-> "insert", leaf |-> u.leaf, pin |-> u.pin, given |-> u.given,
                  hook |-> u.hook, description |-> u.description,
                  seq |-> NextSeq, known |-> Stored])
  /\ UNCHANGED <<leaf, index, db>>

(* The same leaf was inserted by another lane: the statement fails.        *)
InsertRow(p) ==
  /\ At(p, "insert")
  /\ LET u == proc[p]
     IN  IF row[u.leaf] # NoRow THEN UNCHANGED db
         ELSE /\ row' = [row EXCEPT ![u.leaf] =
                          [hook |-> u.hook, description |-> u.description,
                           seq |-> u.seq, pinned |-> u.pin, active |-> TRUE]]
              /\ before' = before \cup {<<l, u.leaf>> : l \in u.known}
              /\ Remember(u)
  /\ Sets(p, Idle)
  /\ UNCHANGED <<leaf, index>>

(* One statement each.                                                     *)
SetRow(l, r) == row' = [row EXCEPT ![l] = r] /\ UNCHANGED <<before, handed, blanked>>

Archive(l) ==
  /\ l \in Stored
  /\ SetRow(l, [row[l] EXCEPT !.active = FALSE])
  /\ UNCHANGED <<leaf, index, proc>>

Pin(l) ==
  /\ l \in Stored
  /\ SetRow(l, [row[l] EXCEPT !.pinned = TRUE])
  /\ UNCHANGED <<leaf, index, proc>>

Unpin(l) ==
  /\ l \in Stored
  /\ SetRow(l, [row[l] EXCEPT !.pinned = FALSE])
  /\ UNCHANGED <<leaf, index, proc>>

-----------------------------------------------------------------------------
(* Generate.  A line is one piece, or two when its description was cut, so *)
(* that lines of different lengths can be told apart.                      *)

LineSize(l) == IF row[l].hook = "cut" THEN 2 ELSE 1
Line(l)     == [i \in 1 .. LineSize(l) |-> <<l, row[l].hook, i>>]

(* Pinned first; the order among equals is any.                            *)
Orders == {s \in SetToSeqs(Active) :
             \A i, j \in DOMAIN s : i < j /\ row[s[j]].pinned => row[s[i]].pinned}
Body(order) ==
  LET fits  == Fitting(order, [l \in Active |-> LineSize(l)])
      shown == StableSort(fits, DOMAIN fits,
                 {p \in (DOMAIN fits) \X (DOMAIN fits) :
                    row[fits[p[1]]].seq < row[fits[p[2]]].seq})
  IN  FlattenSeq([i \in DOMAIN shown |-> Line(shown[i])])

ReadFacts(p) ==
  /\ At(p, "idle") /\ Active # {}
  /\ \E order \in Orders : Sets(p, [at |-> "open", body |-> Body(order)])
  /\ UNCHANGED <<leaf, index, db>>

OpenIndex(p) ==
  /\ At(p, "open")
  /\ index' = <<>>
  /\ Sets(p, [at |-> "write", body |-> proc[p].body])
  /\ UNCHANGED <<leaf, db>>

(* The bytes go to the front of whatever is there by now.                  *)
Over(body, old) == body \o SubSeq(old, Len(body) + 1, Len(old))

WriteIndex(p) ==
  /\ At(p, "write")
  /\ index' = Over(proc[p].body, index)
  /\ Sets(p, Idle)
  /\ UNCHANGED <<leaf, db>>

-----------------------------------------------------------------------------
Killed(p) ==
  /\ ~At(p, "idle")
  /\ Sets(p, Idle)
  /\ UNCHANGED <<leaf, index, db>>

EditLeaf(l) ==
  /\ \E d \in Leaf \ {leaf[l]} : leaf' = [leaf EXCEPT ![l] = d]
  /\ UNCHANGED <<index, proc, db>>

Command ==
  \/ \E p \in Procs : Upsert(p) \/ ReadFacts(p)
  \/ \E l \in Leaves : Archive(l) \/ Pin(l) \/ Unpin(l) \/ EditLeaf(l)

Works(p) ==
  \/ ReadRow(p) \/ UpdateRow(p) \/ ReadSeq(p) \/ InsertRow(p)
  \/ OpenIndex(p) \/ WriteIndex(p)

FNext ==
  \/ Command /\ commands < MaxCommands /\ commands' = commands + 1
  \/ (\E p \in Procs : Works(p) \/ Killed(p)) /\ UNCHANGED commands

FSpec == FInit /\ [][FNext]_fvars

-----------------------------------------------------------------------------
(* A pin is undone only by `fact unpin`, never by an upsert that read the  *)
(* row before the pin and writes it after.                                 *)
PinKept == [][\A l \in Stored : row[l].pinned /\ ~row'[l].pinned => Unpin(l)]_fvars

(* A fact stored before another's position was taken comes before it in    *)
(* the curated order, archived and revived facts included: "New facts      *)
(* append to the end of the curated order" (facts.rs:297).                 *)
OrderKept == \A pair \in before : row[pair[1]].seq < row[pair[2]].seq

(* The index line of a fact nobody wrote a line for, and whose description *)
(* was never blank, follows its description, whatever the lanes read       *)
(* before one another's writes (CHANGELOG.md:77).                          *)
LineFollows ==
  \A l \in Stored \ (handed \cup blanked) :
    row[l].hook = cap_hook(row[l].description)

(* MEMORY.md stays within its bytes, though two generates may write it at  *)
(* once and leave the tail of one behind the other's lines.                *)
IndexFits == Len(index) <= Room
=============================================================================
