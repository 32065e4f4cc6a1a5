------------------------------- MODULE Import -------------------------------
(***************************************************************************)
(* Reading MEMORY.md and the leaves back into the table                    *)
(* (src/src/import_existing.rs): the line of a leaf gives its row title,   *)
(* hook and position, a leaf without a line has no position, pins only     *)
(* grow and an existing row keeps its status.                              *)
(*                                                                         *)
(* A memory is a sequence of facts in the order of their leaves: the parts *)
(* Selection ranks by, and whether the leaf file is there, pins its fact   *)
(* and has a row, and whether the row is active.                           *)
(***************************************************************************)
EXTENDS Selection

Selected(memory) == {i \in DOMAIN memory : memory[i].row /\ memory[i].active}
Sizes(memory)    == [f \in ToSet(memory) |-> f.size]
Index(memory) ==
  LET s == Shown(memory, Selected(memory), FALSE, Sizes(memory))
  IN  [i \in DOMAIN s |-> s[i].leaf]

(* Positions count the lines, those without a leaf file included.          *)
parse_index(index, leaf) ==
  IF \E i \in DOMAIN index : index[i] = leaf
  THEN <<(CHOOSE i \in DOMAIN index : index[i] = leaf) - 1>>
  ELSE <<>>

(* Mutant: the pin of the leaf replaces the stored one.                    *)
PinOfLeaf(stored, pin) == IF pin THEN 1 ELSE 0

MaxPinned(stored, pin) == IF pin THEN 1 ELSE stored

ImportLeaf(f, index, now) ==
  [f EXCEPT !.seq = parse_index(index, f.leaf),
            !.updated = now,
            !.row = TRUE,
            !.active = IF f.row THEN f.active ELSE TRUE,
            !.pinned = IF f.row THEN MaxPinned(f.pinned, f.pins)
                       ELSE MaxPinned(0, f.pins)]

Imported(memory, index, now) ==
  [i \in DOMAIN memory |->
     IF memory[i].there THEN ImportLeaf(memory[i], index, now) ELSE memory[i]]

-----------------------------------------------------------------------------
(* Importing a generated index changes nothing in it: when the leaves are  *)
(* there and no pinned fact was left out, generating again gives the same  *)
(* lines in the same order.  No pin and no archived status is lost either  *)
(* (import_existing.rs:3).                                                 *)
SameIndexAgain(memory, now) ==
  LET index == Index(memory)
      after == Imported(memory, index, now)
      whole == \A i \in DOMAIN memory :
                 /\ memory[i].there /\ memory[i].row
                 /\ (memory[i].pinned = 1 \/ memory[i].pins) /\ memory[i].active
                      => memory[i].leaf \in ToSet(index)
  IN  /\ whole => Index(after) = index
      /\ \A i \in DOMAIN memory :
           memory[i].row => /\ after[i].active = memory[i].active
                            /\ after[i].pinned >= memory[i].pinned
=============================================================================
