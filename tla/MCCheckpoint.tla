---------------------------- MODULE MCCheckpoint ----------------------------
(* Instances of Checkpoint for TLC. *)
EXTENDS Checkpoint, TLC

CONSTANTS s1, c1, r1, r2

OneSession == {s1}
OneChild   == {c1}
OneReader  == {r1}
TwoReaders == {r1, r2}
EveryRole  == {"child", "lane", "live"}
ReaderSymmetry == Permutations(TwoReaders)

(* The behaviours in which the transcript of the child is one turn and     *)
(* always complete.                                                        *)
ChildrenTerse ==
  Init /\ [][/\ Next
             /\ \A c \in Children : hi'[c] <= 0 /\ ~row'[c].unread]_vars
=============================================================================
