------------------------------- MODULE Sorting -------------------------------
(***************************************************************************)
(* What Rust's sort_by_key does, of what a sequence has at some places: a  *)
(* stable sort.                                                            *)
(***************************************************************************)
EXTENDS Integers, Sequences, SequencesExt

(* Of the places in, ahead holds the pairs whose first goes before its     *)
(* second; of equals the earlier stays the earlier.                        *)
StableSort(s, in, ahead) ==
  LET place(i) == 1 + Cardinality({j \in in : \/ <<j, i>> \in ahead
                                              \/ <<i, j>> \notin ahead /\ j < i})
  IN  [k \in 1 .. Cardinality(in) |-> s[CHOOSE i \in in : place(i) = k]]

(* What is at the places, as it was.                                       *)
Filtered(s, in) == StableSort(s, in, {})
=============================================================================
