------------------------------- MODULE MCFacts -------------------------------
(* One instance of the curated facts for TLC.  A behaviour is about lanes  *)
(* that register facts and write MEMORY.md, or about one memory, which     *)
(* grows leaf by leaf: what is selected from it, what its links resolve to *)
(* or what an import of its own index makes of it.                         *)
EXTENDS Curated

CONSTANTS l1, l2, p1, p2

TwoLeaves == {l1, l2}
TwoProcs  == {p1, p2}
Symmetry  == Permutations(TwoProcs) \cup Permutations(TwoLeaves)

NoLanes == /\ leaf = [l \in Leaves |-> "none"] /\ row = [l \in Leaves |-> NoRow]
           /\ index = <<>> /\ proc = [p \in Procs |-> Idle]
           /\ before = {} /\ handed = {} /\ blanked = {} /\ commands = 0

MInit ==
  /\ memory = <<>>
  /\ \/ about = "lanes" /\ FInit
     \/ about \in {"index", "links", "import"} /\ NoLanes

(* What Selection ranks by, with positions that two lanes may have given   *)
(* twice.                                                                  *)
Ranked(n) == [leaf : {n}, pinned : {0, 1}, type : {"user", "other"},
              updated : {1, 2}, hits : {0}, seq : {<<>>, <<0>>, <<1>>},
              size : {1, 2}]

(* Two leaves of any kind, and a third that is there.                      *)
Stem(n)  == CASE n = 1 -> "a" [] n = 2 -> "b" [] n = 3 -> "c"
Slugs    == {NoName, "a", "x"}
Link(n)  == [stem : {Stem(n)}, there : BOOLEAN, fm : Slugs,
             row : {NoRow} \cup [name : Slugs, active : BOOLEAN, seq : {n, 7 - n}],
             links : {{}, {"x"}, {"b"}}]
Plain(n) == {f \in Link(n) : /\ f.there
                             /\ f.fm = "x" \/ f.links = {}
                             /\ f.row # NoRow => f.row.seq = n}

(* A leaf has a file or an active row, or both.                            *)
Leafy(n) == {f \in [leaf : {n}, pinned : {0, 1}, type : {"user"}, updated : {1, 2},
                    hits : {0}, seq : {<<>>, <<2 - n>>, <<5>>}, size : {1, 2},
                    there : BOOLEAN, pins : BOOLEAN, row : BOOLEAN, active : BOOLEAN] :
               f.row \/ (f.there /\ f.active /\ f.pinned = 0 /\ f.seq = <<>>)}
Sure(n)  == {f \in Leafy(n) : f.there /\ f.row /\ f.active /\ ~f.pins /\ f.updated = 1}

Grows(what, kinds) ==
  /\ about = what
  /\ \E f \in kinds : memory' = Append(memory, f)
  /\ UNCHANGED <<about, fvars>>
At3(kinds, last) == IF Len(memory) = 2 THEN last ELSE kinds
Next1 == Len(memory) + 1

MNext ==
  \/ about = "lanes" /\ FNext /\ UNCHANGED <<about, memory>>
  \/ Len(memory) < 3 /\ Grows("index", Ranked(Next1))
  \/ Len(memory) < 3 /\ Grows("links", At3(Link(Next1), Plain(Next1)))
  \/ Len(memory) < 3 /\ Grows("import", At3(Leafy(Next1), Sure(Next1)))

FactsSpec == MInit /\ [][MNext]_<<fvars, about, memory>>
=============================================================================
