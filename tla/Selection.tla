------------------------------ MODULE Selection ------------------------------
(***************************************************************************)
(* Which facts MEMORY.md holds, and in which order                         *)
(* (src/src/generate.rs).  The candidates are tried best first; each goes  *)
(* in if its line still fits the bytes and the lines that are left, and a  *)
(* line too long does not stop the shorter ones behind it.  What went in   *)
(* is shown in the curated order.                                          *)
(***************************************************************************)
EXTENDS Sorting

CONSTANTS
  Room,   \* bytes the header leaves of the budget
  Lines   \* lines the header leaves of the load cap

(* type_weight of a fact's type; an unknown type is in the middle.         *)
type_weight(t) == CASE t \in {"feedback", "user"} -> 40
                    [] t = "project" -> 20
                    [] t = "reference" -> 10
                    [] OTHER -> 15

(* Greater is better, part after part.  A fact out of the curated order    *)
(* comes last among equals.                                                *)
NoSeq == 1000000000
rank_key(f) == <<f.pinned, type_weight(f.type), f.updated, f.hits,
                 -(IF f.seq = <<>> THEN NoSeq ELSE f.seq[1])>>

Above(a, b) == \E i \in DOMAIN a : a[i] > b[i] /\ \A j \in 1 .. i - 1 : a[j] = b[j]
Better(f, g) == Above(rank_key(f), rank_key(g))

(* Shown before: by position, the facts without one last.                  *)
ShownBefore(f, g) == /\ f.seq # <<>>
                     /\ g.seq = <<>> \/ f.seq[1] < g.seq[1]

candidate(f, orphans) == orphans \/ f.seq # <<>> \/ f.pinned # 0

Fits(kept, bytes) == kept.used + bytes <= Room /\ Len(kept.in) < Lines

(* Mutant: the first line that does not fit ends the list.                 *)
TryUntilFull(kept, f, bytes) ==
  IF Fits(kept, bytes) THEN [used |-> kept.used + bytes, in |-> Append(kept.in, f)]
  ELSE [kept EXCEPT !.used = Room + 1]

Try(kept, f, bytes) ==
  IF Fits(kept, bytes) THEN [used |-> kept.used + bytes, in |-> Append(kept.in, f)]
  ELSE kept

(* The candidates that fit, in the order they were tried; size[f] is the   *)
(* bytes of the line of f.                                                 *)
Fitting(s, size) ==
  LET kept[k \in 0 .. Len(s)] ==
        IF k = 0 THEN [used |-> 0, in |-> <<>>]
        ELSE Try(kept[k - 1], s[k], size[s[k]])
  IN  kept[Len(s)].in

(* The facts at the places of: those that have a row and are active.       *)
Shown(facts, of, orphans, size) ==
  LET wanted == {i \in of : candidate(facts[i], orphans)}
      tried  == StableSort(facts, wanted,
                  {p \in wanted \X wanted : Better(facts[p[1]], facts[p[2]])})
      fits   == Fitting(tried, size)
  IN  StableSort(fits, DOMAIN fits,
        {p \in (DOMAIN fits) \X (DOMAIN fits) : ShownBefore(fits[p[1]], fits[p[2]])})

-----------------------------------------------------------------------------
(* The bytes of the lines of some facts.                                   *)
Bytes(S, size) == UNION {{f} \X (1 .. size[f]) : f \in S}

(* "Pinned facts and feedback win when space is limited" (README.md:146):  *)
(* the index stays within its bytes and its lines; a candidate is left out *)
(* only if the better ones that are shown leave it no room, and a better   *)
(* one that is longer does not keep it out; positions go up.               *)
BestFirst(facts, of, orphans, size) ==
  LET shown    == Shown(facts, of, orphans, size)
      wanted   == {f \in {facts[i] : i \in of} : candidate(f, orphans)}
      total(S) == Cardinality(Bytes(S, size))
      ahead(f) == {g \in ToSet(shown) : Better(g, f)}
      level(f) == {g \in ToSet(shown) : ~Better(g, f) /\ ~Better(f, g)}
  IN  /\ ToSet(shown) \subseteq wanted
      /\ Cardinality(ToSet(shown)) = Len(shown)
      /\ total(ToSet(shown)) <= Room /\ Len(shown) <= Lines
      /\ \A f \in wanted \ ToSet(shown) :
           \/ total(ahead(f) \cup level(f)) + size[f] > Room
           \/ Cardinality(ahead(f) \cup level(f)) >= Lines
      /\ \A i, j \in DOMAIN shown : i < j => ~ShownBefore(shown[j], shown[i])
=============================================================================
