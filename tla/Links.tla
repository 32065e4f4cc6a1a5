-------------------------------- MODULE Links --------------------------------
(***************************************************************************)
(* The [[links]] between facts: what `fact link` resolves them to and what *)
(* `fact doctor` says of them (src/src/facts.rs).                          *)
(*                                                                         *)
(* A memory is a sequence of leaves in the order of their names.  Of each  *)
(* leaf: its stem, whether the file is there, the name in its frontmatter, *)
(* its row (the name it was registered with and whether it is active) and  *)
(* the keys its body links to.                                             *)
(*                                                                         *)
(* Abstractions.  Keys are in lower case and without .md, as link_key      *)
(* makes them.  All types are known and descriptions are there; doctor's   *)
(* findings about them do not touch the links.                             *)
(***************************************************************************)
EXTENDS Integers, Sequences, FiniteSets

CONSTANTS NoName, NoRow

Registered(m) == {i \in DOMAIN m : m[i].row # NoRow}
ours(m, i) == m[i].row # NoRow /\ m[i].row.active

(* The keys of a fact: its row's name, and its leaf's stem.                *)
RowName(m, i) == IF m[i].row = NoRow THEN {} ELSE {m[i].row.name} \ {NoName}
anchor_keys(m, i) == RowName(m, i) \cup {m[i].stem}
slug(m, i) == IF RowName(m, i) = {} THEN m[i].stem ELSE m[i].row.name

(* Stems first, then names over them; of two rows the later in the curated *)
(* order has the key.                                                      *)
LatestOf(m, s) == CHOOSE i \in s : \A j \in s : m[j].row.seq <= m[i].row.seq
Named(m, key)   == {i \in Registered(m) : key \in RowName(m, i)}
Stemmed(m, key) == {i \in Registered(m) : m[i].stem = key}
Resolves(m, key) == Named(m, key) \cup Stemmed(m, key) # {}
by_key(m, key) ==
  LatestOf(m, IF Named(m, key) # {} THEN Named(m, key) ELSE Stemmed(m, key))

(* What `fact link` lists for an anchor.                                   *)
LinksOf(m, i) == IF m[i].there THEN m[i].links ELSE {}
Outbound(m, i) == {by_key(m, w) : w \in {w \in LinksOf(m, i) : Resolves(m, w)}}
Dangling(m, i) == {w \in LinksOf(m, i) : ~Resolves(m, w)}
Inbound(m, i) ==
  {j \in Registered(m) \ {i} : LinksOf(m, j) \cap anchor_keys(m, i) # {}}

-----------------------------------------------------------------------------
(* Doctor.  A leaf claims the name in its file and the name of its row,    *)
(* once each; a leaf whose file is gone claims nothing.                    *)
Claims(m, i) ==
  IF m[i].there THEN ({m[i].fm} \ {NoName}) \cup RowName(m, i) ELSE {}

(* Leaf by leaf: who claimed a key before, and whether an active fact did. *)
Owners(m, n, key) == {i \in 1 .. n - 1 : key \in Claims(m, i)}

(* Mutant: a claim is held against the first leaf that made it only.       *)
DuplicatesFirst(m, i, key) ==
  LET before == Owners(m, i, key)
      first  == CHOOSE j \in before : \A k \in before : j <= k
  IN  IF key \notin Claims(m, i) \/ before = {} THEN "no"
      ELSE IF ours(m, i) /\ ours(m, first) THEN "error"
      ELSE "warning"

Duplicates(m, i, key) ==
  LET before == Owners(m, i, key)
  IN  IF key \notin Claims(m, i) \/ before = {} THEN "no"
      ELSE IF ours(m, i) /\ \E j \in before : ours(m, j) THEN "error"
      ELSE "warning"

resolvable(m) ==
  {m[i].stem : i \in DOMAIN m}
    \cup (UNION {RowName(m, i) : i \in DOMAIN m})
    \cup ({m[i].fm : i \in {j \in DOMAIN m : m[j].there}} \ {NoName})

(* What doctor says of a leaf: errors and warnings.                        *)
Gone(m, i)     == ~m[i].there
Nameless(m, i) == m[i].there /\ m[i].fm = NoName
Drifted(m, i)  == m[i].there /\ m[i].fm # NoName /\ RowName(m, i) \notin {{}, {m[i].fm}}
Strays(m, i)   == m[i].there /\ \E w \in m[i].links : w \notin resolvable(m)

Errors(m) == {i \in DOMAIN m :
  \/ ours(m, i) /\ (Gone(m, i) \/ Nameless(m, i))
  \/ \E key \in Claims(m, i) : Duplicates(m, i, key) = "error"}

Warnings(m) == {i \in DOMAIN m :
  \/ ~ours(m, i) /\ (Gone(m, i) \/ Nameless(m, i))
  \/ Drifted(m, i)
  \/ \E key \in Claims(m, i) : Duplicates(m, i, key) = "warning"
  \/ Strays(m, i)
  \/ m[i].there /\ m[i].row = NoRow}

Clean(m) == Errors(m) = {} /\ Warnings(m) = {}

-----------------------------------------------------------------------------
(* A fact that is listed as linked to lists the link among its inbound     *)
(* ones, whatever names and stems coincide.                                *)
SeenFromBothEnds(m) ==
  \A i \in Registered(m) : \A j \in Outbound(m, i) \ {i} : i \in Inbound(m, j)

(* Two active facts that claim one name are an error wherever their leaves *)
(* and those of archived and foreign ones sort (facts.rs:1001).            *)
ClashIsError(m) ==
  (\E i, j \in DOMAIN m : /\ i # j /\ ours(m, i) /\ ours(m, j)
                          /\ Claims(m, i) \cap Claims(m, j) # {})
    => Errors(m) # {}

(* Once doctor finds nothing, a slug that a row carries leads to that row, *)
(* and no fact shadows another's: facts.rs:987.                            *)
NothingShadowed(m) ==
  Clean(m) =>
    \A i \in Registered(m) : RowName(m, i) # {} => by_key(m, slug(m, i)) = i

(* Once doctor finds nothing, and every row has the name of its leaf, no   *)
(* link dangles.                                                           *)
NoneDangles(m) ==
  Clean(m) /\ (\A i \in Registered(m) : RowName(m, i) # {}) =>
    \A i \in Registered(m) : Dangling(m, i) = {}

(* All of this of one memory.                                              *)
LinksAgree(m) == /\ SeenFromBothEnds(m) /\ ClashIsError(m)
                 /\ NothingShadowed(m) /\ NoneDangles(m)
=============================================================================
