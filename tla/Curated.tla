------------------------------- MODULE Curated -------------------------------
(***************************************************************************)
(* The curated facts under all that read them.  The lanes of module Facts  *)
(* register facts and write MEMORY.md; a memory as a whole, of any facts,  *)
(* is what `generate` selects from, what `fact link` and `fact doctor`     *)
(* resolve, and what an import of its own index changes.  Its variable     *)
(* about says which of them a behaviour is about.                          *)
(***************************************************************************)
EXTENDS Facts, Import

CONSTANT NoName   \* a fact without a name

VARIABLES about, memory

Linked == INSTANCE Links

(* The index holds the best facts that fit (Selection), and stays within   *)
(* its bytes when lanes write it at the same time (Facts).                 *)
IndexIsBest ==
  /\ about = "index" => \A orphans \in BOOLEAN : BestFirst(memory, DOMAIN memory, orphans, Sizes(memory))
  /\ about = "lanes" => IndexFits

(* `fact link` and `fact doctor` agree with one another (Links).           *)
LinksAgree == about = "links" => Linked!LinksAgree(memory)

(* Importing what was generated changes nothing in it (Import).            *)
SameIndex == about = "import" => SameIndexAgain(memory, 9)
=============================================================================
