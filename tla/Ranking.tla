------------------------------- MODULE Ranking -------------------------------
(***************************************************************************)
(* What a prompt is answered with (src/src/recall.rs): archived turns that *)
(* match it, by strength with a bonus for the recent ones and one for each *)
(* session, and saved facts that MEMORY.md has no line for.                *)
(*                                                                         *)
(* A question q has the distinctive terms of the prompt (the anchors and   *)
(* the identifiers among them), the turns and the facts that full-text     *)
(* search returned, best score first, and what this session was shown.     *)
(*                                                                         *)
(* Abstractions.  A turn or fact has the set of terms its text matches; a  *)
(* score is an integer, lower is better.  An age is a number of half-lives *)
(* of 30 days, so that the bonus, 0.15 of the scale halved as often, is an *)
(* integer in units of 1/Unit, rounded down after the fourth.  What is     *)
(* kept of the turns or facts is a set of their places.                    *)
(***************************************************************************)
EXTENDS Sorting

CONSTANTS
  MAX_INJECT, MAX_FACTS, MIN_TERMS, MAX_MIN_REQUIRED,
  FACT_DF_MAX, MAX_FTS_TERMS, RECENCY_ABS_CAP,
  Never   \* the age of a turn without a readable time

ASSUME RankingAssumption ==
  /\ {MAX_INJECT, MAX_FACTS, RECENCY_ABS_CAP} \subseteq Nat
  /\ MAX_FACTS < MAX_INJECT
  /\ Never \notin Nat

VARIABLE question

Unit == 320          \* scores times this are exact: 0.15 * 320 = 48 = 2^4 * 3

min_required_terms(n) ==
  LET scaled == IF n \div 5 > MIN_TERMS THEN n \div 5 ELSE MIN_TERMS
  IN  IF scaled < MAX_MIN_REQUIRED THEN scaled ELSE MAX_MIN_REQUIRED

(* The best score's cutoff, best / 1.6, unless the best is no match.       *)
Best(s, in) == CHOOSE b \in {s[i].score : i \in in} : \A i \in in : b <= s[i].score
WithinFloor(s, in) ==
  {i \in in : Best(s, in) >= 0 \/ 8 * s[i].score <= 5 * Best(s, in)}

(* The terms that are searched for: all, or under the cap the anchors      *)
(* first.                                                                  *)
fts_terms(q) ==
  IF Cardinality(q.terms) <= MAX_FTS_TERMS THEN {q.terms}
  ELSE {t \in SUBSET q.terms : /\ Cardinality(t) = MAX_FTS_TERMS
                               /\ (q.terms \ t) \cap q.anchors # {} => t \subseteq q.anchors}

-----------------------------------------------------------------------------
(* Turns.                                                                  *)
Qualified(q) ==
  {i \in DOMAIN q.turns :
     /\ Cardinality(q.turns[i].matched) >= min_required_terms(Cardinality(q.terms))
     /\ q.turns[i].matched \cap q.anchors # {}}
Kept(q) == WithinFloor(q.turns, Qualified(q))

BestMagnitude(q) == LET b == Best(q.turns, Qualified(q)) IN IF b < 0 THEN -b ELSE b
Scale(q) == IF BestMagnitude(q) < RECENCY_ABS_CAP THEN BestMagnitude(q) ELSE RECENCY_ABS_CAP

Halved(bonus, times) ==
  LET left[n \in 0 .. times] == IF n = 0 THEN bonus ELSE left[n - 1] \div 2
  IN  left[times]

(* Mutant: the bonus grows with the best score.                            *)
BonusUncapped(q, age) == IF age = Never THEN 0 ELSE Halved(48 * BestMagnitude(q), age)

Bonus(q, age) == IF age = Never THEN 0 ELSE Halved(48 * Scale(q), age)
rank_value(q, c) == Unit * c.score - Bonus(q, c.age)

Ranked(q) ==
  StableSort(q.turns, Kept(q),
    {p \in Kept(q) \X Kept(q) : rank_value(q, q.turns[p[1]]) < rank_value(q, q.turns[p[2]])})

-----------------------------------------------------------------------------
(* Facts.  A term that many facts have says nothing.                       *)
Found(q, fts) == {i \in DOMAIN q.facts : q.facts[i].matched \cap fts # {}}
df(q, fts, term) == Cardinality({i \in Found(q, fts) : term \in q.facts[i].matched})
Rare(q, fts, f) == {t \in f.matched \cap fts : df(q, fts, t) <= FACT_DF_MAX}

Strong(q, fts, f) ==
  LET rare == Rare(q, fts, f)
  IN  /\ Cardinality(rare) >= min_required_terms(Cardinality(q.terms))
      /\ rare \cap q.identifiers # {}
      /\ rare \cap f.head # {}

hidden_facts(q, fts) ==
  IF ~q.readable THEN {}
  ELSE WithinFloor(q.facts, {i \in Found(q, fts) : /\ Strong(q, fts, q.facts[i])
                                                   /\ ~q.facts[i].listed})

-----------------------------------------------------------------------------
(* The facts first, at most MAX_FACTS; then turns, one of each session.    *)
FirstN(s, n) == SubSeq(s, 1, IF Len(s) < n THEN Len(s) ELSE n)

picked_facts(q, fts) ==
  LET new == {i \in hidden_facts(q, fts) : /\ q.facts[i].leaf \notin q.already
                                           /\ q.facts[i].fits}
  IN  FirstN(Filtered(q.facts, new), MAX_FACTS)

OnePerSession(q) ==
  LET r   == Ranked(q)
      new == {k \in DOMAIN r : /\ r[k].session \notin q.already
                               /\ \A j \in 1 .. k - 1 : r[j].session # r[k].session}
  IN  Filtered(r, new)

picked(q, fts) == FirstN(OnePerSession(q), MAX_INJECT - Len(picked_facts(q, fts)))

Asked(q) == q.long /\ Cardinality(q.terms) >= MIN_TERMS

-----------------------------------------------------------------------------
(* A turn above the floor is passed over only for its session (seen, or    *)
(* shown with a turn that is no worse), or for as many turns as there is   *)
(* room for, each stronger or a near tie that is newer: recency "only      *)
(* reorders genuine bm25 near-ties, never overrides a real gap"            *)
(* (recall.rs:40).                                                         *)
NearTie(q, g, h) == 20 * (g.score - h.score) <= 3 * Scale(q)
Newer(g, h) == g.age # Never /\ (h.age = Never \/ g.age < h.age)
NoWorse(q, g, h) == g.score <= h.score \/ (NearTie(q, g, h) /\ Newer(g, h))

NoBetterTurnHidden(q) ==
  \A fts \in fts_terms(q) :
    LET shown == ToSet(picked(q, fts))
        kept  == {q.turns[i] : i \in Kept(q)}
    IN  \A h \in {h \in kept \ shown : h.session \notin q.already} :
          \/ \E g \in shown : g.session = h.session /\ NoWorse(q, g, h)
          \/ /\ Cardinality(shown) + Len(picked_facts(q, fts)) = MAX_INJECT
             /\ \A g \in shown : NoWorse(q, g, h)

(* Facts never take all the lines: when a session is worth showing, one is *)
(* shown, and of two lines none says the same.                             *)
FactsLeaveRoom(q) ==
  \A fts \in fts_terms(q) :
    LET p == picked(q, fts)
        f == picked_facts(q, fts)
    IN  /\ (\E c \in ToSet(Ranked(q)) : c.session \notin q.already) => p # <<>>
        /\ Len(p) + Len(f) <= MAX_INJECT
        /\ \A i, j \in DOMAIN p : i # j => p[i].session # p[j].session
        /\ \A i \in DOMAIN f : ~f[i].listed /\ f[i].leaf \notin q.already

(* The answer to a question is the best there is.                          *)
Answered(q) == Asked(q) => NoBetterTurnHidden(q) /\ FactsLeaveRoom(q)
BestAnswer  == Answered(question)
=============================================================================
