-------------------------------- MODULE Words --------------------------------
(***************************************************************************)
(* How words are compared (src/src/text.rs) and cut into the pieces the    *)
(* model knows (src/src/wordpiece.rs).  A word is a sequence of letters.   *)
(***************************************************************************)
EXTENDS Integers, Sequences, SequencesExt

CONSTANTS
  Letters,      \* what words are made of
  OtherWords,   \* the words a word is compared with
  Vocabulary,   \* the pieces that begin a word (first) and that go on with one (more)
  Unk, Cls, Sep,
  MaxWordChars, \* a longer word is unknown
  MaxPositions  \* how much the model takes

ASSUME WordsAssumption == /\ OtherWords \subseteq Seq(Letters)
                          /\ {MaxWordChars, MaxPositions} \subseteq Nat

VARIABLE word   \* one word, or none

(* The walk along the longer and the shorter word: where it is in both,    *)
(* whether a letter was skipped, and whether it gave up.                   *)
WalkStep(long, short, at) ==
  CASE at.bad \/ at.i > Len(long) \/ at.j > Len(short) -> at
    [] OTHER ->
       IF long[at.i] = short[at.j] THEN [at EXCEPT !.i = @ + 1, !.j = @ + 1]
       ELSE IF at.skipped THEN [at EXCEPT !.bad = TRUE]
       ELSE [at EXCEPT !.skipped = TRUE, !.i = @ + 1]

OneShorter(long, short) ==
  LET at[k \in 0 .. Len(long)] ==
        IF k = 0 THEN [i |-> 1, j |-> 1, skipped |-> FALSE, bad |-> FALSE]
        ELSE WalkStep(long, short, at[k - 1])
  IN  ~at[Len(long)].bad

(* Mutant: two letters that differ are enough.                             *)
SameLengthTwo(a, b) == Cardinality({i \in DOMAIN a : a[i] # b[i]}) <= 2

SameLength(a, b) ==
  LET diffs == {i \in DOMAIN a : a[i] # b[i]}
  IN  \/ Cardinality(diffs) = 1
      \/ \E i \in diffs : /\ diffs = {i, i + 1}
                          /\ a[i] = b[i + 1] /\ a[i + 1] = b[i]

within_one_edit(a, b) ==
  \/ a = b
  \/ Len(a) = Len(b) /\ SameLength(a, b)
  \/ Len(a) = Len(b) + 1 /\ OneShorter(a, b)
  \/ Len(b) = Len(a) + 1 /\ OneShorter(b, a)

-----------------------------------------------------------------------------
(* Word pieces: a vocabulary has pieces that begin a word and pieces that  *)
(* go on with one.  The longest known piece is taken each time; a word     *)
(* with a rest that has no piece is unknown as a whole.                    *)
Known(vocab, start, piece) ==
  piece \in (IF start = 1 THEN vocab.first ELSE vocab.more)

Longest(vocab, w, start) ==
  LET ends == {e \in start .. Len(w) : Known(vocab, start, SubSeq(w, start, e))}
  IN  IF ends = {} THEN 0 ELSE CHOOSE e \in ends : \A f \in ends : f <= e

TakePiece(vocab, w, got) ==
  LET e == Longest(vocab, w, got.start)
  IN  CASE got.start > Len(w) \/ got.lost -> got
        [] OTHER -> IF e = 0 THEN [got EXCEPT !.lost = TRUE]
                    ELSE [got EXCEPT !.start = e + 1,
                            !.out = Append(@, SubSeq(w, got.start, e))]

pieces(vocab, w) ==
  LET got[k \in 0 .. Len(w)] ==
        IF k = 0 THEN [start |-> 1, lost |-> FALSE, out |-> <<>>]
        ELSE TakePiece(vocab, w, got[k - 1])
  IN  IF Len(w) > MaxWordChars \/ got[Len(w)].lost THEN <<Unk>> ELSE got[Len(w)].out

(* What the model is given: the pieces of the words between two marks,     *)
(* no longer than the model has positions.                                 *)
encode(vocab, words, longest) ==
  LET body == IF longest > 2 THEN longest - 2 ELSE 0
      all  == FlattenSeq([i \in DOMAIN words |-> pieces(vocab, words[i])])
  IN  <<Cls>> \o SubSeq(all, 1, IF Len(all) < body THEN Len(all) ELSE body) \o <<Sep>>

-----------------------------------------------------------------------------
(* What one edit can make of a word (text.rs:224).                         *)
Edits(a, letters) ==
  {a} \cup {ReplaceAt(a, i, c) : i \in DOMAIN a, c \in letters}
      \cup {RemoveAt(a, i) : i \in DOMAIN a}
      \cup {InsertAt(a, i, c) : i \in 1 .. Len(a) + 1, c \in letters}
      \cup {[a EXCEPT ![i] = a[i + 1], ![i + 1] = a[i]] : i \in 1 .. Len(a) - 1}

(* The one-pass comparison accepts exactly the words an edit can make, in  *)
(* both directions.                                                        *)
OneEditIsOneEdit(a, b, letters) ==
  /\ within_one_edit(a, b) <=> b \in Edits(a, letters)
  /\ within_one_edit(a, b) <=> within_one_edit(b, a)

(* The pieces of a known word are its letters again, each piece known at   *)
(* its place; a model is never given more than it has positions for        *)
(* (wordpiece.rs:41).                                                      *)
PiecesAreTheWord(vocab, w, longest) ==
  LET out == pieces(vocab, w)
  IN  /\ out # <<Unk>> => /\ FlattenSeq(out) = w
                          /\ \A k \in DOMAIN out : Known(vocab, k, out[k])
      /\ longest >= 2 => Len(encode(vocab, <<w, w>>, longest)) <= longest

(* Words one edit apart match, and no other; pieces are the word.          *)
WordsMatch ==
  word # <<>> =>
    /\ \A other \in OtherWords : OneEditIsOneEdit(word, other, Letters)
    /\ \A longest \in 0 .. MaxPositions : PiecesAreTheWord(Vocabulary, word, longest)
=============================================================================
