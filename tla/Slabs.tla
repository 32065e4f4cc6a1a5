-------------------------------- MODULE Slabs --------------------------------
(***************************************************************************)
(* One slab of turns on its way through the model (src/src/search.rs).     *)
(* group_slab keeps each distinct text once; embed_texts cuts the texts    *)
(* into batches, worker threads claim batches by a shared counter and send *)
(* what the model made of them over a channel, and the results, which come *)
(* in any order, are put back into the order of the batches.               *)
(*                                                                         *)
(* Abstractions.  A text is its first characters, which are embedded, and  *)
(* the rest.  The model's answer for a text is the text itself; it may     *)
(* fail on a batch and may answer too few vectors.                         *)
(***************************************************************************)
EXTENDS Integers, Sequences, SequencesExt

CONSTANTS
  Workers, Heads, Rests,
  EmbedBatch,  \* texts per batch
  MaxSlab      \* bound: turns in the slab

ASSUME SlabsAssumption ==
  /\ IsFiniteSet(Workers) /\ Workers # {}
  /\ {EmbedBatch, MaxSlab} \subseteq Nat \ {0}

VARIABLES
  slab,   \* texts of the turns; a turn is its place
  next,   \* the shared counter
  held,   \* the batch each worker has claimed, 0 for none
  gone,   \* workers that have stopped
  sent    \* what came over the channel, in order

svars == <<slab, next, held, gone, sent>>

(* The distinct texts in the order they first occur, each with its turns.  *)
Cut(text) == text[1]
Firsts == {i \in DOMAIN slab : \A j \in 1 .. i - 1 : Cut(slab[j]) # Cut(slab[i])}
NthFirst(k) == CHOOSE i \in Firsts : Cardinality({j \in Firsts : j < i}) = k - 1
Same(i) == {j \in DOMAIN slab : Cut(slab[j]) = Cut(slab[i])}
group_slab ==
  [k \in 1 .. Cardinality(Firsts) |->
     [text |-> Cut(slab[NthFirst(k)]), ids |-> Same(NthFirst(k))]]

Texts == [k \in DOMAIN group_slab |-> group_slab[k].text]
Batches == (Len(Texts) + EmbedBatch - 1) \div EmbedBatch
BatchAt(at) ==
  SubSeq(Texts, (at - 1) * EmbedBatch + 1,
         IF at * EmbedBatch < Len(Texts) THEN at * EmbedBatch ELSE Len(Texts))

SlabInit ==
  /\ slab \in BoundedSeq(Heads \X Rests, MaxSlab)
  /\ slab # <<>>
  /\ next = 1 /\ sent = <<>>
  /\ held = [w \in Workers |-> 0]
  /\ gone \in {s \in SUBSET Workers : Cardinality(Workers \ s) =
                 (IF Cardinality(Workers) < Batches THEN Cardinality(Workers) ELSE Batches)}

Claim(w) ==
  /\ w \notin gone /\ held[w] = 0
  /\ next' = next + 1
  /\ IF next <= Batches
     THEN held' = [held EXCEPT ![w] = next] /\ UNCHANGED gone
     ELSE gone' = gone \cup {w} /\ UNCHANGED held
  /\ UNCHANGED <<slab, sent>>

Send(w, ok, vecs) ==
  /\ sent' = Append(sent, [at |-> held[w], ok |-> ok, vecs |-> vecs])
  /\ held' = [held EXCEPT ![w] = 0]
  /\ gone' = IF ok THEN gone ELSE gone \cup {w}
  /\ UNCHANGED <<slab, next>>

(* A batch that came back short is refused, not used.                      *)
Whole(vecs, at) == Len(vecs) = Len(BatchAt(at))

Embed(w) ==
  /\ held[w] # 0
  /\ \E n \in 0 .. Len(BatchAt(held[w])) :
       LET vecs == SubSeq(BatchAt(held[w]), 1, n)
       IN  IF Whole(vecs, held[w]) THEN Send(w, TRUE, vecs) ELSE Send(w, FALSE, <<>>)

ModelFails(w) == held[w] # 0 /\ Send(w, FALSE, <<>>)

Joined == gone = Workers

(* What the caller gets once the channel is closed.                        *)
Failed  == \E i \in DOMAIN sent : ~sent[i].ok

(* Mutant: the results as they came.                                       *)
InArrivalOrder == sent

(* Sorted by batch; of equals the earlier stays the earlier.               *)
Ahead(i) == {j \in DOMAIN sent : \/ sent[j].at < sent[i].at
                                 \/ sent[j].at = sent[i].at /\ j < i}
InOrder ==
  [k \in DOMAIN sent |-> sent[CHOOSE i \in DOMAIN sent : Cardinality(Ahead(i)) = k - 1]]
Vectors == FlattenSeq([i \in DOMAIN InOrder |-> InOrder[i].vecs])
Embedded == Joined /\ ~Failed /\ Len(Vectors) = Len(Texts)

SlabWorks(w) == Claim(w) \/ Embed(w) \/ ModelFails(w)
SlabNext == \E w \in Workers : SlabWorks(w)
SlabSpec == SlabInit /\ [][SlabNext]_svars

-----------------------------------------------------------------------------
(* Whatever order the workers answer in, the vector stored for each turn   *)
(* is that of its own text: the text and the vector of a place belong to   *)
(* one another, no turn is left out, and an answer that slid is refused    *)
(* (search.rs:626).                                                        *)
EachItsOwn ==
  Embedded =>
    \A i \in DOMAIN slab :
      \E k \in DOMAIN group_slab :
        i \in group_slab[k].ids /\ Vectors[k] = Cut(slab[i])
=============================================================================
