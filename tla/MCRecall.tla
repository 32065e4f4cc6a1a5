------------------------------ MODULE MCRecall ------------------------------
(* One instance of recall for TLC.  A behaviour is about the log of what   *)
(* was injected, about one question, or about one word, which grows letter *)
(* by letter.                                                              *)
EXTENDS Seen, Ranking, Words

CONSTANTS s1, s2, h1, h2

VARIABLE about

TwoSessions == {s1, s2}
TwoHits     == {h1, h2}
TwoAndOne   == (s1 :> TwoHits) @@ (s2 :> {h1})

rvars == <<svars, about, question, word>>

(* Two of the three terms have to match, the anchor among them; scores     *)
(* above and below the cap of the bonus, near ties and wide gaps.          *)
Terms   == {"a", "b", "c"}
Turn(n) == [id : {n}, session : {"s1", "s2"}, score : {-24, -21, -20, -10},
            age : {0, 1, Never}, matched : {{"a", "b"}, {"b", "c"}, {"a"}}]
Fact(l) == [leaf : {l}, score : {-9, -5}, matched : {{"a", "b"}, {"b", "c"}},
            head : {{}, {"b"}}, listed : BOOLEAN, fits : {TRUE}]

(* Full-text search returns the best first.                                *)
After(s, kinds) == {c \in kinds : s = <<>> \/ s[Len(s)].score <= c.score}

Question == [long |-> TRUE, readable |-> TRUE, terms |-> Terms, anchors |-> {"a"},
             identifiers |-> {"a"}, turns |-> <<>>, facts |-> <<>>, already |-> {}]

RInit ==
  \/ about = "log" /\ SInit /\ question = Question /\ word = <<>>
  \/ /\ about \in {"question", "word"} /\ word = <<>>
     /\ log = <<>> /\ work = [s \in Sessions |-> Idle]
     /\ shown = [s \in Sessions |-> {}] /\ lost = [s \in Sessions |-> {}]
     /\ aliens = 0 /\ faults = 0
     /\ \E already \in {{}, {"s1"}} : question = [Question EXCEPT !.already = already]

(* Three turns and no fact, or one turn and three facts.                   *)
MoreTurns ==
  /\ question.facts = <<>> /\ Len(question.turns) < 3
  /\ \E c \in After(question.turns, Turn(Len(question.turns) + 1)) :
       /\ Len(question.turns) = 2 => c.matched = {"a", "b"}
       /\ question' = [question EXCEPT !.turns = Append(@, c)]
MoreFacts ==
  /\ question.already = {} /\ Len(question.turns) = 1 /\ Len(question.facts) < 3
  /\ question.turns[1].matched = {"a", "b"} /\ question.turns[1].score = -24
  /\ \E f \in After(question.facts, Fact(Len(question.facts) + 1)) :
       question' = [question EXCEPT !.facts = Append(@, f)]

ThreeLetters == {"a", "b", "c"}
UpToFive     == BoundedSeq(ThreeLetters, 5)
MoreLetters  == Len(word) < 4 /\ \E c \in Letters : word' = Append(word, c)
SomePieces   == [first |-> {<<"a">>, <<"a", "b">>, <<"b">>},
                 more |-> {<<"b">>, <<"a", "c">>, <<"c", "a">>}]

RNext ==
  \/ about = "log" /\ SNext /\ UNCHANGED <<about, question, word>>
  \/ about = "question" /\ (MoreTurns \/ MoreFacts) /\ UNCHANGED <<svars, about, word>>
  \/ about = "word" /\ MoreLetters /\ UNCHANGED <<svars, about, question>>

OfLog(act) == about = "log" /\ act /\ UNCHANGED <<about, question, word>>

RecallSpec ==
  /\ RInit /\ [][RNext]_rvars
  /\ \A s \in Sessions : WF_rvars(OfLog(Prompt(s))) /\ WF_rvars(OfLog(Works(s)))

(* A log too big to be read is reset (Seen).                               *)
LogRecovers == about = "log" => Recovers
=============================================================================
