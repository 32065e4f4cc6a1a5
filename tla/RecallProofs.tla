----------------------------- MODULE RecallProofs -----------------------------
(***************************************************************************)
(* Theorems about the log of what recall has injected, for any sessions,   *)
(* hits and limits of the log, about the dates and ages it shows, about    *)
(* the words it compares and cuts, and about the line of the days.         *)
(*                                                                         *)
(* A prompt and a compaction replace the file by what they made of the     *)
(* text they read, which is older than the file.  ShownIsLogged holds all  *)
(* the same, since what a session shows is accounted for twice: by the     *)
(* file, and by the text its own hook has read (Accounted).                *)
(***************************************************************************)
EXTENDS Seen, Series, Words, SequenceTheorems, FiniteSetTheorems, WellFoundedInduction, TLAPS

Listed(lines) == lines \in Seq(ToSet(lines))

Reads   == {"measure", "trim", "forget"}
Appends == {"measure", "trim", "open", "append"}

(* A hook and what it holds.  The text it read is any text.                *)
Hook(w) ==
  /\ w \in [at : {"idle", "heal"} \cup Reads \cup Appends, seen : {w.seen},
            picked : Seq(Hits), left : Nat, open : {w.open}]
  /\ Listed(w.seen)
  /\ w.at \in Appends => w.left \in 1 .. Len(w.picked)
  /\ w.at \in {"measure", "trim", "open"} => w.left = Len(w.picked)

STypes ==
  /\ Listed(log)
  /\ work \in [Sessions -> {work[s] : s \in Sessions}]
  /\ \A s \in Sessions : Hook(work[s])
  /\ shown \in [Sessions -> SUBSET Hits] /\ lost \in [Sessions -> SUBSET Hits]

(* The lines that a prompt has written so far are in the log, or lost.     *)
Accounted(s) ==
  /\ shown[s] \subseteq Logged(log, s) \cup lost[s]
  /\ work[s].at \in Reads => shown[s] \subseteq Logged(work[s].seen, s) \cup lost[s]
  /\ work[s].at \in Appends =>
       \A i \in 1 .. Len(work[s].picked) - work[s].left :
         work[s].picked[i] \in Logged(log, s) \cup lost[s]

LogInv == STypes /\ \A s \in Sessions : Accounted(s)

-----------------------------------------------------------------------------
(* The lines at some places of a text are a text.                          *)
LEMMA OnlyListed ==
  ASSUME NEW lines, Listed(lines), NEW places, places \subseteq DOMAIN lines
  PROVE  Listed(Only(lines, places))
<1>1. Len(lines) \in Nat /\ DOMAIN lines = 1 .. Len(lines)
  BY DEF Listed
<1>2. Cardinality(places) \in Nat
  <2>1. IsFiniteSet(DOMAIN lines)
    BY <1>1, FS_Interval
  <2>2. IsFiniteSet(places)
    BY <2>1, FS_Subset
  <2> QED
    BY <2>2, FS_CardinalityType
<1> DEFINE k == Cardinality(places)
           line(n) == lines[CHOOSE i \in places : Cardinality(places \cap 1 .. i) = n]
           text == [n \in 1 .. k |-> line(n)]
<1>3. Only(lines, places) = text
  BY DEF Only
<1> HIDE DEF line
<1>4. text \in Seq(ToSet(text))
  BY <1>2 DEF ToSet
<1> QED
  BY <1>3, <1>4 DEF Listed

(* A line added to a text.                                                 *)
LEMMA Adds ==
  ASSUME NEW lines, Listed(lines), NEW l
  PROVE  /\ Listed(Append(lines, l))
         /\ \A s : Logged(lines, s) \subseteq Logged(Append(lines, l), s)
         /\ \A s : \A h \in Hits : l = <<s, h>> => h \in Logged(Append(lines, l), s)
<1>1. Len(lines) \in Nat /\ DOMAIN lines = 1 .. Len(lines)
  BY DEF Listed
<1> DEFINE T == ToSet(lines) \cup {l}
<1>2. Append(lines, l) \in Seq(T)
  BY DEF Listed
<1>3. /\ Len(Append(lines, l)) = Len(lines) + 1
      /\ DOMAIN Append(lines, l) = 1 .. Len(lines) + 1
      /\ \A i \in 1 .. Len(lines) : Append(lines, l)[i] = lines[i]
      /\ Append(lines, l)[Len(lines) + 1] = l
  BY DEF Listed
<1>4. ToSet(Append(lines, l)) = T
  BY <1>1, <1>3 DEF ToSet
<1>5. Listed(Append(lines, l))
  BY <1>2, <1>4 DEF Listed
<1> QED
  BY <1>4, <1>5 DEF Logged

(* A hook that has picked nothing holds what a hook may hold.              *)
LEMMA Fresh ==
  ASSUME NEW at \in {"idle", "heal", "forget"}, NEW text, Listed(text),
         NEW w \in [at : {at}, seen : {text}, picked : {<<>>}, left : {0}, open : {FALSE}]
  PROVE  Hook(w) /\ w.at = at /\ w.seen = text
<1>1. w.picked = <<>> /\ <<>> \in Seq(Hits)
  OBVIOUS
<1>2. w.picked \in Seq(Hits)
  BY <1>1
<1>3. /\ w.at = at /\ w.seen = text /\ w.left = 0
      /\ w = [at |-> w.at, seen |-> w.seen, picked |-> w.picked,
              left |-> w.left, open |-> w.open]
  OBVIOUS
<1> QED
  BY <1>2, <1>3 DEF Hook, Reads, Appends

(* A hook goes on, while the log keeps its lines and may get one.          *)
LEMMA Moves ==
  ASSUME LogInv, NEW s \in Sessions, NEW w, Hook(w), Sets(s, w),
         Listed(log'), \A t : Logged(log, t) \subseteq Logged(log', t),
         shown' \in [Sessions -> SUBSET Hits], lost' \in [Sessions -> SUBSET Hits],
         \A t \in Sessions \ {s} : shown'[t] = shown[t] /\ lost'[t] = lost[t],
         Accounted(s)'
  PROVE  LogInv'
<1>1. work'[s] = w /\ \A t \in Sessions \ {s} : work'[t] = work[t]
  BY DEF LogInv, STypes, Sets
<1>2. work' \in [Sessions -> {work'[t] : t \in Sessions}]
  BY DEF LogInv, STypes, Sets
<1>3. \A t \in Sessions : Hook(work[t])'
  BY <1>1 DEF LogInv, STypes, Hook
<1>4. STypes'
  BY <1>2, <1>3 DEF STypes
<1>5. ASSUME NEW t \in Sessions \ {s} PROVE Accounted(t)'
  <2>1. /\ work'[t] = work[t] /\ shown'[t] = shown[t] /\ lost'[t] = lost[t]
        /\ Logged(log, t) \subseteq Logged(log', t) /\ Accounted(t)
    BY <1>1 DEF LogInv
  <2> QED
    BY <2>1 DEF Accounted
<1> QED
  BY <1>4, <1>5 DEF LogInv

(* The file is replaced: what was shown and is no longer there is lost.    *)
LEMMA Replacing ==
  ASSUME LogInv, NEW s \in Sessions, NEW body, Listed(body), NEW read, NEW w, Hook(w),
         Replace(s, body, read, w), shown' \in [Sessions -> SUBSET Hits],
         \A t \in Sessions \ {s} : shown'[t] = shown[t]
  PROVE  /\ STypes' /\ \A t \in Sessions \ {s} : Accounted(t)'
         /\ work'[s] = w /\ lost[s] \subseteq lost'[s]
         /\ Logged(read, s) \subseteq Logged(log', s) \cup lost'[s]
<1>1. /\ work'[s] = w
      /\ \A t \in Sessions \ {s} : work'[t] = [work[t] EXCEPT !.open = FALSE]
      /\ work' \in [Sessions -> {work'[t] : t \in Sessions}]
  BY DEF Replace
<1>2. ASSUME NEW t \in Sessions
      PROVE  lost'[t] = lost[t] \cup
               (Logged(IF t = s THEN read ELSE log, t) \ Logged(body, t))
  BY DEF Replace
<1>3. lost' \in [Sessions -> SUBSET Hits]
  <2>1. \A t \in Sessions : lost'[t] \in SUBSET Hits
    BY <1>2 DEF LogInv, STypes, Logged
  <2> QED
    BY <2>1 DEF Replace
<1>4. ASSUME NEW t \in Sessions \ {s}
      PROVE  /\ Hook(work[t])'
             /\ \A field \in {"at", "seen", "picked", "left"} :
                  work'[t][field] = work[t][field]
  <2> DEFINE v == work[t]
             u == [v EXCEPT !.open = FALSE]
  <2>1. Hook(v) /\ work'[t] = u
    BY <1>1 DEF LogInv, STypes
  <2> HIDE DEF v
  <2>2. /\ u.at = v.at /\ u.seen = v.seen /\ u.picked = v.picked /\ u.left = v.left
        /\ u.open = FALSE
    BY <2>1 DEF Hook
  <2>3. Hook(u)
    BY <2>1, <2>2 DEF Hook
  <2> HIDE DEF u
  <2> QED
    BY <2>1, <2>2, <2>3 DEF v, Hook
<1>5. STypes'
  <2>1. Listed(log') /\ \A t \in Sessions : Hook(work[t])'
    BY <1>1, <1>4 DEF Replace, Hook
  <2> QED
    BY <1>1, <1>3, <2>1 DEF STypes
<1>6. ASSUME NEW t \in Sessions \ {s} PROVE Accounted(t)'
  <2>1. /\ work'[t].at = work[t].at /\ work'[t].seen = work[t].seen
        /\ work'[t].picked = work[t].picked /\ work'[t].left = work[t].left
    BY <1>4
  <2>2. /\ lost[t] \subseteq lost'[t]
        /\ Logged(log, t) \subseteq Logged(log', t) \cup lost'[t]
    BY <1>2 DEF Replace
  <2> QED
    BY <2>1, <2>2 DEF Accounted, LogInv
<1> QED
  BY <1>1, <1>2, <1>5, <1>6 DEF Replace
-----------------------------------------------------------------------------
(* A prompt reads the log and picks hits it does not hold.                 *)
LEMMA PromptStep ==
  ASSUME LogInv, NEW s \in Sessions, Prompt(s)
  PROVE  LogInv'
<1>1. At(s, "idle") /\ UNCHANGED <<log, shown, lost>> /\ Accounted(s)
  BY DEF Prompt, LogInv
<1> DEFINE asks(picked) == [Idle EXCEPT !.at = "measure", !.seen = log, !.picked = picked,
                                        !.left = Len(picked)]
           heals == [Idle EXCEPT !.at = "heal"]
<1>2. CASE Sets(s, heals)
  <2>1. Hook(heals) /\ heals.at = "heal"
    <3>1. heals \in [at : {"heal"}, seen : {<<>>}, picked : {<<>>}, left : {0}, open : {FALSE}]
      BY DEF Idle
    <3>2. Listed(<<>>)
      BY DEF Listed
    <3> HIDE DEF heals
    <3> QED
      BY <3>1, <3>2, Fresh
  <2> HIDE DEF heals
  <2>2. work'[s] = heals
    BY <1>2 DEF Sets, LogInv, STypes
  <2>3. Accounted(s)'
    BY <1>1, <2>1, <2>2 DEF Accounted, Reads, Appends
  <2> QED
    BY <1>1, <1>2, <2>1, <2>3, Moves DEF LogInv, STypes
<1>3. ASSUME NEW picked \in Picks(s), Sets(s, asks(picked)) PROVE LogInv'
  <2>1. PICK n \in 1 .. MaxInject : picked \in [1 .. n -> Hits]
    BY SeenAssumption DEF Picks
  <2>2. MaxInject \in Nat
    BY SeenAssumption
  <2>3. picked \in Seq(Hits) /\ Len(picked) = n /\ n \in Nat /\ n >= 1
    BY <2>1, <2>2
  <2>4. /\ Hook(asks(picked)) /\ asks(picked).at = "measure" /\ asks(picked).seen = log
        /\ asks(picked).picked = picked /\ asks(picked).left = Len(picked)
    <3>1. asks(picked) \in [at : {"measure"}, seen : {log}, picked : {picked},
                            left : {Len(picked)}, open : {FALSE}]
      BY DEF Idle
    <3>2. Listed(log) /\ Len(picked) \in 1 .. Len(picked)
      BY <2>3 DEF LogInv, STypes
    <3> HIDE DEF asks
    <3> QED
      BY <2>3, <3>1, <3>2 DEF Hook, Reads, Appends
  <2> HIDE DEF asks
  <2>5. work'[s] = asks(picked)
    BY <1>3 DEF Sets, LogInv, STypes
  <2>6. Accounted(s)'
    <3>1. shown[s] \subseteq Logged(log, s) \cup lost[s]
      BY <1>1 DEF Accounted
    <3>2. 1 .. Len(picked) - Len(picked) = {}
      BY <2>3
    <3> QED
      BY <1>1, <2>4, <2>5, <3>1, <3>2 DEF Accounted
  <2> QED
    BY <1>1, <1>3, <2>4, <2>6, Moves DEF LogInv, STypes
<1> QED
  BY <1>2, <1>3 DEF Prompt

(* A log too big to be read is emptied, and every line in it is lost.      *)
LEMMA HealStep ==
  ASSUME LogInv, NEW s \in Sessions, heal_seen_log(s)
  PROVE  LogInv'
<1>1. Hook(Idle) /\ Idle.at = "idle" /\ shown' = shown /\ Accounted(s) /\ Listed(<<>>)
  BY DEF heal_seen_log, LogInv, Hook, Idle, Listed, Appends
<1>2. CASE Replace(s, <<>>, log, Idle)
  <2>1. /\ STypes' /\ \A t \in Sessions \ {s} : Accounted(t)'
        /\ work'[s] = Idle /\ lost[s] \subseteq lost'[s]
        /\ Logged(log, s) \subseteq Logged(log', s) \cup lost'[s]
    BY <1>1, <1>2, Replacing DEF LogInv, STypes
  <2>2. Accounted(s)'
    BY <1>1, <2>1 DEF Accounted, Reads, Appends
  <2> QED
    BY <2>1, <2>2 DEF LogInv
<1>3. CASE Sets(s, Idle) /\ UNCHANGED <<log, lost>>
  <2>1. work'[s] = Idle
    BY <1>3 DEF Sets, LogInv, STypes
  <2>2. Accounted(s)'
    BY <1>1, <1>3, <2>1 DEF Accounted, Reads, Appends
  <2> QED
    BY <1>1, <1>3, <2>2, Moves DEF LogInv, STypes
<1> QED
  BY <1>2, <1>3 DEF heal_seen_log

(* The size is measured and the file opened; nothing is written yet.       *)
LEMMA PrepareStep ==
  ASSUME LogInv, NEW s \in Sessions, Measure(s) \/ OpenLog(s)
  PROVE  LogInv'
<1> DEFINE v == work[s]
<1>1. Hook(v) /\ v.at \in {"measure", "open"} /\ UNCHANGED <<log, shown, lost>>
      /\ Accounted(s)
  BY DEF LogInv, STypes, Measure, OpenLog, At
<1>2. PICK w : /\ Sets(s, w) /\ Hook(w) /\ w.at \in Appends
               /\ w.seen = v.seen /\ w.picked = v.picked /\ w.left = v.left
               /\ w.at \in Reads => v.at \in Reads
  <2> HIDE DEF v
  <2>1. CASE Measure(s)
    <3> DEFINE w == [v EXCEPT !.at = IF TooLong(s) THEN "trim" ELSE "open"]
    <3>1. Sets(s, w) /\ v.at = "measure"
      BY <2>1 DEF Measure, At, v
    <3>2. /\ w.at \in {"trim", "open"} /\ w.seen = v.seen /\ w.picked = v.picked
          /\ w.left = v.left /\ Hook(w)
      BY <1>1, <3>1 DEF Hook, Reads, Appends
    <3> QED
      BY <3>1, <3>2, Zenon DEF Reads, Appends
  <2>2. CASE OpenLog(s)
    <3> DEFINE w == [v EXCEPT !.at = "append", !.open = TRUE]
    <3>1. Sets(s, w) /\ v.at = "open"
      BY <2>2 DEF OpenLog, At, v
    <3>2. /\ w.at = "append" /\ w.seen = v.seen /\ w.picked = v.picked
          /\ w.left = v.left /\ Hook(w)
      BY <1>1, <3>1 DEF Hook, Reads, Appends
    <3> QED
      BY <3>1, <3>2 DEF Reads, Appends
  <2> QED
    BY <2>1, <2>2
<1>3. work'[s] = w
  BY <1>2 DEF Sets, LogInv, STypes
<1>4. v.at \in Appends
  BY <1>1 DEF Appends
<1>5. Accounted(s)'
  BY <1>1, <1>2, <1>3, <1>4 DEF Accounted
<1> QED
  BY <1>1, <1>2, <1>5, Moves DEF LogInv, STypes
(* A hook that ends, done or killed, leaves what is shown accounted for.   *)
LEMMA Ends ==
  ASSUME LogInv, NEW s \in Sessions, Sets(s, Idle),
         Listed(log'), \A t : Logged(log, t) \subseteq Logged(log', t),
         shown' \in [Sessions -> SUBSET Hits], lost' \in [Sessions -> SUBSET Hits],
         \A t \in Sessions \ {s} : shown'[t] = shown[t] /\ lost'[t] = lost[t],
         shown'[s] \subseteq Logged(log', s) \cup lost'[s]
  PROVE  LogInv'
<1>1. Hook(Idle) /\ Idle.at = "idle"
  BY DEF Hook, Idle, Listed, Appends
<1>2. work'[s] = Idle
  BY DEF Sets, LogInv, STypes
<1>3. Accounted(s)'
  BY <1>1, <1>2 DEF Accounted, Reads, Appends
<1> QED
  BY <1>1, <1>3, Moves

(* A trim keeps the newest lines of the text the prompt read.  When it     *)
(* fails, nothing is written and the answer is shown all the same.         *)
LEMMA TrimStep ==
  ASSUME LogInv, NEW s \in Sessions, Trim(s)
  PROVE  LogInv'
<1> DEFINE v == work[s]
           w == [v EXCEPT !.at = "open"]
           short == {i \in DOMAIN v.seen : i > Len(v.seen) - Keep /\ v.seen[i] # Alien}
           body == tail_within(v.seen, TrimBytes - Len(v.picked))
<1>1. Hook(v) /\ v.at = "trim" /\ Accounted(s)
  BY DEF LogInv, STypes, Trim, At
<1>2. Listed(body)
  <2> DEFINE places == {i \in short : Cardinality({j \in short : j >= i})
                                        <= TrimBytes - Len(v.picked)}
  <2>1. body = Only(v.seen, places) /\ places \subseteq DOMAIN v.seen
    BY DEF tail_within
  <2>2. Listed(v.seen)
    BY <1>1 DEF Hook
  <2> HIDE DEF places, body
  <2> QED
    BY <2>1, <2>2, OnlyListed
<1> HIDE DEF body, short
<1>3. CASE Replace(s, body, v.seen, w) /\ UNCHANGED shown
  <2> HIDE DEF v
  <2>1. /\ Hook(w) /\ w.at = "open" /\ w.picked = v.picked /\ w.left = v.left
    BY <1>1 DEF Hook, Reads, Appends
  <2> HIDE DEF w
  <2>2. /\ STypes' /\ \A t \in Sessions \ {s} : Accounted(t)'
        /\ work'[s] = w /\ lost[s] \subseteq lost'[s]
        /\ Logged(v.seen, s) \subseteq Logged(log', s) \cup lost'[s]
    BY <1>2, <1>3, <2>1, Replacing DEF LogInv, STypes
  <2>3. shown[s] \subseteq Logged(v.seen, s) \cup lost[s]
    BY <1>1 DEF Accounted, Reads, v
  <2>4. Accounted(s)'
    <3>1. shown'[s] \subseteq Logged(log', s) \cup lost'[s]
      BY <1>3, <2>2, <2>3
    <3>2. 1 .. Len(v.picked) - v.left = {}
      <4>1. v \in [at : {"idle", "heal"} \cup Reads \cup Appends, seen : {v.seen},
                   picked : Seq(Hits), left : Nat, open : {v.open}]
            /\ v.left = Len(v.picked)
        BY <1>1 DEF Hook
      <4> QED
        BY <4>1
    <3> QED
      BY <2>1, <2>2, <3>1, <3>2 DEF Accounted, Reads
  <2> QED
    BY <2>2, <2>4 DEF LogInv
<1>4. CASE /\ Answers(s) /\ lost' = [lost EXCEPT ![s] = @ \cup ToSet(v.picked)]
           /\ Sets(s, Idle) /\ UNCHANGED log
  <2>1. ToSet(v.picked) \in SUBSET Hits
    BY <1>1 DEF Hook, ToSet
  <2>2. /\ shown'[s] = shown[s] \cup ToSet(v.picked)
        /\ lost'[s] = lost[s] \cup ToSet(v.picked)
        /\ \A t \in Sessions \ {s} : shown'[t] = shown[t] /\ lost'[t] = lost[t]
        /\ shown' \in [Sessions -> SUBSET Hits] /\ lost' \in [Sessions -> SUBSET Hits]
    BY <1>4, <2>1 DEF Answers, LogInv, STypes
  <2> QED
    BY <1>1, <1>4, <2>2, Ends DEF Accounted, LogInv, STypes
<1> QED
  BY <1>3, <1>4 DEF Trim, body
(* A line is written, or goes to a file that is no longer the log.  After  *)
(* the last one the answer is shown.                                       *)
LEMMA AppendStep ==
  ASSUME LogInv, NEW s \in Sessions, AppendLine(s)
  PROVE  LogInv'
<1> DEFINE v == work[s]
           h == v.picked[Len(v.picked) - v.left + 1]
           w == [v EXCEPT !.left = @ - 1]
<1>1. Hook(v) /\ v.at = "append" /\ Accounted(s)
  BY DEF LogInv, STypes, AppendLine, At
<1>2. /\ v.picked \in Seq(Hits) /\ v.left \in Nat /\ Len(v.picked) \in Nat
      /\ v.left \in 1 .. Len(v.picked) /\ h \in Hits
      /\ \A i \in 1 .. Len(v.picked) - v.left :
           v.picked[i] \in Logged(log, s) \cup lost[s]
  <2>1. v.picked \in Seq(Hits) /\ v.left \in Nat /\ v.left \in 1 .. Len(v.picked)
    <3> HIDE DEF v
    <3> QED
      BY <1>1 DEF Hook, Appends
  <2>2. \A i \in 1 .. Len(v.picked) - v.left :
          v.picked[i] \in Logged(log, s) \cup lost[s]
    BY <1>1 DEF Accounted, Appends
  <2> HIDE DEF v
  <2> QED
    BY <2>1, <2>2
<1>3. /\ log' = IF v.open THEN Append(log, <<s, h>>) ELSE log
      /\ lost' = [lost EXCEPT ![s] = IF v.open THEN @ \ {h} ELSE @ \cup {h}]
      /\ IF v.left > 1 THEN Sets(s, w) /\ UNCHANGED shown ELSE Sets(s, Idle) /\ Answers(s)
  BY DEF AppendLine
<1> HIDE DEF h
<1>4. Listed(log') /\ \A t : Logged(log, t) \subseteq Logged(log', t)
  BY <1>3, Adds DEF LogInv, STypes
<1>5. /\ lost' \in [Sessions -> SUBSET Hits]
      /\ \A t \in Sessions \ {s} : lost'[t] = lost[t]
      /\ lost'[s] = IF v.open THEN lost[s] \ {h} ELSE lost[s] \cup {h}
  <2> HIDE DEF v
  <2> QED
    BY <1>2, <1>3 DEF LogInv, STypes
<1>6. /\ h \in Logged(log', s) \cup lost'[s]
      /\ Logged(log, s) \cup lost[s] \subseteq Logged(log', s) \cup lost'[s]
  <2>1. CASE v.open
    <3>1. h \in Logged(log', s)
      BY <1>2, <1>3, <2>1, Adds DEF LogInv, STypes
    <3> QED
      BY <1>4, <1>5, <2>1, <3>1
  <2>2. CASE ~v.open
    BY <1>4, <1>5, <2>2
  <2> QED
    BY <2>1, <2>2
<1>7. \A i \in 1 .. Len(v.picked) - v.left + 1 :
        v.picked[i] \in Logged(log', s) \cup lost'[s]
  <2> SUFFICES ASSUME NEW i \in 1 .. Len(v.picked) - v.left + 1
               PROVE  v.picked[i] \in Logged(log', s) \cup lost'[s]
    OBVIOUS
  <2>1. CASE i = Len(v.picked) - v.left + 1
    BY <1>6, <2>1 DEF h
  <2>2. CASE i # Len(v.picked) - v.left + 1
    <3>1. i \in 1 .. Len(v.picked) - v.left
      <4> HIDE DEF v
      <4> QED
        BY <1>2, <2>2
    <3> QED
      BY <1>2, <1>6, <3>1
  <2> QED
    BY <2>1, <2>2
<1>8. shown[s] \subseteq Logged(log', s) \cup lost'[s]
  BY <1>1, <1>6 DEF Accounted
<1>9. CASE v.left > 1
  <2>1. /\ Sets(s, w) /\ UNCHANGED shown
        /\ Hook(w) /\ w.at = "append" /\ w.picked = v.picked /\ w.left = v.left - 1
    <3> HIDE DEF v
    <3> QED
      BY <1>1, <1>2, <1>3, <1>9 DEF Hook, Appends
  <2> HIDE DEF w
  <2>2. work'[s] = w
    BY <2>1 DEF Sets, LogInv, STypes
  <2>3. Len(v.picked) - (v.left - 1) = Len(v.picked) - v.left + 1
    BY <1>2
  <2>4. Accounted(s)'
    BY <1>7, <1>8, <2>1, <2>2, <2>3 DEF Accounted, Reads
  <2> QED
    BY <1>4, <1>5, <2>1, <2>4, Moves DEF LogInv, STypes
<1>10. CASE ~(v.left > 1)
  <2>1. Sets(s, Idle) /\ Answers(s)
    BY <1>3, <1>10
  <2>2. ToSet(v.picked) \subseteq Logged(log', s) \cup lost'[s]
        /\ ToSet(v.picked) \in SUBSET Hits
    <3>1. Len(v.picked) - v.left + 1 = Len(v.picked)
      <4> HIDE DEF v
      <4> QED
        BY <1>2, <1>10
    <3>2. DOMAIN v.picked = 1 .. Len(v.picked)
      BY <1>2
    <3> QED
      BY <1>2, <1>7, <3>1, <3>2 DEF ToSet
  <2>3. /\ shown'[s] = shown[s] \cup ToSet(v.picked)
        /\ \A t \in Sessions \ {s} : shown'[t] = shown[t]
        /\ shown' \in [Sessions -> SUBSET Hits]
    BY <2>1, <2>2 DEF Answers, LogInv, STypes
  <2> QED
    BY <1>4, <1>5, <1>8, <2>1, <2>2, <2>3, Ends
<1> QED
  BY <1>9, <1>10

(* A compaction: the context shows nothing any more.                       *)
LEMMA CompactStep ==
  ASSUME LogInv, NEW s \in Sessions, PreCompact(s) \/ forget_session(s)
  PROVE  LogInv'
<1> DEFINE v == work[s]
           w == [Idle EXCEPT !.at = "forget", !.seen = log]
           body == Others(v.seen, s)
<1>1. CASE forget_session(s)
  <2>1. Hook(v) /\ Hook(Idle) /\ Idle.at = "idle"
    BY DEF LogInv, STypes, Hook, Idle, Listed, Appends
  <2>2. Listed(body)
    <3> DEFINE places == {i \in DOMAIN v.seen : v.seen[i] = Alien \/ v.seen[i][1] # s}
    <3>1. body = Only(v.seen, places) /\ places \subseteq DOMAIN v.seen
      BY DEF Others
    <3>2. Listed(v.seen)
      BY <2>1 DEF Hook
    <3> HIDE DEF places, body
    <3> QED
      BY <3>1, <3>2, OnlyListed
  <2>3. Replace(s, body, v.seen, Idle) /\ shown' = [shown EXCEPT ![s] = {}]
    BY <1>1 DEF forget_session, Compacted
  <2> HIDE DEF body, v
  <2>4. /\ shown' \in [Sessions -> SUBSET Hits] /\ shown'[s] = {}
        /\ \A t \in Sessions \ {s} : shown'[t] = shown[t]
    BY <2>3 DEF LogInv, STypes
  <2>5. STypes' /\ (\A t \in Sessions \ {s} : Accounted(t)') /\ work'[s] = Idle
    BY <2>1, <2>2, <2>3, <2>4, Replacing
  <2>6. Accounted(s)'
    BY <2>1, <2>4, <2>5 DEF Accounted, Appends
  <2> QED
    BY <2>5, <2>6 DEF LogInv
<1>2. CASE PreCompact(s) /\ Sets(s, w) /\ UNCHANGED <<shown, lost>>
  <2>1. log' = log /\ Listed(log) /\ Accounted(s)
    BY <1>2 DEF PreCompact, LogInv, STypes
  <2>2. w.at = "forget" /\ w.seen = log /\ Hook(w)
    <3>1. w \in [at : {"forget"}, seen : {log}, picked : {<<>>}, left : {0}, open : {FALSE}]
      BY DEF Idle
    <3> HIDE DEF w
    <3> QED
      BY <2>1, <3>1, Fresh
  <2> HIDE DEF w
  <2>3. work'[s] = w
    BY <1>2 DEF Sets, LogInv, STypes
  <2>4. Accounted(s)'
    BY <1>2, <2>1, <2>2, <2>3 DEF Accounted, Appends
  <2> QED
    BY <1>2, <2>1, <2>2, <2>4, Moves DEF LogInv, STypes
<1>3. CASE PreCompact(s) /\ Compacted(s) /\ lost' = [lost EXCEPT ![s] = {}] /\ UNCHANGED work
  <2>1. /\ log' = log /\ work[s].at = "idle"
        /\ shown'[s] = {} /\ lost'[s] = {}
        /\ \A t \in Sessions \ {s} : shown'[t] = shown[t] /\ lost'[t] = lost[t]
        /\ shown' \in [Sessions -> SUBSET Hits] /\ lost' \in [Sessions -> SUBSET Hits]
    BY <1>3 DEF PreCompact, Compacted, At, LogInv, STypes
  <2>2. STypes'
    BY <1>3, <2>1 DEF LogInv, STypes
  <2>3. \A t \in Sessions : Accounted(t)'
    BY <1>3, <2>1 DEF LogInv, Accounted, Reads, Appends
  <2> QED
    BY <2>2, <2>3 DEF LogInv
<1> QED
  BY <1>1, <1>2, <1>3 DEF PreCompact

(* A hook that is killed, and a line of another writer.                    *)
LEMMA AroundStep ==
  ASSUME LogInv, (\E s \in Sessions : Killed(s)) \/ AlienWrites \/ UNCHANGED svars
  PROVE  LogInv'
<1>1. ASSUME NEW s \in Sessions, Killed(s) PROVE LogInv'
  <2>1. Sets(s, Idle) /\ UNCHANGED <<log, shown, lost>> /\ Accounted(s)
    BY <1>1 DEF Killed, LogInv
  <2> QED
    BY <2>1, Ends DEF Accounted, LogInv, STypes
<1>2. CASE AlienWrites
  <2>1. UNCHANGED <<work, shown, lost>> /\ log' = Append(log, Alien)
    BY <1>2 DEF AlienWrites
  <2>2. Listed(log') /\ \A t : Logged(log, t) \subseteq Logged(log', t)
    BY <2>1, Adds DEF LogInv, STypes
  <2>3. STypes'
    BY <2>1, <2>2 DEF LogInv, STypes
  <2>4. ASSUME NEW t \in Sessions PROVE Accounted(t)'
    BY <2>1, <2>2 DEF LogInv, Accounted
  <2> QED
    BY <2>3, <2>4 DEF LogInv
<1>3. CASE UNCHANGED svars
  <2>1. UNCHANGED <<log, work, shown, lost>>
    BY <1>3 DEF svars
  <2> QED
    BY <2>1 DEF LogInv, STypes, Accounted
<1> QED
  BY <1>1, <1>2, <1>3

(* A hit that a session's context shows is in the log or was lost, in      *)
(* every state and for any number of sessions, hooks that are killed,      *)
(* writes that fail and lines of other writers.                            *)
THEOREM ShownStaysLogged == SSpec => []ShownIsLogged
<1>1. SInit => LogInv
  <2> SUFFICES ASSUME SInit PROVE LogInv
    OBVIOUS
  <2>1. Hook(Idle) /\ Idle.at = "idle" /\ Listed(log)
    BY DEF SInit, Hook, Idle, Listed, Appends
  <2>2. \A s \in Sessions : work[s] = Idle /\ shown[s] = {} /\ lost[s] = {}
    BY DEF SInit
  <2>3. STypes
    BY <2>1, <2>2 DEF STypes, SInit
  <2>4. \A s \in Sessions : Accounted(s)
    BY <2>1, <2>2 DEF Accounted, Reads, Appends
  <2> QED
    BY <2>3, <2>4 DEF LogInv
<1>2. LogInv /\ [SNext]_svars => LogInv'
  BY PromptStep, HealStep, PrepareStep, TrimStep, AppendStep, CompactStep, AroundStep
  DEF SNext, Works
<1>3. LogInv => ShownIsLogged
  BY DEF LogInv, Accounted, ShownIsLogged
<1> QED
  BY <1>1, <1>2, <1>3, PTL DEF SSpec

-----------------------------------------------------------------------------
(* The calendar (Dates), for every day there is.                           *)
(*                                                                         *)
(* Both algorithms go by where a day is: the era of 400 years, the year of *)
(* it and the month, both counted from March, and the day.  Every day has  *)
(* one such place (SpotExists, SpotIsFound), the next day's is that of the *)
(* calendar (NextSpot), and later days have later ones (LaterMonth).       *)

(* Days from the start of an era to the start of a year of it, and from    *)
(* the start of a year to the start of a month.                            *)
YearStart(y)  == 365 * y + y \div 4 - y \div 100
MonthStart(m) == (153 * m + 2) \div 5

(* Where the year of a day of an era starts: the quotients of its          *)
(* algorithm by what each leaves.                                          *)
LEMMA YearIsLinear ==
  ASSUME NEW doe \in Int, 0 <= doe, doe <= 146096,
         NEW a \in Int, 1460 * a <= doe, doe < 1460 * a + 1460,
         NEW b \in Int, 36524 * b <= doe, doe < 36524 * b + 36524,
         NEW c \in Int, 146096 * c <= doe, doe < 146096 * c + 146096,
         NEW y \in Int, 365 * y <= doe - a + b - c, doe - a + b - c < 365 * y + 365,
         NEW s \in Int, 4 * s <= y, y < 4 * s + 4,
         NEW t \in Int, 100 * t <= y, y < 100 * t + 100
  PROVE  0 <= y /\ y <= 399 /\ 365 * y + s - t <= doe
<1>1. 0 <= y /\ y <= 399
  BY SMTT(60)
<1>2. (b = 0 \/ b = 1 \/ b = 2 \/ b = 3 \/ b = 4) /\ (c = 0 \/ c = 1)
  BY SMT
<1>3. t = 0 \/ t = 1 \/ t = 2 \/ t = 3
  BY <1>1, SMT
<1>4. CASE c = 1
  BY <1>1, <1>2, <1>3, <1>4, SMTT(30)
<1>5. CASE c = 0 /\ b = 0
  BY <1>1, <1>2, <1>3, <1>5, SMTT(30)
<1>6. CASE c = 0 /\ b = 1
  BY <1>1, <1>2, <1>3, <1>6, SMTT(30)
<1>7. CASE c = 0 /\ b = 2
  BY <1>1, <1>2, <1>3, <1>7, SMTT(30)
<1>8. CASE c = 0 /\ b = 3
  BY <1>1, <1>2, <1>3, <1>8, SMTT(30)
<1>9. CASE c = 0 /\ b = 4
  BY <1>1, <1>2, <1>3, <1>9, SMTT(30)
<1> QED BY <1>1, <1>2, <1>4, <1>5, <1>6, <1>7, <1>8, <1>9

(* And where it ends.                                                      *)
LEMMA YearEndsLinear ==
  ASSUME NEW doe \in Int, 0 <= doe, doe <= 146096,
         NEW a \in Int, 1460 * a <= doe, doe < 1460 * a + 1460,
         NEW b \in Int, 36524 * b <= doe, doe < 36524 * b + 36524,
         NEW c \in Int, 146096 * c <= doe, doe < 146096 * c + 146096,
         NEW y \in Int, 365 * y <= doe - a + b - c, doe - a + b - c < 365 * y + 365,
         NEW s \in Int, 4 * s <= y + 1, y + 1 < 4 * s + 4,
         NEW t \in Int, 100 * t <= y + 1, y + 1 < 100 * t + 100,
         0 <= y, y <= 398
  PROVE  doe < 365 * (y + 1) + s - t
<1>2. (b = 0 \/ b = 1 \/ b = 2 \/ b = 3 \/ b = 4) /\ (c = 0 \/ c = 1)
  BY SMT
<1>3. t = 0 \/ t = 1 \/ t = 2 \/ t = 3
  BY SMT
<1>4. CASE c = 1
  BY <1>2, <1>3, <1>4, SMTT(30)
<1>5. CASE c = 0 /\ b = 0
  BY <1>2, <1>3, <1>5, SMTT(30)
<1>6. CASE c = 0 /\ b = 1
  BY <1>2, <1>3, <1>6, SMTT(30)
<1>7. CASE c = 0 /\ b = 2
  BY <1>2, <1>3, <1>7, SMTT(30)
<1>8. CASE c = 0 /\ b = 3
  BY <1>2, <1>3, <1>8, SMTT(30)
<1>9. CASE c = 0 /\ b = 4
  BY <1>2, <1>3, <1>9, SMTT(30)
<1> QED BY <1>2, <1>4, <1>5, <1>6, <1>7, <1>8, <1>9

(* The year of the era that a day of it is in.                             *)
YearOf(doe) == (doe - doe \div 1460 + doe \div 36524 - doe \div 146096) \div 365

InYear(doe, y) == YearStart(y) <= doe /\ (y = 399 \/ doe < YearStart(y + 1))

(* The year that the algorithm finds for a day is the one the day is in.   *)
LEMMA YearIs ==
  ASSUME NEW doe \in Int, 0 <= doe, doe <= 146096
  PROVE  /\ YearOf(doe) \in Int /\ 0 <= YearOf(doe) /\ YearOf(doe) <= 399
         /\ InYear(doe, YearOf(doe))
<1>1. PICK a \in Int, b \in Int, c \in Int :
        a = doe \div 1460 /\ b = doe \div 36524 /\ c = doe \div 146096
  BY SMT
<1>2. /\ 1460 * a <= doe /\ doe < 1460 * a + 1460
      /\ 36524 * b <= doe /\ doe < 36524 * b + 36524
      /\ 146096 * c <= doe /\ doe < 146096 * c + 146096
  BY <1>1, SMT
<1>3. PICK y \in Int : y = (doe - a + b - c) \div 365
  BY SMT
<1>4. 365 * y <= doe - a + b - c /\ doe - a + b - c < 365 * y + 365
  BY <1>3, SMT
<1>5. y = YearOf(doe)
  BY <1>1, <1>3 DEF YearOf
<1>6. PICK s \in Int, t \in Int, u \in Int, v \in Int :
        s = y \div 4 /\ t = y \div 100 /\ u = (y + 1) \div 4 /\ v = (y + 1) \div 100
  BY SMT
<1>7. /\ 4 * s <= y /\ y < 4 * s + 4 /\ 100 * t <= y /\ y < 100 * t + 100
      /\ 4 * u <= y + 1 /\ y + 1 < 4 * u + 4 /\ 100 * v <= y + 1 /\ y + 1 < 100 * v + 100
  BY <1>6, SMT
<1>8. 0 <= y /\ y <= 399 /\ 365 * y + s - t <= doe
  BY <1>2, <1>4, <1>7, YearIsLinear
<1>9. y <= 398 => doe < 365 * (y + 1) + u - v
  <2> SUFFICES ASSUME y <= 398 PROVE doe < 365 * (y + 1) + u - v
    OBVIOUS
  <2> QED BY <1>2, <1>4, <1>7, <1>8, YearEndsLinear
<1>10. y = 399 \/ doe < 365 * (y + 1) + u - v
  BY <1>8, <1>9, SMT
<1> QED BY <1>5, <1>6, <1>8, <1>10 DEF InYear, YearStart

(* A later year starts later, and how much later the next one does.        *)
LEMMA YearStartGrows ==
  ASSUME NEW y \in Int, NEW w \in Int, 0 <= y, y < w
  PROVE  YearStart(y) \in Int /\ YearStart(w) \in Int /\ YearStart(y) + 365 <= YearStart(w)
<1>1. PICK s \in Int, t \in Int, u \in Int, v \in Int :
        s = y \div 4 /\ t = y \div 100 /\ u = w \div 4 /\ v = w \div 100
  BY SMT
<1>2. /\ 4 * s <= y /\ y < 4 * s + 4 /\ 100 * t <= y /\ y < 100 * t + 100
      /\ 4 * u <= w /\ w < 4 * u + 4 /\ 100 * v <= w /\ w < 100 * v + 100
  BY <1>1, SMT
<1>3. 365 * y + s - t + 365 <= 365 * w + u - v
  BY <1>2, SMTT(30)
<1> QED BY <1>1, <1>3, SMT DEF YearStart

(* A day is in one year only.                                              *)
LEMMA YearOnly ==
  ASSUME NEW doe \in Int, 0 <= doe, doe <= 146096,
         NEW y \in Int, 0 <= y, y <= 399, InYear(doe, y)
  PROVE  YearOf(doe) = y
<1>1. PICK w \in Int : w = YearOf(doe)
  BY YearIs
<1>2. 0 <= w /\ w <= 399 /\ InYear(doe, w)
  BY <1>1, YearIs
<1>3. CASE w < y
  <2>1. YearStart(w + 1) <= YearStart(y)
    <3>1. w + 1 = y \/ w + 1 < y
      BY <1>3, SMT
    <3>2. CASE w + 1 < y
      BY <1>2, <3>2, YearStartGrows, SMT
    <3>3. CASE w + 1 = y
      BY <3>3, <1>3, <1>2, YearStartGrows, SMT
    <3> QED BY <3>1, <3>2, <3>3
  <2>2. YearStart(w + 1) \in Int /\ YearStart(y) \in Int
    BY <1>2, <1>3, YearStartGrows, SMT
  <2> QED BY <1>2, <1>3, <2>1, <2>2, SMT DEF InYear
<1>4. CASE y < w
  <2>1. YearStart(y + 1) <= YearStart(w)
    <3>1. y + 1 = w \/ y + 1 < w
      BY <1>4, SMT
    <3>2. CASE y + 1 < w
      BY <3>2, YearStartGrows, SMT
    <3>3. CASE y + 1 = w
      BY <3>3, <1>4, YearStartGrows, SMT
    <3> QED BY <3>1, <3>2, <3>3
  <2>2. YearStart(y + 1) \in Int /\ YearStart(w) \in Int
    BY <1>4, YearStartGrows, SMT
  <2> QED BY <1>2, <1>4, <2>1, <2>2, SMT DEF InYear
<1> QED BY <1>1, <1>3, <1>4, SMT

(* Where a day is: the era, the year of it, the month from March, the day. *)
Spot(n, era, yoe, mp, d) ==
  /\ 0 <= yoe /\ yoe <= 399 /\ 0 <= mp /\ mp <= 11 /\ 1 <= d
  /\ n + 719468 = 146097 * era + YearStart(yoe) + MonthStart(mp) + d - 1
  /\ YearStart(yoe) + MonthStart(mp) + d - 1 <= 146096
  /\ InYear(YearStart(yoe) + MonthStart(mp) + d - 1, yoe)
  /\ MonthStart(mp) + d - 1 < MonthStart(mp + 1)

Place(era, yoe, mp, d) ==
  Date(yoe + era * 400 + (IF mp < 10 THEN 0 ELSE 1), IF mp < 10 THEN mp + 3 ELSE mp - 9, d)

(* A day of the year is in one month only.                                 *)
LEMMA MonthOnly ==
  ASSUME NEW doy \in Int, 0 <= doy, doy <= 365, NEW mp \in Int, 0 <= mp, mp <= 11,
         MonthStart(mp) <= doy, doy < MonthStart(mp + 1)
  PROVE  (5 * doy + 2) \div 153 = mp
<1>1. PICK s \in Int, t \in Int, w \in Int :
        s = (153 * mp + 2) \div 5 /\ t = (153 * (mp + 1) + 2) \div 5 /\ w = (5 * doy + 2) \div 153
  BY SMT
<1>2. /\ 5 * s <= 153 * mp + 2 /\ 153 * mp + 2 < 5 * s + 5
      /\ 5 * t <= 153 * (mp + 1) + 2 /\ 153 * (mp + 1) + 2 < 5 * t + 5
      /\ 153 * w <= 5 * doy + 2 /\ 5 * doy + 2 < 153 * w + 153
  BY <1>1, SMT
<1>3. s <= doy /\ doy < t
  BY <1>1 DEF MonthStart
<1>4. w = mp
  BY <1>2, <1>3, SMTT(30)
<1> QED BY <1>1, <1>4

(* And it is in one.                                                       *)
LEMMA MonthIs ==
  ASSUME NEW doy \in Int, 0 <= doy, doy <= 365
  PROVE  \E mp \in Int : /\ 0 <= mp /\ mp <= 11
                         /\ MonthStart(mp) <= doy /\ doy < MonthStart(mp + 1)
<1>1. PICK mp \in Int : mp = (5 * doy + 2) \div 153
  BY SMT
<1>2. PICK s \in Int, t \in Int :
        s = (153 * mp + 2) \div 5 /\ t = (153 * (mp + 1) + 2) \div 5
  BY SMT
<1>3. /\ 5 * s <= 153 * mp + 2 /\ 153 * mp + 2 < 5 * s + 5
      /\ 5 * t <= 153 * (mp + 1) + 2 /\ 153 * (mp + 1) + 2 < 5 * t + 5
      /\ 153 * mp <= 5 * doy + 2 /\ 5 * doy + 2 < 153 * mp + 153
  BY <1>1, <1>2, SMT
<1>4. 0 <= mp /\ mp <= 11 /\ s <= doy /\ doy < t
  BY <1>3, SMTT(30)
<1> QED BY <1>2, <1>4 DEF MonthStart

(* A year has at most 366 days.                                            *)
LEMMA YearEnds ==
  ASSUME NEW doe \in Int, doe <= 146096, NEW y \in Int, 0 <= y, y <= 399, InYear(doe, y)
  PROVE  YearStart(y) \in Int /\ 0 <= YearStart(y) /\ 0 <= doe - YearStart(y) /\ doe - YearStart(y) <= 365
<1>1. PICK s \in Int, t \in Int, u \in Int, v \in Int :
        s = y \div 4 /\ t = y \div 100 /\ u = (y + 1) \div 4 /\ v = (y + 1) \div 100
  BY SMT
<1>2. /\ 4 * s <= y /\ y < 4 * s + 4 /\ 100 * t <= y /\ y < 100 * t + 100
      /\ 4 * u <= y + 1 /\ y + 1 < 4 * u + 4 /\ 100 * v <= y + 1 /\ y + 1 < 100 * v + 100
  BY <1>1, SMT
<1>3. 365 * y + s - t <= doe /\ (y = 399 \/ doe < 365 * (y + 1) + u - v)
  BY <1>1 DEF InYear, YearStart
<1>4. 0 <= 365 * y + s - t /\ doe - (365 * y + s - t) <= 365
  BY <1>2, <1>3, SMTT(30)
<1> QED BY <1>1, <1>3, <1>4 DEF YearStart

(* Every day is somewhere.                                                 *)
LEMMA SpotExists ==
  ASSUME NEW n \in Int
  PROVE  \E era, yoe, mp, d \in Int : Spot(n, era, yoe, mp, d)
<1>1. PICK era \in Int, doe \in Int : era = (n + 719468) \div 146097 /\ doe = (n + 719468) % 146097
  BY SMT
<1>2. n + 719468 = 146097 * era + doe /\ 0 <= doe /\ doe <= 146096
  BY <1>1, SMT
<1>3. PICK yoe \in Int : yoe = YearOf(doe)
  BY <1>2, YearIs
<1>4. 0 <= yoe /\ yoe <= 399 /\ InYear(doe, yoe)
  BY <1>2, <1>3, YearIs
<1>5. PICK start \in Int : start = YearStart(yoe)
  BY <1>4, <1>2, YearEnds
<1>6. 0 <= doe - start /\ doe - start <= 365
  BY <1>2, <1>4, <1>5, YearEnds
<1>7. PICK mp \in Int : /\ 0 <= mp /\ mp <= 11
                        /\ MonthStart(mp) <= doe - start /\ doe - start < MonthStart(mp + 1)
  BY <1>6, MonthIs
<1>8. PICK first \in Int : first = MonthStart(mp)
  BY DEF MonthStart
<1>9. PICK d \in Int : d = doe - start - first + 1
  OBVIOUS
<1>10. start + first + d - 1 = doe /\ first + d - 1 = doe - start /\ 1 <= d
  BY <1>7, <1>8, <1>9, SMT
<1>11. n + 719468 = 146097 * era + start + first + d - 1
  BY <1>2, <1>10, SMT
<1>12. Spot(n, era, yoe, mp, d)
  BY <1>2, <1>4, <1>5, <1>7, <1>8, <1>10, <1>11 DEF Spot
<1> QED BY <1>12

Starts(n, era, yoe, mp, d, start, first) ==
  /\ start = YearStart(yoe) /\ first = MonthStart(mp)
  /\ 0 <= start /\ 0 <= first /\ first + d - 1 <= 365
  /\ n + 719468 = 146097 * era + start + first + d - 1
  /\ start + first + d - 1 <= 146096
  /\ InYear(start + first + d - 1, yoe)
  /\ first + d - 1 < MonthStart(mp + 1)

(* Where its year and its month start.                                     *)
LEMMA SpotStarts ==
  ASSUME NEW n \in Int, NEW era \in Int, NEW yoe \in Int, NEW mp \in Int, NEW d \in Int,
         Spot(n, era, yoe, mp, d)
  PROVE  \E start, first \in Int : Starts(n, era, yoe, mp, d, start, first)
<1>1. 0 <= yoe /\ yoe <= 399 /\ 0 <= mp /\ mp <= 11 /\ 1 <= d
  BY DEF Spot
<1>2. PICK start \in Int, first \in Int : start = YearStart(yoe) /\ first = MonthStart(mp)
  BY DEF YearStart, MonthStart
<1>3. 0 <= first
  BY <1>1, <1>2, SMT DEF MonthStart
<1>4. /\ n + 719468 = 146097 * era + start + first + d - 1
      /\ start + first + d - 1 <= 146096
      /\ InYear(start + first + d - 1, yoe)
      /\ first + d - 1 < MonthStart(mp + 1)
  BY <1>2 DEF Spot
<1>5. 0 <= start /\ (start + first + d - 1) - start <= 365
  BY <1>1, <1>2, <1>4, YearEnds
<1>6. first + d - 1 <= 365
  BY <1>5, SMT
<1> QED BY <1>2, <1>3, <1>4, <1>5, <1>6 DEF Starts

(* The algorithm, step by step.                                            *)
Era(n) == (n + 719468) \div 146097
DayOfEra(n) == (n + 719468) % 146097
DayOfYear(doe, y) == doe - (365 * y + y \div 4 - y \div 100)
MonthOf(doy) == (5 * doy + 2) \div 153
DateAt(era, yoe, doy, mp) ==
  LET d == doy - (153 * mp + 2) \div 5 + 1
      m == IF mp < 10 THEN mp + 3 ELSE mp - 9
      y == yoe + era * 400
  IN  Date(IF m <= 2 THEN y + 1 ELSE y, m, d)

(* The algorithm is these steps.                                           *)
LEMMA StepByStep ==
  ASSUME NEW n, NEW doe, doe = DayOfEra(n), NEW yoe, yoe = YearOf(doe),
         NEW doy, doy = DayOfYear(doe, yoe)
  PROVE  civil_from_days(n) = DateAt(Era(n), yoe, doy, MonthOf(doy))
<1>1. civil_from_days(n) =
        LET e == DayOfEra(n)
            y == YearOf(e)
            f == DayOfYear(e, y)
        IN  DateAt(Era(n), y, f, MonthOf(f))
  BY DEF civil_from_days, Era, DayOfEra, YearOf, DayOfYear, MonthOf, DateAt
<1> QED BY <1>1

(* The algorithm finds it, and its inverse comes back.                     *)
LEMMA SpotIsFound ==
  ASSUME NEW n \in Int, NEW era \in Int, NEW yoe \in Int, NEW mp \in Int, NEW d \in Int,
         Spot(n, era, yoe, mp, d)
  PROVE  civil_from_days(n) = Place(era, yoe, mp, d)
<1>1. 0 <= yoe /\ yoe <= 399 /\ 0 <= mp /\ mp <= 11 /\ 1 <= d
  BY DEF Spot
<1>14. PICK start \in Int, first \in Int : Starts(n, era, yoe, mp, d, start, first)
  BY SpotStarts
<1>2. /\ start = YearStart(yoe) /\ first = MonthStart(mp)
      /\ 0 <= start /\ 0 <= first /\ first + d - 1 <= 365
     /\ n + 719468 = 146097 * era + start + first + d - 1
     /\ start + first + d - 1 <= 146096
     /\ InYear(start + first + d - 1, yoe)
     /\ first + d - 1 < MonthStart(mp + 1)
  BY <1>14 DEF Starts
<1>13. PICK doy \in Int : doy = first + d - 1
  OBVIOUS
<1>3. PICK doe \in Int : doy = first + d - 1 /\ doe = start + doy
  BY <1>13
<1>4. 0 <= doe /\ doe <= 146096 /\ 0 <= doy /\ doy <= 365 /\ n + 719468 = 146097 * era + doe
  BY <1>1, <1>2, <1>3, SMT
<1>5. Era(n) = era /\ DayOfEra(n) = doe
  BY <1>4, SMT DEF Era, DayOfEra
<1>6. YearOf(doe) = yoe
  <2>1. InYear(doe, yoe)
    <3>1. doe = start + first + d - 1
      BY <1>3, SMT
    <3> QED BY <1>2, <3>1
  <2> QED BY <1>1, <1>4, <2>1, YearOnly
<1>7. MonthOf(doy) = mp
  <2>1. first <= doy /\ doy = first + d - 1
    BY <1>1, <1>2, <1>3, SMT
  <2> QED BY <1>1, <1>2, <1>4, <2>1, MonthOnly DEF MonthOf
<1>8. DayOfYear(doe, yoe) = doy
  BY <1>2, <1>3, SMT DEF DayOfYear, YearStart
<1>9. civil_from_days(n) = DateAt(era, yoe, doy, mp)
  BY <1>5, <1>6, <1>7, <1>8, StepByStep
<1>10. doy - (153 * mp + 2) \div 5 + 1 = d
  BY <1>2, <1>3, SMT DEF MonthStart
<1>11. DateAt(era, yoe, doy, mp) =
         Date(IF (IF mp < 10 THEN mp + 3 ELSE mp - 9) <= 2 THEN yoe + era * 400 + 1 ELSE yoe + era * 400,
              IF mp < 10 THEN mp + 3 ELSE mp - 9, d)
  BY <1>10 DEF DateAt
<1> QED BY <1>1, <1>9, <1>11, SMT DEF Place, Date

ToDays(yy, m, d) ==
  LET yoe == yy % 400
  IN  (yy \div 400) * 146097 + (yoe * 365 + yoe \div 4 - yoe \div 100 + ((153 * m + 2) \div 5 + d - 1)) - 719468

(* From where a day is the inverse comes back to the day.                  *)
LEMMA SpotIsLeft ==
  ASSUME NEW n \in Int, NEW era \in Int, NEW yoe \in Int, NEW mp \in Int, NEW d \in Int,
         Spot(n, era, yoe, mp, d), NEW date, date = Place(era, yoe, mp, d)
  PROVE  civil_to_days(date[1], date[2], date[3]) = n
<1>1. 0 <= yoe /\ yoe <= 399 /\ 0 <= mp /\ mp <= 11 /\ 1 <= d
  BY DEF Spot
<1>2. PICK y \in Int, mo \in Int : /\ y = yoe + era * 400 + (IF mp < 10 THEN 0 ELSE 1)
                                   /\ mo = IF mp < 10 THEN mp + 3 ELSE mp - 9
  BY <1>1, SMT
<1>3. date = <<y, mo, d>>
  BY <1>2 DEF Place, Date
<1>4. PICK yy \in Int : yy = yoe + era * 400
  BY SMT
<1>5. yy = (IF mo <= 2 THEN y - 1 ELSE y) /\ mp = (IF mo <= 2 THEN mo + 9 ELSE mo - 3)
  BY <1>1, <1>2, <1>4, SMT
<1>6. civil_to_days(y, mo, d) = ToDays(IF mo <= 2 THEN y - 1 ELSE y, IF mo <= 2 THEN mo + 9 ELSE mo - 3, d)
  BY DEF civil_to_days, ToDays
<1>7. yy \div 400 = era /\ yy % 400 = yoe
  BY <1>1, <1>4, SMT
<1>8. PICK start \in Int, first \in Int : Starts(n, era, yoe, mp, d, start, first)
  BY SpotStarts
<1>9. /\ start = YearStart(yoe) /\ first = MonthStart(mp)
      /\ n + 719468 = 146097 * era + start + first + d - 1
  BY <1>8 DEF Starts
<1>10. ToDays(yy, mp, d) = n
  <2>1. ToDays(yy, mp, d) = era * 146097 + (yoe * 365 + yoe \div 4 - yoe \div 100 + (first + d - 1)) - 719468
    BY <1>7, <1>9 DEF ToDays, MonthStart
  <2>2. PICK s \in Int, t \in Int : s = yoe \div 4 /\ t = yoe \div 100
    BY SMT
  <2>3. start = 365 * yoe + s - t
    BY <1>9, <2>2 DEF YearStart
  <2>4. ToDays(yy, mp, d) = era * 146097 + (yoe * 365 + s - t + (first + d - 1)) - 719468
    BY <2>1, <2>2
  <2> QED BY <1>9, <2>3, <2>4, SMT
<1>11. date[1] = y /\ date[2] = mo /\ date[3] = d
  BY <1>3
<1>12. civil_to_days(y, mo, d) = ToDays(yy, mp, d)
  BY <1>5, <1>6
<1> QED BY <1>10, <1>11, <1>12

(* The months from March to January are as long as the calendar has them.  *)
LEMMA MonthLasts ==
  ASSUME NEW mp \in Int, 0 <= mp, mp <= 10, NEW y
  PROVE  /\ MonthStart(mp) \in Int /\ 0 <= MonthStart(mp)
         /\ MonthStart(mp + 1) = MonthStart(mp) + DaysIn(y, IF mp < 10 THEN mp + 3 ELSE mp - 9)
         /\ DaysIn(y, IF mp < 10 THEN mp + 3 ELSE mp - 9) \in {30, 31}
         /\ MonthStart(mp + 1) <= 337
<1>1. /\ mp = 0 \/ mp = 1 \/ mp = 2 \/ mp = 3 \/ mp = 4 \/ mp = 5 \/ mp = 6 \/ mp = 7 \/ mp = 8
         \/ mp = 9 \/ mp = 10
  BY SMT
<1> DEFINE Good(m) ==
      /\ MonthStart(m) \in Int /\ 0 <= MonthStart(m)
      /\ MonthStart(m + 1) = MonthStart(m) + DaysIn(y, IF m < 10 THEN m + 3 ELSE m - 9)
      /\ DaysIn(y, IF m < 10 THEN m + 3 ELSE m - 9) \in {30, 31}
      /\ MonthStart(m + 1) <= 337
<1>2. Good(0) /\ Good(1) /\ Good(2)
  BY SMT DEF MonthStart, DaysIn
<1>3. Good(3) /\ Good(4) /\ Good(5)
  BY SMT DEF MonthStart, DaysIn
<1>4. Good(6) /\ Good(7) /\ Good(8)
  BY SMT DEF MonthStart, DaysIn
<1>5. Good(9) /\ Good(10)
  BY SMT DEF MonthStart, DaysIn
<1>6. Good(mp)
  <2> HIDE DEF Good
  <2> QED BY <1>1, <1>2, <1>3, <1>4, <1>5
<1> QED BY <1>6

(* February, the last month, makes the year as long as the calendar has    *)
(* it.                                                                     *)
LEMMA YearLasts ==
  ASSUME NEW yoe \in Int, 0 <= yoe, yoe <= 399, NEW era \in Int
  PROVE  \E y \in Int : /\ y = yoe + era * 400 + 1
                        /\ DaysIn(y, 2) \in {28, 29}
                        /\ yoe = 399 => DaysIn(y, 2) = 29
                        /\ yoe < 399 => YearStart(yoe + 1) = YearStart(yoe) + 337 + DaysIn(y, 2)
<1>1. PICK y \in Int : y = yoe + era * 400 + 1
  BY SMT
<1>2. PICK p \in Int, q \in Int, r \in Int : p = y % 4 /\ q = y % 100 /\ r = y % 400
  BY SMT
<1>3. PICK s \in Int, t \in Int, u \in Int, v \in Int :
        s = yoe \div 4 /\ t = yoe \div 100 /\ u = (yoe + 1) \div 4 /\ v = (yoe + 1) \div 100
  BY SMT
<1>4. PICK a \in Int, b \in Int, c \in Int : a = y \div 4 /\ b = y \div 100 /\ c = y \div 400
  BY SMT
<1>5. /\ y = 4 * a + p /\ 0 <= p /\ p < 4
      /\ y = 100 * b + q /\ 0 <= q /\ q < 100
      /\ y = 400 * c + r /\ 0 <= r /\ r < 400
  BY <1>2, <1>4, SMT
<1>6. /\ 4 * s <= yoe /\ yoe < 4 * s + 4 /\ 100 * t <= yoe /\ yoe < 100 * t + 100
      /\ 4 * u <= yoe + 1 /\ yoe + 1 < 4 * u + 4 /\ 100 * v <= yoe + 1 /\ yoe + 1 < 100 * v + 100
  BY <1>3, SMT
<1>7. DaysIn(y, 2) = IF p = 0 /\ (q # 0 \/ r = 0) THEN 29 ELSE 28
  BY <1>2 DEF DaysIn, Leap
<1>8. u = s + (IF p = 0 THEN 1 ELSE 0)
  BY <1>1, <1>5, <1>6, SMTT(30)
<1>9. v = t + (IF q = 0 THEN 1 ELSE 0)
  BY <1>1, <1>5, <1>6, SMTT(30)
<1>10. r = 0 <=> yoe = 399
  BY <1>1, <1>5, SMTT(30)
<1>11. q = 0 => p = 0
  BY <1>5, SMT
<1>12. r = 0 => q = 0
  BY <1>5, SMT
<1>13. yoe < 399 => 365 * (yoe + 1) + u - v = 365 * yoe + s - t + 337 + DaysIn(y, 2)
  BY <1>7, <1>8, <1>9, <1>10, <1>11, <1>12, SMT
<1>14. yoe = 399 => DaysIn(y, 2) = 29
  BY <1>7, <1>10, <1>11, <1>12
<1>15. yoe < 399 => YearStart(yoe + 1) = YearStart(yoe) + 337 + DaysIn(y, 2)
  BY <1>3, <1>13 DEF YearStart
<1> QED BY <1>1, <1>7, <1>14, <1>15

(* Of the years of an era the last one starts last.                        *)
LEMMA LastYear ==
  ASSUME NEW y \in Int, 0 <= y, y <= 399
  PROVE  YearStart(y) \in Int /\ YearStart(y) <= 145731
<1>1. y = 399 \/ y < 399
  BY SMT
<1>2. YearStart(399) = 145731
  BY SMT DEF YearStart
<1>3. CASE y < 399
  BY <1>2, <1>3, YearStartGrows, SMT
<1>4. CASE y = 399
  BY <1>2, <1>4
<1> QED BY <1>1, <1>3, <1>4

(* The day after a day is where the calendar has it.                       *)
LEMMA NextSpot ==
  ASSUME NEW n \in Int, NEW era \in Int, NEW yoe \in Int, NEW mp \in Int, NEW d \in Int,
         Spot(n, era, yoe, mp, d)
  PROVE  civil_from_days(n + 1) = DayAfter(Place(era, yoe, mp, d))
<1>1. 0 <= yoe /\ yoe <= 399 /\ 0 <= mp /\ mp <= 11 /\ 1 <= d
  BY DEF Spot
<1>2. PICK start \in Int, first \in Int : Starts(n, era, yoe, mp, d, start, first)
  BY SpotStarts
<1>3. /\ start = YearStart(yoe) /\ first = MonthStart(mp)
      /\ 0 <= start /\ 0 <= first
      /\ n + 719468 = 146097 * era + start + first + d - 1
      /\ start + first + d - 1 <= 146096
      /\ InYear(start + first + d - 1, yoe)
      /\ first + d - 1 < MonthStart(mp + 1)
  BY <1>2 DEF Starts
<1>4. n + 1 \in Int
  BY SMT
<1>5. start <= start + first + d - 1 /\ (yoe = 399 \/ start + first + d - 1 < YearStart(yoe + 1))
  BY <1>3 DEF InYear
<1>6. CASE mp <= 10
  <2> DEFINE y == yoe + era * 400 + (IF mp < 10 THEN 0 ELSE 1)
             mo == IF mp < 10 THEN mp + 3 ELSE mp - 9
  <2>1. PICK days \in Int : days = DaysIn(y, mo) /\ days \in {30, 31}
    BY <1>1, <1>6, MonthLasts
  <2>2. MonthStart(mp + 1) = first + days /\ first + days <= 337
    BY <1>1, <1>3, <1>6, <2>1, MonthLasts
  <2>3. PICK next \in Int : next = YearStart(yoe + 1) /\ start + 365 <= next
    <3>1. yoe < yoe + 1 /\ yoe + 1 \in Int
      BY SMT
    <3> QED BY <1>1, <1>3, <3>1, YearStartGrows
  <2>4. yoe = 399 => start + 365 <= 146096
    BY <1>3, SMT DEF YearStart
  <2>5. y \in Int /\ mo \in Int /\ mo >= 1 /\ mo <= 12
    BY <1>1, <1>6, SMT
  <2>6. Place(era, yoe, mp, d) = <<y, mo, d>>
    BY DEF Place, Date
  <2>7. CASE d < days
    <3>1. d + 1 \in Int /\ 1 <= d + 1 /\ first + (d + 1) - 1 < first + days
      BY <1>1, <2>1, <2>7, SMT
    <3>2. /\ n + 1 + 719468 = 146097 * era + start + first + (d + 1) - 1
          /\ start <= start + first + (d + 1) - 1
          /\ yoe = 399 => start + first + (d + 1) - 1 <= 146096
          /\ start + first + (d + 1) - 1 < next
      BY <1>1, <1>3, <2>1, <2>2, <2>3, <2>4, <2>7, SMT
    <3>3. yoe < 399 => next <= 145731
      <4> SUFFICES ASSUME yoe < 399 PROVE next <= 145731
        OBVIOUS
      <4>1. yoe + 1 \in Int /\ 0 <= yoe + 1 /\ yoe + 1 <= 399
        BY <1>1, SMT
      <4> QED BY <2>3, <4>1, LastYear
    <3>4. start + first + (d + 1) - 1 <= 146096
      BY <1>1, <3>2, <3>3, SMT
    <3>5. InYear(start + first + (d + 1) - 1, yoe)
      BY <1>3, <2>3, <3>2 DEF InYear
    <3>6. Spot(n + 1, era, yoe, mp, d + 1)
      BY <1>1, <1>3, <2>2, <3>1, <3>2, <3>4, <3>5 DEF Spot
    <3>7. civil_from_days(n + 1) = Place(era, yoe, mp, d + 1)
      BY <1>4, <3>1, <3>6, SpotIsFound
    <3>8. DayAfter(<<y, mo, d>>) = <<y, mo, d + 1>>
      <4> HIDE DEF y, mo
      <4> QED BY <2>1, <2>7 DEF DayAfter, Date
    <3>9. Place(era, yoe, mp, d + 1) = <<y, mo, d + 1>>
      BY DEF Place, Date
    <3> QED BY <2>6, <3>7, <3>8, <3>9
  <2>8. CASE d = days
    <3>1. mp + 1 \in Int /\ 0 <= mp + 1 /\ mp + 1 <= 11
      BY <1>1, <1>6, SMT
    <3>2. PICK second \in Int : second = first + days
      BY SMT
    <3>3. /\ n + 1 + 719468 = 146097 * era + start + second + 1 - 1
          /\ start <= start + second + 1 - 1
          /\ yoe = 399 => start + second + 1 - 1 <= 146096
          /\ start + second + 1 - 1 < next
      BY <1>1, <1>3, <2>1, <2>2, <2>3, <2>4, <2>8, <3>2, SMT
    <3>4. start + second + 1 - 1 <= 146096
      <4>1. yoe < 399 => next <= 145731
        <5> SUFFICES ASSUME yoe < 399 PROVE next <= 145731
          OBVIOUS
        <5>1. yoe + 1 \in Int /\ 0 <= yoe + 1 /\ yoe + 1 <= 399
          BY <1>1, SMT
        <5> QED BY <2>3, <5>1, LastYear
      <4> QED BY <1>1, <3>3, <4>1, SMT
    <3>5. InYear(start + second + 1 - 1, yoe)
      BY <1>3, <2>3, <3>3 DEF InYear
    <3>6. second + 1 - 1 < MonthStart(mp + 1 + 1)
      <4>1. MonthStart(mp + 1 + 1) \in Int /\ second = MonthStart(mp + 1)
        BY <2>2, <3>2 DEF MonthStart
      <4>2. MonthStart(mp + 1) + 1 - 1 < MonthStart(mp + 1 + 1)
        BY <3>1, SMT DEF MonthStart
      <4> QED BY <4>1, <4>2
    <3>7. Spot(n + 1, era, yoe, mp + 1, 1)
      BY <1>1, <1>3, <2>2, <3>1, <3>2, <3>3, <3>4, <3>5, <3>6 DEF Spot
    <3>8. civil_from_days(n + 1) = Place(era, yoe, mp + 1, 1)
      BY <1>4, <3>1, <3>7, SpotIsFound
    <3>9. CASE mo < 12
      <4>1. DayAfter(<<y, mo, d>>) = <<y, mo + 1, 1>>
        <5> HIDE DEF y, mo
        <5> QED BY <1>1, <2>1, <2>8, <3>9, SMT DEF DayAfter, Date
      <4>2. Place(era, yoe, mp + 1, 1) = <<y, mo + 1, 1>>
        BY <1>1, <1>6, <3>9, SMT DEF Place, Date
      <4> QED BY <2>6, <3>8, <4>1, <4>2
    <3>10. CASE mo = 12
      <4>1. DayAfter(<<y, mo, d>>) = <<y + 1, 1, 1>>
        <5> HIDE DEF y, mo
        <5> QED BY <1>1, <2>1, <2>8, <3>10, SMT DEF DayAfter, Date
      <4>2. Place(era, yoe, mp + 1, 1) = <<y + 1, 1, 1>>
        BY <1>1, <1>6, <3>10, SMT DEF Place, Date
      <4> QED BY <2>6, <3>8, <4>1, <4>2
    <3> QED BY <2>5, <3>9, <3>10, SMT
  <2>9. d <= days
    BY <1>1, <1>3, <2>1, <2>2, SMT
  <2> QED BY <2>1, <2>7, <2>8, <2>9, SMT
<1>7. CASE mp = 11
  <2>1. PICK y \in Int : /\ y = yoe + era * 400 + 1
                         /\ DaysIn(y, 2) \in {28, 29}
                         /\ yoe = 399 => DaysIn(y, 2) = 29
                         /\ yoe < 399 => YearStart(yoe + 1) = YearStart(yoe) + 337 + DaysIn(y, 2)
    BY <1>1, YearLasts
  <2>2. PICK days \in Int : days = DaysIn(y, 2) /\ days \in {28, 29}
    BY <2>1
  <2>3. first = 337 /\ MonthStart(mp + 1) = 367
    BY <1>3, <1>7, SMT DEF MonthStart
  <2>4. yoe = 399 => days = 29 /\ start = 145731
    BY <1>3, <2>1, <2>2, SMT DEF YearStart
  <2>5. yoe < 399 => YearStart(yoe + 1) = start + 337 + days
    BY <1>3, <2>1, <2>2
  <2>6. d <= days
    BY <1>1, <1>3, <1>5, <2>2, <2>3, <2>4, <2>5, SMT
  <2>7. Place(era, yoe, mp, d) = <<y, 2, d>>
    BY <1>7, <2>1, SMT DEF Place, Date
  <2>8. CASE d < days
    <3>1. d + 1 \in Int /\ 1 <= d + 1 /\ first + (d + 1) - 1 < 367
      BY <1>1, <2>2, <2>3, <2>8, SMT
    <3>2. /\ n + 1 + 719468 = 146097 * era + start + first + (d + 1) - 1
          /\ start <= start + first + (d + 1) - 1
          /\ yoe = 399 => start + first + (d + 1) - 1 <= 146096
          /\ yoe < 399 => start + first + (d + 1) - 1 < YearStart(yoe + 1)
      BY <1>1, <1>3, <2>2, <2>3, <2>4, <2>5, <2>8, SMT
    <3>3. yoe < 399 => YearStart(yoe + 1) <= 145731 /\ YearStart(yoe + 1) \in Int
      <4> SUFFICES ASSUME yoe < 399 PROVE YearStart(yoe + 1) <= 145731 /\ YearStart(yoe + 1) \in Int
        OBVIOUS
      <4>1. yoe + 1 \in Int /\ 0 <= yoe + 1 /\ yoe + 1 <= 399
        BY <1>1, SMT
      <4> QED BY <4>1, LastYear
    <3>4. start + first + (d + 1) - 1 <= 146096
      BY <1>1, <3>2, <3>3, SMT
    <3>5. InYear(start + first + (d + 1) - 1, yoe)
      <4>1. yoe = 399 \/ yoe < 399
        BY <1>1, SMT
      <4> QED BY <1>3, <3>2, <4>1 DEF InYear
    <3>6. Spot(n + 1, era, yoe, mp, d + 1)
      BY <1>1, <1>3, <2>3, <3>1, <3>2, <3>4, <3>5 DEF Spot
    <3>7. civil_from_days(n + 1) = Place(era, yoe, mp, d + 1)
      BY <1>4, <3>1, <3>6, SpotIsFound
    <3>8. DayAfter(<<y, 2, d>>) = <<y, 2, d + 1>>
      BY <2>2, <2>8 DEF DayAfter, Date
    <3>9. Place(era, yoe, mp, d + 1) = <<y, 2, d + 1>>
      BY <1>7, <2>1, SMT DEF Place, Date
    <3> QED BY <2>7, <3>7, <3>8, <3>9
  <2>9. CASE d = days /\ yoe < 399
    <3>1. PICK next \in Int, yoe1 \in Int : next = start + 337 + days /\ yoe1 = yoe + 1
      BY SMT
    <3>2. next = YearStart(yoe1) /\ 0 <= yoe1 /\ yoe1 <= 399
      BY <1>1, <2>5, <2>9, <3>1, SMT
    <3>3. MonthStart(0) = 0 /\ MonthStart(0 + 1) = 31
      BY SMT DEF MonthStart
    <3>4. n + 1 + 719468 = 146097 * era + next + 0 + 1 - 1
      <4>1. n + 719468 = 146097 * era + start + first + d - 1
        BY <1>3
      <4> QED BY <2>3, <2>9, <3>1, <4>1, SMT
    <3>5. next + 0 + 1 - 1 = next
      BY SMT
    <3>6. next <= 145731
      BY <3>2, LastYear
    <3>7. next < YearStart(yoe1 + 1)
      <4>1. yoe1 < yoe1 + 1 /\ yoe1 + 1 \in Int
        BY SMT
      <4>2. YearStart(yoe1 + 1) \in Int /\ YearStart(yoe1) + 365 <= YearStart(yoe1 + 1)
        BY <3>2, <4>1, YearStartGrows
      <4> QED BY <3>2, <4>2, SMT
    <3>8. InYear(next, yoe1)
      BY <3>2, <3>7, SMT DEF InYear
    <3>9. Spot(n + 1, era, yoe1, 0, 1)
      <4>1. next <= 146096 /\ 0 + 1 - 1 < 31
        BY <3>6, SMT
      <4> QED BY <3>2, <3>3, <3>4, <3>5, <3>8, <4>1, SMT DEF Spot
    <3>10. civil_from_days(n + 1) = Place(era, yoe1, 0, 1)
      BY <1>4, <3>9, SpotIsFound
    <3>11. DayAfter(<<y, 2, d>>) = <<y, 3, 1>>
      BY <2>2, <2>9, SMT DEF DayAfter, Date
    <3>12. Place(era, yoe1, 0, 1) = <<y, 3, 1>>
      BY <2>1, <3>1, SMT DEF Place, Date
    <3> QED BY <2>7, <3>10, <3>11, <3>12
  <2>10. CASE d = days /\ yoe = 399
    <3>1. PICK era1 \in Int : era1 = era + 1
      BY SMT
    <3>2. n + 1 + 719468 = 146097 * era1
      BY <1>3, <2>3, <2>4, <2>10, <3>1, SMT
    <3>3. MonthStart(0) = 0 /\ MonthStart(0 + 1) = 31 /\ YearStart(0) = 0 /\ YearStart(0 + 1) = 365
      BY SMT DEF MonthStart, YearStart
    <3>4. Spot(n + 1, era1, 0, 0, 1)
      BY <3>2, <3>3, SMT DEF Spot, InYear
    <3>5. civil_from_days(n + 1) = Place(era1, 0, 0, 1)
      BY <1>4, <3>4, SpotIsFound
    <3>6. DayAfter(<<y, 2, d>>) = <<y, 3, 1>>
      BY <2>2, <2>10, SMT DEF DayAfter, Date
    <3>7. Place(era1, 0, 0, 1) = <<y, 3, 1>>
      BY <2>1, <2>10, <3>1, SMT DEF Place, Date
    <3> QED BY <2>7, <3>5, <3>6, <3>7
  <2> QED BY <1>1, <2>2, <2>6, <2>8, <2>9, <2>10, SMT
<1>8. mp <= 10 \/ mp = 11
  BY <1>1, SMT
<1> QED BY <1>6, <1>7, <1>8

(* Every day of the calendar, forwards and back.                           *)
THEOREM DaysAreDates == \A n \in Int : CalendarIsRight(n)
<1> SUFFICES ASSUME NEW n \in Int PROVE CalendarIsRight(n)
  OBVIOUS
<1>1. PICK era \in Int, yoe \in Int, mp \in Int, d \in Int : Spot(n, era, yoe, mp, d)
  BY SpotExists
<1>2. PICK date : date = Place(era, yoe, mp, d)
  OBVIOUS
<1>3. civil_from_days(n) = date
  BY <1>1, <1>2, SpotIsFound
<1>4. civil_to_days(date[1], date[2], date[3]) = n
  BY <1>1, <1>2, SpotIsLeft
<1>5. civil_from_days(n + 1) = DayAfter(date)
  BY <1>1, <1>2, NextSpot
<1>6. civil_from_days(0) = Date(1970, 1, 1)
  <2>1. Spot(0, 4, 369, 10, 1)
    BY SMT DEF Spot, InYear, YearStart, MonthStart
  <2>2. civil_from_days(0) = Place(4, 369, 10, 1)
    BY <2>1, SpotIsFound
  <2>3. Place(4, 369, 10, 1) = Date(1970, 1, 1)
    BY SMT DEF Place, Date
  <2> QED BY <2>2, <2>3
<1> QED BY <1>3, <1>4, <1>5, <1>6 DEF CalendarIsRight

(* Years and months in one number, counted from March: it orders the days  *)
(* of two different months, as do the parts of their dates.                *)
Months(era, yoe, mp) == 12 * (400 * era + yoe) + mp

(* The days of a later month are later.                                    *)
LEMMA LaterMonth ==
  ASSUME NEW n \in Int, NEW era \in Int, NEW yoe \in Int, NEW mp \in Int, NEW d \in Int,
         Spot(n, era, yoe, mp, d),
         NEW n2 \in Int, NEW era2 \in Int, NEW yoe2 \in Int, NEW mp2 \in Int, NEW d2 \in Int,
         Spot(n2, era2, yoe2, mp2, d2),
         Months(era, yoe, mp) < Months(era2, yoe2, mp2)
  PROVE  n < n2
<1>1. /\ 0 <= yoe /\ yoe <= 399 /\ 0 <= mp /\ mp <= 11 /\ 1 <= d
      /\ 0 <= yoe2 /\ yoe2 <= 399 /\ 0 <= mp2 /\ mp2 <= 11 /\ 1 <= d2
  BY DEF Spot
<1>2. PICK start \in Int, first \in Int : Starts(n, era, yoe, mp, d, start, first)
  BY SpotStarts
<1>3. PICK start2 \in Int, first2 \in Int : Starts(n2, era2, yoe2, mp2, d2, start2, first2)
  BY SpotStarts
<1>4. /\ start = YearStart(yoe) /\ first = MonthStart(mp)
      /\ n + 719468 = 146097 * era + start + first + d - 1
      /\ 0 <= start /\ 0 <= first /\ start + first + d - 1 <= 146096
      /\ InYear(start + first + d - 1, yoe) /\ first + d - 1 < MonthStart(mp + 1)
  BY <1>2 DEF Starts
<1>5. /\ start2 = YearStart(yoe2) /\ first2 = MonthStart(mp2)
      /\ n2 + 719468 = 146097 * era2 + start2 + first2 + d2 - 1
      /\ 0 <= start2 /\ 0 <= first2 /\ start2 + first2 + d2 - 1 <= 146096
  BY <1>3 DEF Starts
<1>6. \/ era < era2
      \/ era = era2 /\ yoe < yoe2
      \/ era = era2 /\ yoe = yoe2 /\ mp < mp2
  BY <1>1, SMT DEF Months
<1>7. CASE era < era2
  BY <1>1, <1>4, <1>5, <1>7, SMT
<1>8. CASE era = era2 /\ yoe < yoe2
  <2>1. yoe # 399
    BY <1>1, <1>8, SMT
  <2>2. PICK next \in Int : next = YearStart(yoe + 1)
    BY DEF YearStart
  <2>3. start + first + d - 1 < next
    BY <1>4, <2>1, <2>2 DEF InYear
  <2>4. next <= start2
    <3>1. yoe + 1 = yoe2 \/ yoe + 1 < yoe2
      BY <1>8, SMT
    <3>2. CASE yoe + 1 < yoe2
      <4>1. yoe + 1 \in Int /\ 0 <= yoe + 1
        BY <1>1, SMT
      <4>2. next + 365 <= start2
        BY <1>5, <2>2, <3>2, <4>1, YearStartGrows
      <4> QED BY <4>2, SMT
    <3>3. CASE yoe + 1 = yoe2
      BY <1>5, <2>2, <3>3, SMT
    <3> QED BY <3>1, <3>2, <3>3
  <2> QED BY <1>1, <1>4, <1>5, <1>8, <2>3, <2>4, SMT
<1>9. CASE era = era2 /\ yoe = yoe2 /\ mp < mp2
  <2>1. PICK next \in Int : next = MonthStart(mp + 1)
    BY DEF MonthStart
  <2>2. next <= first2
    BY <1>1, <1>5, <1>9, <2>1, SMT DEF MonthStart
  <2>3. start = start2
    BY <1>4, <1>5, <1>9
  <2>4. first + d - 1 < next
    BY <1>4, <2>1
  <2> QED BY <1>1, <1>4, <1>5, <1>9, <2>2, <2>3, <2>4, SMT
<1> QED BY <1>6, <1>7, <1>8, <1>9

(* Dates are in the order of their days.                                   *)
LEMMA DatesInOrder ==
  ASSUME NEW n \in Int, NEW n2 \in Int
  PROVE  Less(civil_from_days(n), civil_from_days(n2)) <=> n < n2
<1>1. PICK era \in Int, yoe \in Int, mp \in Int, d \in Int : Spot(n, era, yoe, mp, d)
  BY SpotExists
<1>2. PICK era2 \in Int, yoe2 \in Int, mp2 \in Int, d2 \in Int : Spot(n2, era2, yoe2, mp2, d2)
  BY SpotExists
<1>3. PICK a \in Int, b \in Int : a = Months(era, yoe, mp) /\ b = Months(era2, yoe2, mp2)
  BY DEF Months
<1>4. /\ 0 <= yoe /\ yoe <= 399 /\ 0 <= mp /\ mp <= 11 /\ 1 <= d
      /\ 0 <= yoe2 /\ yoe2 <= 399 /\ 0 <= mp2 /\ mp2 <= 11 /\ 1 <= d2
  BY <1>1, <1>2 DEF Spot
<1>5. a < b => n < n2
  BY <1>1, <1>2, <1>3, LaterMonth
<1>6. b < a => n2 < n
  BY <1>1, <1>2, <1>3, LaterMonth
<1>7. a = b => (d < d2 <=> n < n2)
  <2> SUFFICES ASSUME a = b PROVE d < d2 <=> n < n2
    OBVIOUS
  <2>1. mp = mp2 /\ yoe = yoe2 /\ era = era2
    <3>1. PICK y \in Int, y2 \in Int : y = 400 * era + yoe /\ y2 = 400 * era2 + yoe2
      OBVIOUS
    <3>2. 12 * y + mp = 12 * y2 + mp2
      BY <1>3, <3>1 DEF Months
    <3>3. y = y2 /\ mp = mp2
      BY <1>4, <3>2, SMT
    <3> QED BY <1>4, <3>1, <3>3, SMT
  <2>2. PICK start \in Int, first \in Int : start = YearStart(yoe) /\ first = MonthStart(mp)
    BY DEF YearStart, MonthStart
  <2>3. /\ n + 719468 = 146097 * era + start + first + d - 1
        /\ n2 + 719468 = 146097 * era + start + first + d2 - 1
    BY <1>1, <1>2, <2>1, <2>2 DEF Spot
  <2> QED BY <2>3, SMT
<1>8. PICK y \in Int, mo \in Int, y2 \in Int, mo2 \in Int :
        /\ y = yoe + era * 400 + (IF mp < 10 THEN 0 ELSE 1)
        /\ mo = IF mp < 10 THEN mp + 3 ELSE mp - 9
        /\ y2 = yoe2 + era2 * 400 + (IF mp2 < 10 THEN 0 ELSE 1)
        /\ mo2 = IF mp2 < 10 THEN mp2 + 3 ELSE mp2 - 9
  <2>1. /\ yoe + era * 400 + (IF mp < 10 THEN 0 ELSE 1) \in Int
        /\ (IF mp < 10 THEN mp + 3 ELSE mp - 9) \in Int
        /\ yoe2 + era2 * 400 + (IF mp2 < 10 THEN 0 ELSE 1) \in Int
        /\ (IF mp2 < 10 THEN mp2 + 3 ELSE mp2 - 9) \in Int
    BY SMT
  <2> QED BY <2>1
<1>9. civil_from_days(n) = <<y, mo, d>> /\ civil_from_days(n2) = <<y2, mo2, d2>>
  BY <1>1, <1>2, <1>8, SpotIsFound DEF Place, Date
<1>10. Less(<<y, mo, d>>, <<y2, mo2, d2>>) <=> (a < b \/ (a = b /\ d < d2))
  <2>1. a = 12 * y + mo - 3 /\ b = 12 * y2 + mo2 - 3
    BY <1>3, <1>4, <1>8, SMT DEF Months
  <2>2. 1 <= mo /\ mo <= 12 /\ 1 <= mo2 /\ mo2 <= 12
    BY <1>4, <1>8, SMT
  <2>3. (a < b \/ (a = b /\ d < d2)) <=>
          (y < y2 \/ (y = y2 /\ mo < mo2) \/ (y = y2 /\ mo = mo2 /\ d < d2))
    BY <2>1, <2>2, SMT
  <2> QED BY <2>3 DEF Less
<1>11. n < n2 <=> (a < b \/ (a = b /\ d < d2))
  BY <1>5, <1>6, <1>7, SMT
<1> QED BY <1>9, <1>10, <1>11

(* Every day has a date that the filters take, and the day after it.       *)
LEMMA DatesAreAccepted ==
  ASSUME NEW n \in Int
  PROVE  /\ parse_ymd(civil_from_days(n)) = civil_from_days(n)
         /\ civil_from_days(n) # NotADate
         /\ next_day(civil_from_days(n)) = civil_from_days(n + 1)
<1>1. PICK era \in Int, yoe \in Int, mp \in Int, d \in Int : Spot(n, era, yoe, mp, d)
  BY SpotExists
<1>2. 0 <= mp /\ mp <= 11 /\ 1 <= d
  BY <1>1 DEF Spot
<1>3. PICK date : date = Place(era, yoe, mp, d)
  OBVIOUS
<1>4. civil_from_days(n) = date
  BY <1>1, <1>3, SpotIsFound
<1>5. d <= 31
  <2>1. PICK first \in Int, next \in Int : first = MonthStart(mp) /\ next = MonthStart(mp + 1)
    BY DEF MonthStart
  <2>2. first + d - 1 < next
    BY <1>1, <2>1 DEF Spot
  <2>3. next <= first + 31
    BY <1>2, <2>1, SMT DEF MonthStart
  <2> QED BY <2>2, <2>3, SMT
<1>6. PICK mo \in 1 .. 12, y \in Int : date = <<y, mo, d>>
  <2>1. (IF mp < 10 THEN mp + 3 ELSE mp - 9) \in 1 .. 12
    BY <1>2, SMT
  <2>2. yoe + era * 400 + (IF mp < 10 THEN 0 ELSE 1) \in Int
    BY SMT
  <2> QED BY <1>3, <2>1, <2>2 DEF Place, Date
<1>7. date # NotADate
  <2>1. Len(<<y, mo, d>>) = 3 /\ Len(<<>>) = 0
    OBVIOUS
  <2> QED BY <1>6, <2>1 DEF NotADate
<1>8. Accepted(date)
  <2>1. date[2] = mo /\ date[3] = d
    BY <1>6
  <2>2. d \in 1 .. 31
    BY <1>2, <1>5, SMT
  <2> QED BY <2>1, <2>2 DEF Accepted
<1>9. civil_to_days(date[1], date[2], date[3]) = n
  BY <1>1, <1>3, SpotIsLeft
<1> QED BY <1>4, <1>7, <1>8, <1>9 DEF parse_ymd, next_day

(* The filters --after and --before keep the days from the one to the      *)
(* other, both whole, whichever days they are.                             *)
THEOREM FiltersKeepWholeDays ==
  \A from, to, n \in Int : BoundsAreWhole(from, to, n)
<1> SUFFICES ASSUME NEW from \in Int, NEW to \in Int, NEW n \in Int
             PROVE  BoundsAreWhole(from, to, n)
  OBVIOUS
<1> DEFINE bounds == date_bounds(civil_from_days(from), civil_from_days(to))
<1>1. bounds = [after |-> civil_from_days(from), before |-> civil_from_days(to + 1)]
  BY DatesAreAccepted DEF date_bounds
<1>2. bounds.after = civil_from_days(from) /\ bounds.before = civil_from_days(to + 1)
  <2> HIDE DEF bounds
  <2> QED BY <1>1
<1>3. to + 1 \in Int
  BY SMT
<1>4. Less(civil_from_days(n), civil_from_days(from)) <=> n < from
  BY DatesInOrder
<1>5. Less(civil_from_days(n), civil_from_days(to + 1)) <=> n < to + 1
  BY <1>3, DatesInOrder
<1>6. Within(civil_from_days(n), bounds) <=> ~(n < from) /\ n < to + 1
  <2> HIDE DEF bounds
  <2> QED BY <1>2, <1>4, <1>5 DEF Within
<1>7. ~(n < from) /\ n < to + 1 <=> n \in from .. to
  BY SMT
<1> QED BY <1>6, <1>7 DEF BoundsAreWhole

(* A time is the same whichever offset it was written with.                *)
THEOREM OffsetsAgree ==
  \A n, secs, hh, mm \in Int, sign \in {-1, 1} : OneInstant(n, secs, hh, mm, sign)
<1> SUFFICES ASSUME NEW n \in Int, NEW secs \in Int, NEW hh \in Int, NEW mm \in Int,
                    NEW sign \in {-1, 1}
             PROVE  OneInstant(n, secs, hh, mm, sign)
  OBVIOUS
<1> DEFINE there == secs + 60 * (sign * (60 * hh + mm))
<1>1. PICK off \in Int : off = parse_hhmm_offset(sign, hh, mm) /\ there = secs + off
  <2>1. CASE sign = 1
    BY <2>1, SMT DEF parse_hhmm_offset
  <2>2. CASE sign = -1
    BY <2>2, SMT DEF parse_hhmm_offset
  <2> QED BY <2>1, <2>2
<1> HIDE DEF there
<1>2. PICK q \in Int, r \in Int : q = there \div 86400 /\ r = there % 86400 /\ there = 86400 * q + r
  BY <1>1, SMT
<1>3. n + q \in Int
  BY SMT
<1>4. PICK date : date = civil_from_days(n + q)
  OBVIOUS
<1>5. PICK day : day = civil_from_days(n)
  OBVIOUS
<1>6. civil_to_days(date[1], date[2], date[3]) = n + q
  BY <1>3, <1>4, DaysAreDates DEF CalendarIsRight
<1>7. civil_to_days(day[1], day[2], day[3]) = n
  BY <1>5, DaysAreDates DEF CalendarIsRight
<1>8. parse_ts(date, r, off) = (n + q) * 86400 + r - off
  BY <1>6 DEF parse_ts
<1>9. parse_ts(day, secs, 0) = n * 86400 + secs - 0
  BY <1>7 DEF parse_ts
<1>10. (n + q) * 86400 + r - off = n * 86400 + secs - 0
  BY <1>1, <1>2, SMT
<1>11. parse_ts(civil_from_days(n + there \div 86400), there % 86400, parse_hhmm_offset(sign, hh, mm))
         = parse_ts(civil_from_days(n), secs, 0)
  BY <1>1, <1>2, <1>4, <1>5, <1>8, <1>9, <1>10
<1> QED BY <1>11 DEF OneInstant, there

(* The age shown with a hit is right to the unit, however old it is.       *)
THEOREM AgesAreHonest == \A days \in Nat : AgeIsHonest(days)
<1> SUFFICES ASSUME NEW days \in Nat PROVE AgeIsHonest(days)
  OBVIOUS
<1> DEFINE Bucket(k) == IF k < 7 THEN 1 ELSE IF k < 30 THEN 7 ELSE IF k < 365 THEN 30 ELSE 365
<1>1. ASSUME NEW k \in Nat
      PROVE  fmt_age(k * 86400) = [n |-> k \div Bucket(k), unit |-> Bucket(k)]
  <2>1. 0 <= k * 86400 /\ (k * 86400) \div 86400 = k
    BY SMT
  <2>2. PICK s : s = k * 86400
    OBVIOUS
  <2>3. (IF s < 0 THEN 0 ELSE s) \div 86400 = k
    BY <2>1, <2>2, SMT
  <2>4. /\ k = 0 \/ k \in 1 .. 6 \/ k \in 7 .. 29 \/ k \in 30 .. 364 \/ k >= 365
    BY SMT
  <2>5. CASE k = 0
    <3>1. Bucket(k) = 1 /\ k \div 1 = 0
      BY <2>5, SMT
    <3>2. fmt_age(k * 86400) = [n |-> 0, unit |-> 1]
      BY <2>2, <2>3, <2>5, SMT DEF fmt_age
    <3> HIDE DEF Bucket
    <3> QED BY <3>1, <3>2
  <2>6. CASE k \in 1 .. 6
    <3>1. Bucket(k) = 1
      BY <2>6, SMT
    <3>2. fmt_age(k * 86400) = [n |-> k \div 1, unit |-> 1]
      BY <2>2, <2>3, <2>6, SMT DEF fmt_age
    <3> HIDE DEF Bucket
    <3> QED BY <3>1, <3>2
  <2>7. CASE k \in 7 .. 29
    <3>1. Bucket(k) = 7
      BY <2>7, SMT
    <3>2. fmt_age(k * 86400) = [n |-> k \div 7, unit |-> 7]
      BY <2>2, <2>3, <2>7, SMT DEF fmt_age
    <3> HIDE DEF Bucket
    <3> QED BY <3>1, <3>2
  <2>8. CASE k \in 30 .. 364
    <3>1. Bucket(k) = 30
      BY <2>8, SMT
    <3>2. fmt_age(k * 86400) = [n |-> k \div 30, unit |-> 30]
      BY <2>2, <2>3, <2>8, SMT DEF fmt_age
    <3> HIDE DEF Bucket
    <3> QED BY <3>1, <3>2
  <2>9. CASE k >= 365
    <3>1. Bucket(k) = 365
      BY <2>9, SMT
    <3>2. fmt_age(k * 86400) = [n |-> k \div 365, unit |-> 365]
      BY <2>2, <2>3, <2>9, SMT DEF fmt_age
    <3> HIDE DEF Bucket
    <3> QED BY <3>1, <3>2
  <2> QED BY <2>4, <2>5, <2>6, <2>7, <2>8, <2>9
<1>2. fmt_age(days * 86400) = [n |-> days \div Bucket(days), unit |-> Bucket(days)]
  BY <1>1
<1>3. fmt_age((days - 1) * 86400) =
        IF days = 0 THEN [n |-> 0, unit |-> 1]
        ELSE [n |-> (days - 1) \div Bucket(days - 1), unit |-> Bucket(days - 1)]
  <2>1. CASE days = 0
    <3>1. (days - 1) * 86400 < 0 /\ 0 \div 86400 = 0
      BY <2>1, SMT
    <3> QED BY <2>1, <3>1 DEF fmt_age
  <2>2. CASE days # 0
    <3>1. days - 1 \in Nat
      BY <2>2, SMT
    <3> HIDE DEF Bucket
    <3> QED BY <1>1, <2>2, <3>1
  <2> QED BY <2>1, <2>2
<1>4. PICK q \in Int, p \in Int : q = days \div Bucket(days) /\ p = (days - 1) \div Bucket(days - 1)
  BY SMT
<1>5. /\ days > 0 => q > 0
      /\ q * Bucket(days) <= days /\ days < q * Bucket(days) + Bucket(days)
      /\ days # 0 => p * Bucket(days - 1) <= q * Bucket(days)
      /\ 0 <= q * Bucket(days)
  BY <1>4, SMTT(30)
<1> QED BY <1>2, <1>3, <1>4, <1>5, SMT DEF AgeIsHonest

-----------------------------------------------------------------------------
(* Numbers have a least one.                                               *)
LEMMA LeastExists ==
  ASSUME NEW U \in SUBSET Nat, U # {}
  PROVE  \E u \in U : \A y \in U : ~(y < u)
<1> DEFINE R == OpToRel(<, Nat)
<1>1. IsWellFoundedOn(R, Nat)
  BY NatLessThanWellFounded
<1> HIDE DEF R
<1>2. PICK u \in U : \A y \in U : ~(<<y, u>> \in R)
  BY <1>1, WFMin
<1>3. \A y \in U : ~(y < u)
  BY <1>2 DEF R, OpToRel
<1> QED BY <1>3

(* One step after another, n times.                                        *)
StepsOf(first, step, n, g) ==
  g = [k \in 0 .. n |-> IF k = 0 THEN first ELSE step[g[k - 1]]]

(* They can be taken, and stay among the states.                           *)
LEMMA StepsExist ==
  ASSUME NEW S, NEW first \in S, NEW step \in [S -> S], NEW n \in Nat
  PROVE  \E g : StepsOf(first, step, n, g) /\ \A k \in 0 .. n : g[k] \in S
<1> DEFINE Can(m) == \E g : StepsOf(first, step, m, g) /\ \A k \in 0 .. m : g[k] \in S
           None   == {m \in Nat : ~Can(m)}
<1> SUFFICES ASSUME None # {} PROVE FALSE
  BY Zenon
<1>1. PICK m \in None : \A y \in None : ~(y < m)
  <2>1. None \in SUBSET Nat
    BY Zenon
  <2> HIDE DEF None
  <2> QED BY <2>1, LeastExists
<1>2. m \in Nat /\ ~Can(m)
  BY <1>1, Zenon
<1>3. m # 0
  <2> SUFFICES ASSUME m = 0 PROVE FALSE
    BY Zenon
  <2> DEFINE g == [k \in 0 .. 0 |-> first]
  <2>1. \A k \in 0 .. 0 : k = 0
    BY SMT
  <2>2. g = [k \in 0 .. 0 |-> IF k = 0 THEN first ELSE step[g[k - 1]]]
    BY <2>1
  <2>3. \A k \in 0 .. 0 : g[k] \in S
    BY Zenon
  <2> QED BY <1>2, <2>2, <2>3, Zenon DEF StepsOf
<1>4. m - 1 \in Nat /\ m - 1 < m
  BY <1>2, <1>3, SMT
<1>5. PICK h : StepsOf(first, step, m - 1, h) /\ \A k \in 0 .. m - 1 : h[k] \in S
  BY <1>1, <1>4, Zenon
<1> DEFINE g == [k \in 0 .. m |-> IF k = m THEN step[h[m - 1]] ELSE h[k]]
<1>6. \A k \in 0 .. m : g[k] = IF k = 0 THEN first ELSE step[g[k - 1]]
  <2> TAKE k \in 0 .. m
  <2>1. CASE k = m
    <3>1. k - 1 \in 0 .. m /\ k - 1 # m /\ k # 0
      BY <1>2, <1>3, <2>1, SMT
    <3>2. g[k - 1] = h[m - 1] /\ g[k] = step[h[m - 1]]
      BY <2>1, <3>1
    <3> QED BY <3>1, <3>2
  <2>2. CASE k # m
    <3>1. k \in 0 .. m - 1
      BY <1>2, <2>2, SMT
    <3>2. h[k] = IF k = 0 THEN first ELSE step[h[k - 1]]
      BY <1>5, <3>1, Zenon DEF StepsOf
    <3>3. g[k] = h[k]
      BY <2>2
    <3>4. k # 0 => g[k - 1] = h[k - 1]
      <4> SUFFICES ASSUME k # 0 PROVE g[k - 1] = h[k - 1]
        OBVIOUS
      <4>1. k - 1 \in 0 .. m /\ k - 1 # m
        BY <1>2, <2>2, SMT
      <4> QED BY <4>1
    <3> QED BY <3>2, <3>3, <3>4
  <2> QED BY <2>1, <2>2
<1>7. g = [k \in 0 .. m |-> g[k]]
  OBVIOUS
<1>8. \A k \in 0 .. m : g[k] \in S
  <2> TAKE k \in 0 .. m
  <2>1. CASE k = m
    <3>1. m - 1 \in 0 .. m - 1
      BY <1>4, SMT
    <3>2. h[m - 1] \in S
      BY <1>5, <3>1, Zenon
    <3> QED BY <2>1, <3>2
  <2>2. CASE k # m
    <3>1. k \in 0 .. m - 1
      BY <1>2, <2>2, SMT
    <3> QED BY <1>5, <2>2, <3>1, Zenon
  <2> QED BY <2>1, <2>2
<1>9. StepsOf(first, step, m, g)
  <2> HIDE DEF g
  <2> QED BY <1>6, <1>7, Zenon DEF StepsOf
<1> QED BY <1>2, <1>8, <1>9, Zenon

-----------------------------------------------------------------------------
(* Where the walk may be after k steps: not skipped yet, all so far is the *)
(* same; skipped, the same but for the letter at p, after which the longer *)
(* is one ahead; given up, that is not so for the next letter either.      *)
Walking == [i : Nat, j : Nat, skipped : BOOLEAN, bad : BOOLEAN]

Skips(long, short, p, j) ==
  /\ p \in 1 .. Len(short) /\ long[p] # short[p]
  /\ \A x \in 1 .. p - 1 : long[x] = short[x]
  /\ \A x \in p .. j - 1 : long[x + 1] = short[x]

WalkOK(long, short, k, at) ==
  /\ at \in Walking
  /\ at.j \in 1 .. Len(short) + 1
  /\ at.skipped = FALSE => /\ at.bad = FALSE /\ at.i = at.j
                           /\ \A x \in 1 .. at.j - 1 : long[x] = short[x]
  /\ at.skipped = TRUE => /\ at.i = at.j + 1
                          /\ \E p \in 1 .. at.j : Skips(long, short, p, at.j)
  /\ at.bad = TRUE => /\ at.skipped = TRUE /\ at.j <= Len(short)
                      /\ long[at.j + 1] # short[at.j]
  /\ at.bad = TRUE \/ at.i > k \/ at.j > Len(short)

(* Records keep their fields.                                              *)
LEMMA WalkFields ==
  ASSUME NEW at \in Walking
  PROVE  \A to :
           /\ to = [at EXCEPT !.i = @ + 1, !.j = @ + 1] =>
                /\ to \in Walking /\ to.i = at.i + 1 /\ to.j = at.j + 1
                /\ to.skipped = at.skipped /\ to.bad = at.bad
           /\ to = [at EXCEPT !.bad = TRUE] =>
                /\ to \in Walking /\ to.i = at.i /\ to.j = at.j
                /\ to.skipped = at.skipped /\ to.bad = TRUE
           /\ to = [at EXCEPT !.skipped = TRUE, !.i = @ + 1] =>
                /\ to \in Walking /\ to.i = at.i + 1 /\ to.j = at.j
                /\ to.skipped = TRUE /\ to.bad = at.bad
<1>1. at.i \in Nat /\ at.j \in Nat /\ at.skipped \in BOOLEAN /\ at.bad \in BOOLEAN
  BY DEF Walking
<1>2. DOMAIN at = {"i", "j", "skipped", "bad"} /\ at = [x \in DOMAIN at |-> at[x]]
  BY DEF Walking
<1>3. at.i + 1 \in Nat /\ at.j + 1 \in Nat
  BY <1>1
<1>4. LET to == [at EXCEPT !.i = @ + 1, !.j = @ + 1]
      IN  to.i = at.i + 1 /\ to.j = at.j + 1 /\ to.skipped = at.skipped /\ to.bad = at.bad
  BY <1>2, Zenon
<1>5. LET to == [at EXCEPT !.bad = TRUE]
      IN  to.i = at.i /\ to.j = at.j /\ to.skipped = at.skipped /\ to.bad = TRUE
  BY <1>2, Zenon
<1>6. LET to == [at EXCEPT !.skipped = TRUE, !.i = @ + 1]
      IN  to.i = at.i + 1 /\ to.j = at.j /\ to.skipped = TRUE /\ to.bad = at.bad
  BY <1>2, Zenon
<1>7. /\ [at EXCEPT !.i = @ + 1, !.j = @ + 1] \in Walking
      /\ [at EXCEPT !.bad = TRUE] \in Walking
      /\ [at EXCEPT !.skipped = TRUE, !.i = @ + 1] \in Walking
  BY <1>3 DEF Walking
<1> QED BY <1>4, <1>5, <1>6, <1>7, Zenon

(* The walk begins right.                                                  *)
LEMMA WalkBegins ==
  ASSUME NEW long, NEW short, Len(short) \in Nat
  PROVE  WalkOK(long, short, 0, [i |-> 1, j |-> 1, skipped |-> FALSE, bad |-> FALSE])
<1> DEFINE at == [i |-> 1, j |-> 1, skipped |-> FALSE, bad |-> FALSE]
<1>1. at \in Walking
  BY DEF Walking
<1>2. at.i = 1 /\ at.j = 1 /\ at.skipped = FALSE /\ at.bad = FALSE
  OBVIOUS
<1> HIDE DEF at
<1>3. 1 \in 1 .. Len(short) + 1 /\ \A x \in 1 .. 1 - 1 : long[x] = short[x]
  BY SMT
<1>4. WalkOK(long, short, 0, at)
  BY <1>1, <1>2, <1>3 DEF WalkOK
<1> QED BY <1>4, Zenon DEF at

(* And goes on right.                                                      *)
LEMMA WalkGoesOn ==
  ASSUME NEW long, NEW short, Len(short) \in Nat, Len(long) = Len(short) + 1,
         NEW k \in Nat, NEW at, WalkOK(long, short, k, at)
  PROVE  /\ WalkOK(long, short, k + 1, WalkStep(long, short, at))
         /\ WalkStep(long, short, at) \in Walking
<1> DEFINE n  == Len(short)
           to == WalkStep(long, short, at)
<1>1. /\ at \in Walking /\ at.i \in Nat /\ at.j \in Nat /\ at.j \in 1 .. n + 1
      /\ at.skipped \in BOOLEAN /\ at.bad \in BOOLEAN
  BY DEF WalkOK, Walking
<1>2. SUFFICES WalkOK(long, short, k + 1, to)
  BY Zenon DEF WalkOK
<1>3. CASE at.bad \/ at.i > Len(long) \/ at.j > n
  <2>1. to = at
    BY <1>3, Zenon DEF WalkStep
  <2>2. at.bad = TRUE \/ at.i > k + 1 \/ at.j > n
    <3> SUFFICES ASSUME at.bad = FALSE, ~(at.j > n) PROVE FALSE
      BY <1>1, Zenon
    <3>1. at.i > n + 1
      BY <1>3, Zenon
    <3>2. at.skipped = FALSE => at.i = at.j
      BY Zenon DEF WalkOK
    <3>3. at.skipped = TRUE => at.i = at.j + 1
      BY Zenon DEF WalkOK
    <3> QED BY <1>1, <3>1, <3>2, <3>3, SMT
  <2> QED BY <2>1, <2>2, Zenon DEF WalkOK
<1>4. CASE ~(at.bad \/ at.i > Len(long) \/ at.j > n)
  <2>1. at.bad = FALSE /\ at.i <= n + 1 /\ at.j <= n /\ at.j \in 1 .. n /\ at.i > k
    <3>1. at.bad = FALSE /\ at.i <= n + 1 /\ at.j <= n /\ at.j \in 1 .. n
      BY <1>1, <1>4, SMT
    <3> QED BY <1>4, <3>1, Zenon DEF WalkOK
  <2>2. CASE long[at.i] = short[at.j]
    <3>1. to = [at EXCEPT !.i = @ + 1, !.j = @ + 1]
      BY <1>4, <2>2, Zenon DEF WalkStep
    <3>2. /\ to \in Walking /\ to.i = at.i + 1 /\ to.j = at.j + 1
          /\ to.skipped = at.skipped /\ to.bad = at.bad
      <4> HIDE DEF to
      <4> QED BY <1>1, <3>1, WalkFields
    <3> HIDE DEF to
    <3>3. to.j \in 1 .. n + 1 /\ to.i > k + 1
      BY <1>1, <2>1, <3>2, SMT
    <3>4. ASSUME at.skipped = FALSE
          PROVE  to.i = to.j /\ \A x \in 1 .. to.j - 1 : long[x] = short[x]
      <4>1. at.i = at.j /\ \A x \in 1 .. at.j - 1 : long[x] = short[x]
        BY <3>4, Zenon DEF WalkOK
      <4>2. \A x \in 1 .. to.j - 1 : x = at.j \/ x \in 1 .. at.j - 1
        BY <1>1, <3>2, SMT
      <4> QED BY <2>2, <3>2, <4>1, <4>2, Zenon
    <3>5. ASSUME at.skipped = TRUE
          PROVE  to.i = to.j + 1 /\ \E p \in 1 .. to.j : Skips(long, short, p, to.j)
      <4>1. at.i = at.j + 1
        BY <3>5, Zenon DEF WalkOK
      <4>2. PICK p \in 1 .. at.j : Skips(long, short, p, at.j)
        BY <3>5, Zenon DEF WalkOK
      <4>3. p \in 1 .. to.j
        BY <1>1, <3>2, SMT
      <4>4. \A x \in p .. to.j - 1 : x = at.j \/ x \in p .. at.j - 1
        BY <1>1, <3>2, SMT
      <4>5. long[at.j + 1] = short[at.j]
        BY <2>2, <4>1
      <4>6. Skips(long, short, p, to.j)
        BY <4>2, <4>4, <4>5, Zenon DEF Skips
      <4>7. to.i = to.j + 1
        BY <1>1, <3>2, <4>1
      <4> QED BY <4>3, <4>6, <4>7
    <3> QED BY <2>1, <3>2, <3>3, <3>4, <3>5, Zenon DEF WalkOK
  <2>3. CASE long[at.i] # short[at.j] /\ at.skipped
    <3>1. to = [at EXCEPT !.bad = TRUE]
      BY <1>4, <2>3, Zenon DEF WalkStep
    <3>2. /\ to \in Walking /\ to.i = at.i /\ to.j = at.j
          /\ to.skipped = at.skipped /\ to.bad = TRUE
      <4> HIDE DEF to
      <4> QED BY <1>1, <3>1, WalkFields
    <3> HIDE DEF to
    <3>3. at.skipped = TRUE
      BY <1>1, <2>3, Zenon
    <3>4. at.i = at.j + 1 /\ \E p \in 1 .. at.j : Skips(long, short, p, at.j)
      BY <3>3, Zenon DEF WalkOK
    <3>5. long[at.j + 1] # short[at.j]
      BY <2>3, <3>4
    <3>6. to.i = to.j + 1 /\ \E p \in 1 .. to.j : Skips(long, short, p, to.j)
      BY <3>2, <3>4
    <3>7. long[to.j + 1] # short[to.j] /\ to.j <= n /\ to.j \in 1 .. n + 1
      BY <1>1, <2>1, <3>2, <3>5
    <3>8. to.skipped = TRUE
      BY <3>2, <3>3
    <3> QED BY <3>2, <3>6, <3>7, <3>8, Zenon DEF WalkOK
  <2>4. CASE long[at.i] # short[at.j] /\ ~at.skipped
    <3>1. to = [at EXCEPT !.skipped = TRUE, !.i = @ + 1]
      BY <1>4, <2>4, Zenon DEF WalkStep
    <3>2. /\ to \in Walking /\ to.i = at.i + 1 /\ to.j = at.j
          /\ to.skipped = TRUE /\ to.bad = at.bad
      <4> HIDE DEF to
      <4> QED BY <1>1, <3>1, WalkFields
    <3> HIDE DEF to
    <3>3. at.i = at.j /\ \A x \in 1 .. at.j - 1 : long[x] = short[x]
      BY <1>1, <2>4, Zenon DEF WalkOK
    <3>4. at.j \in 1 .. at.j /\ \A x \in at.j .. at.j - 1 : long[x + 1] = short[x]
      BY <1>1, <2>1, SMT
    <3>5. Skips(long, short, at.j, at.j)
      BY <2>1, <2>4, <3>3, <3>4, Zenon DEF Skips
    <3>6. to.i > k + 1
      BY <1>1, <2>1, <3>2, SMT
    <3> QED BY <1>1, <2>1, <3>2, <3>3, <3>4, <3>5, <3>6, Zenon DEF WalkOK
  <2> QED BY <2>2, <2>3, <2>4
<1> QED BY <1>3, <1>4

(* Without the letter at p the longer word is the shorter one.             *)
Removed(long, short, p) ==
  /\ p \in 1 .. Len(short) + 1
  /\ \A x \in 1 .. p - 1 : long[x] = short[x]
  /\ \A x \in p .. Len(short) : long[x + 1] = short[x]

(* A walk that is over tells whether there is such a letter.               *)
LEMMA WalkTells ==
  ASSUME NEW long, NEW short, NEW n \in Nat, Len(short) = n, Len(long) = n + 1,
         NEW at, WalkOK(long, short, n + 1, at)
  PROVE  ~at.bad <=> \E p : Removed(long, short, p)
<1>1. /\ at.i \in Nat /\ at.j \in Nat /\ at.j \in 1 .. n + 1
      /\ at.skipped \in BOOLEAN /\ at.bad \in BOOLEAN
  BY DEF WalkOK, Walking
<1>2. CASE at.bad = TRUE
  <2>1. at.skipped = TRUE /\ at.j <= n /\ long[at.j + 1] # short[at.j]
    BY <1>2, Zenon DEF WalkOK
  <2>2. PICK p \in 1 .. at.j : Skips(long, short, p, at.j)
    BY <2>1, Zenon DEF WalkOK
  <2>3. ASSUME NEW q, Removed(long, short, q) PROVE FALSE
    <3>1. q \in 1 .. n + 1
      BY <2>3, Zenon DEF Removed
    <3>2. CASE q <= p
      <4>1. at.j \in q .. n
        BY <1>1, <2>1, <3>1, <3>2, SMT
      <4> QED BY <2>1, <2>3, <4>1, Zenon DEF Removed
    <3>3. CASE ~(q <= p)
      <4>1. p \in 1 .. q - 1
        BY <3>1, <3>3, SMT
      <4> QED BY <2>2, <2>3, <4>1, Zenon DEF Removed, Skips
    <3> QED BY <3>2, <3>3
  <2> QED BY <1>2, <2>3, Zenon
<1>3. CASE at.bad = FALSE
  <2>1. at.i > n + 1 \/ at.j > n
    BY <1>3, Zenon DEF WalkOK
  <2>2. CASE at.skipped = FALSE
    <3>1. at.i = at.j /\ \A x \in 1 .. at.j - 1 : long[x] = short[x]
      BY <2>2, Zenon DEF WalkOK
    <3>2. at.j = n + 1
      BY <1>1, <2>1, <3>1, SMT
    <3>3. at.j \in 1 .. n + 1 /\ \A x \in at.j .. n : long[x + 1] = short[x]
      BY <3>2, SMT
    <3>4. Removed(long, short, at.j)
      BY <3>1, <3>3, Zenon DEF Removed
    <3> QED BY <1>3, <3>4, Zenon
  <2>3. CASE at.skipped = TRUE
    <3>1. at.i = at.j + 1
      BY <2>3, Zenon DEF WalkOK
    <3>2. PICK p \in 1 .. at.j : Skips(long, short, p, at.j)
      BY <2>3, Zenon DEF WalkOK
    <3>3. at.j - 1 = n /\ p \in 1 .. n + 1
      BY <1>1, <2>1, <3>1, SMT
    <3>4. Removed(long, short, p)
      BY <3>2, <3>3, Zenon DEF Removed, Skips
    <3> QED BY <1>3, <3>4, Zenon
  <2> QED BY <1>1, <2>2, <2>3, Zenon
<1> QED BY <1>1, <1>2, <1>3, Zenon

(* So does OneShorter.                                                     *)
LEMMA OneShorterIs ==
  ASSUME NEW long, NEW short, NEW n \in Nat, Len(short) = n, Len(long) = n + 1
  PROVE  OneShorter(long, short) <=> \E p : Removed(long, short, p)
<1> DEFINE first == [i |-> 1, j |-> 1, skipped |-> FALSE, bad |-> FALSE]
           step  == [at \in Walking |-> WalkStep(long, short, at)]
           T(f)  == f = [k \in 0 .. Len(long) |->
                           IF k = 0 THEN first ELSE WalkStep(long, short, f[k - 1])]
           h     == CHOOSE f : T(f)
<1>1. OneShorter(long, short) = ~h[Len(long)].bad
  BY Zenon DEF OneShorter
<1>2. first \in Walking
  BY DEF Walking
<1>3. step \in [Walking -> Walking]
  <2>1. ASSUME NEW at \in Walking PROVE WalkStep(long, short, at) \in Walking
    <3> DEFINE to == WalkStep(long, short, at)
    <3>1. \/ to = at
          \/ to = [at EXCEPT !.i = @ + 1, !.j = @ + 1]
          \/ to = [at EXCEPT !.bad = TRUE]
          \/ to = [at EXCEPT !.skipped = TRUE, !.i = @ + 1]
      BY Zenon DEF WalkStep
    <3> HIDE DEF to
    <3>2. to \in Walking
      BY <3>1, WalkFields
    <3> QED BY <3>2 DEF to
  <2> QED BY <2>1, Zenon
<1>4. \A at \in Walking : step[at] = WalkStep(long, short, at)
  BY Zenon
<1> HIDE DEF step, first
<1>5. \E g : StepsOf(first, step, n + 1, g) /\ \A k \in 0 .. n + 1 : g[k] \in Walking
  <2>1. n + 1 \in Nat
    OBVIOUS
  <2> QED BY <1>2, <1>3, <2>1, StepsExist
<1>6. PICK g : StepsOf(first, step, n + 1, g) /\ \A k \in 0 .. n + 1 : g[k] \in Walking
  BY <1>5
<1>7. T(g)
  <2>1. \A k \in 0 .. n + 1 : k # 0 => k - 1 \in 0 .. n + 1
    BY SMT
  <2>2. \A k \in 0 .. n + 1 : k # 0 => step[g[k - 1]] = WalkStep(long, short, g[k - 1])
    BY <1>4, <1>6, <2>1, Zenon
  <2>3. g = [k \in 0 .. n + 1 |-> IF k = 0 THEN first ELSE step[g[k - 1]]]
    BY <1>6, Zenon DEF StepsOf
  <2>4. [k \in 0 .. n + 1 |-> IF k = 0 THEN first ELSE step[g[k - 1]]]
          = [k \in 0 .. n + 1 |-> IF k = 0 THEN first ELSE WalkStep(long, short, g[k - 1])]
    BY <2>2
  <2> QED BY <2>3, <2>4, Zenon
<1>8. T(h)
  <2> HIDE DEF T
  <2> QED BY <1>7
<1> HIDE DEF h
<1>9. \A k \in 0 .. n + 1 : h[k] = IF k = 0 THEN first ELSE WalkStep(long, short, h[k - 1])
  BY <1>8, Zenon
<1>10. \A k \in 0 .. n + 1 : WalkOK(long, short, k, h[k])
  <2> DEFINE Wrong == {k \in 0 .. n + 1 : ~WalkOK(long, short, k, h[k])}
  <2> SUFFICES ASSUME Wrong # {} PROVE FALSE
    BY Zenon
  <2>1. Wrong \in SUBSET Nat
    BY SMT
  <2>2. PICK k \in Wrong : \A y \in Wrong : ~(y < k)
    <3> HIDE DEF Wrong
    <3> QED BY <2>1, LeastExists
  <2>3. k \in 0 .. n + 1 /\ ~WalkOK(long, short, k, h[k])
    BY <2>2, Zenon
  <2>4. CASE k = 0
    <3>1. h[k] = first
      BY <1>9, <2>3, <2>4, Zenon
    <3>2. WalkOK(long, short, 0, first)
      BY WalkBegins, Zenon DEF first
    <3> QED BY <2>3, <2>4, <3>1, <3>2, Zenon
  <2>5. CASE k # 0
    <3>1. k - 1 \in 0 .. n + 1 /\ k - 1 < k /\ k - 1 \in Nat /\ k = (k - 1) + 1
      BY <2>3, <2>5, SMT
    <3>2. WalkOK(long, short, k - 1, h[k - 1])
      BY <2>2, <3>1, Zenon
    <3>3. WalkOK(long, short, (k - 1) + 1, WalkStep(long, short, h[k - 1]))
      BY <3>1, <3>2, WalkGoesOn
    <3>4. h[k] = WalkStep(long, short, h[k - 1])
      BY <1>9, <2>3, <2>5, Zenon
    <3> QED BY <2>3, <3>1, <3>3, <3>4, Zenon
  <2> QED BY <2>4, <2>5
<1>11. n + 1 \in 0 .. n + 1
  BY SMT
<1>12. WalkOK(long, short, n + 1, h[n + 1])
  BY <1>10, <1>11, Zenon
<1>13. ~h[n + 1].bad <=> \E p : Removed(long, short, p)
  BY <1>12, WalkTells
<1> QED BY <1>1, <1>13, Zenon

-----------------------------------------------------------------------------
(* A word without one of its letters.                                      *)
LEMMA RemoveIs ==
  ASSUME NEW L, NEW a \in Seq(L), NEW p \in 1 .. Len(a)
  PROVE  /\ RemoveAt(a, p) \in Seq(L) /\ Len(RemoveAt(a, p)) = Len(a) - 1
         /\ \A x \in 1 .. Len(a) - 1 : RemoveAt(a, p)[x] = IF x < p THEN a[x] ELSE a[x + 1]
<1>1. PICK n \in Nat : n = Len(a)
  OBVIOUS
<1>2. \A x \in 1 .. n : a[x] \in L
  BY <1>1, ElementOfSeq
<1> DEFINE s == SubSeq(a, 1, p - 1)
           t == SubSeq(a, p + 1, n)
<1>3. /\ s \in Seq(L) /\ Len(s) = p - 1
      /\ \A x \in 1 .. p - 1 : s[x] = a[x]
  <2>1. 1 \in Int /\ p - 1 \in Int /\ \A x \in 1 .. p - 1 : a[x] \in L
    BY <1>1, <1>2, SMT
  <2>2. /\ s \in Seq(L) /\ Len(s) = IF 1 <= p - 1 THEN p - 1 - 1 + 1 ELSE 0
        /\ \A x \in 1 .. p - 1 - 1 + 1 : s[x] = a[1 + x - 1]
    BY <2>1, SubSeqProperties
  <2>3. (IF 1 <= p - 1 THEN p - 1 - 1 + 1 ELSE 0) = p - 1 /\ p - 1 - 1 + 1 = p - 1
    BY <1>1, SMT
  <2>4. \A x \in 1 .. p - 1 : 1 + x - 1 = x
    BY SMT
  <2> HIDE DEF s
  <2> QED BY <2>2, <2>3, <2>4
<1>4. /\ t \in Seq(L) /\ Len(t) = n - p
      /\ \A x \in 1 .. n - p : t[x] = a[p + x]
  <2>1. p + 1 \in Int /\ n \in Int /\ \A x \in p + 1 .. n : a[x] \in L
    BY <1>1, <1>2, SMT
  <2>2. /\ t \in Seq(L) /\ Len(t) = IF p + 1 <= n THEN n - (p + 1) + 1 ELSE 0
        /\ \A x \in 1 .. n - (p + 1) + 1 : t[x] = a[p + 1 + x - 1]
    BY <2>1, SubSeqProperties
  <2>3. /\ (IF p + 1 <= n THEN n - (p + 1) + 1 ELSE 0) = n - p
        /\ n - (p + 1) + 1 = n - p
    BY <1>1, SMT
  <2>4. \A x \in 1 .. n - p : p + 1 + x - 1 = p + x
    BY <1>1, SMT
  <2> HIDE DEF t
  <2> QED BY <2>2, <2>3, <2>4
<1>5. RemoveAt(a, p) = s \o t
  BY <1>1 DEF RemoveAt
<1> HIDE DEF s, t
<1>6. /\ s \o t \in Seq(L) /\ Len(s \o t) = (p - 1) + (n - p)
      /\ \A x \in 1 .. (p - 1) + (n - p) :
           (s \o t)[x] = IF x <= p - 1 THEN s[x] ELSE t[x - (p - 1)]
  <2>1. /\ s \o t \in Seq(L) /\ Len(s \o t) = Len(s) + Len(t)
        /\ \A x \in 1 .. Len(s) + Len(t) :
             (s \o t)[x] = IF x <= Len(s) THEN s[x] ELSE t[x - Len(s)]
    BY <1>3, <1>4, ConcatProperties
  <2>2. Len(s) = p - 1 /\ Len(t) = n - p
    BY <1>3, <1>4
  <2> QED BY <2>1, <2>2, Zenon
<1>7. (p - 1) + (n - p) = n - 1
  BY <1>1, SMT
<1>8. \A x \in 1 .. n - 1 : (s \o t)[x] = IF x < p THEN a[x] ELSE a[x + 1]
  <2> TAKE x \in 1 .. n - 1
  <2>1. (s \o t)[x] = IF x <= p - 1 THEN s[x] ELSE t[x - (p - 1)]
    BY <1>6, <1>7, Zenon
  <2>2. CASE x < p
    <3>1. x <= p - 1 /\ x \in 1 .. p - 1
      BY <1>1, <2>2, SMT
    <3> QED BY <1>3, <2>1, <2>2, <3>1, Zenon
  <2>3. CASE ~(x < p)
    <3>1. ~(x <= p - 1) /\ x - (p - 1) \in 1 .. n - p /\ p + (x - (p - 1)) = x + 1
      BY <1>1, <2>3, SMT
    <3>2. t[x - (p - 1)] = a[p + (x - (p - 1))]
      BY <1>4, <3>1, Zenon
    <3> QED BY <2>1, <2>3, <3>1, <3>2, Zenon
  <2> QED BY <2>2, <2>3
<1> QED BY <1>1, <1>5, <1>6, <1>7, <1>8

(* A word is the letters at its places.                                    *)
LEMMA SeqIs ==
  ASSUME NEW L, NEW b \in Seq(L), NEW n \in Nat, Len(b) = n
  PROVE  DOMAIN b = 1 .. n /\ b = [x \in 1 .. n |-> b[x]]
<1>1. DOMAIN b = 1 .. n
  BY LenProperties
<1>2. b = [x \in DOMAIN b |-> b[x]]
  OBVIOUS
<1> QED BY <1>1, <1>2, Zenon

(* A word with one letter more.                                            *)
InsertedIn(a, n, p, c) ==
  [x \in 1 .. n + 1 |-> IF x < p THEN a[x] ELSE IF x = p THEN c ELSE a[x - 1]]

(* What the library's insertion makes of a word.                           *)
LEMMA InsertIs ==
  ASSUME NEW L, NEW a \in Seq(L), NEW n \in Nat, n = Len(a), NEW p \in 1 .. n + 1, NEW c \in L
  PROVE  InsertAt(a, p, c) = InsertedIn(a, n, p, c)
<1>1. n \in Nat /\ n = Len(a)
  OBVIOUS
<1>2. \A x \in 1 .. n : a[x] \in L
  BY <1>1, ElementOfSeq
<1> DEFINE s == SubSeq(a, 1, p - 1)
           t == SubSeq(a, p, n)
           u == s \o <<c>>
<1>3. /\ s \in Seq(L) /\ Len(s) = p - 1
      /\ \A x \in 1 .. p - 1 : s[x] = a[x]
  <2>1. 1 \in Int /\ p - 1 \in Int /\ \A x \in 1 .. p - 1 : a[x] \in L
    BY <1>1, <1>2, SMT
  <2>2. /\ s \in Seq(L) /\ Len(s) = IF 1 <= p - 1 THEN p - 1 - 1 + 1 ELSE 0
        /\ \A x \in 1 .. p - 1 - 1 + 1 : s[x] = a[1 + x - 1]
    BY <2>1, SubSeqProperties
  <2>3. (IF 1 <= p - 1 THEN p - 1 - 1 + 1 ELSE 0) = p - 1 /\ p - 1 - 1 + 1 = p - 1
    BY <1>1, SMT
  <2>4. \A x \in 1 .. p - 1 : 1 + x - 1 = x
    BY SMT
  <2> HIDE DEF s
  <2> QED BY <2>2, <2>3, <2>4
<1>4. /\ t \in Seq(L) /\ Len(t) = n - p + 1
      /\ \A x \in 1 .. n - p + 1 : t[x] = a[p + x - 1]
  <2>1. p \in Int /\ n \in Int /\ \A x \in p .. n : a[x] \in L
    BY <1>1, <1>2, SMT
  <2>2. /\ t \in Seq(L) /\ Len(t) = IF p <= n THEN n - p + 1 ELSE 0
        /\ \A x \in 1 .. n - p + 1 : t[x] = a[p + x - 1]
    BY <2>1, SubSeqProperties
  <2>3. (IF p <= n THEN n - p + 1 ELSE 0) = n - p + 1
    BY <1>1, SMT
  <2> HIDE DEF t
  <2> QED BY <2>2, <2>3
<1>5. InsertAt(a, p, c) = u \o t
  BY <1>1 DEF InsertAt
<1>6. <<c>> \in Seq(L) /\ Len(<<c>>) = 1 /\ <<c>>[1] = c
  OBVIOUS
<1> HIDE DEF s, t
<1>7. /\ u \in Seq(L) /\ Len(u) = (p - 1) + 1
      /\ \A x \in 1 .. (p - 1) + 1 : u[x] = IF x <= p - 1 THEN s[x] ELSE <<c>>[x - (p - 1)]
  BY <1>3, <1>6, ConcatProperties
<1>8. Len(u) = p /\ \A x \in 1 .. p : u[x] = IF x < p THEN a[x] ELSE c
  <2>1. (p - 1) + 1 = p
    BY <1>1, SMT
  <2>2. ASSUME NEW x \in 1 .. p PROVE u[x] = IF x < p THEN a[x] ELSE c
    <3>1. u[x] = IF x <= p - 1 THEN s[x] ELSE <<c>>[x - (p - 1)]
      BY <1>7, <2>1, Zenon
    <3>2. CASE x < p
      <4>1. x <= p - 1 /\ x \in 1 .. p - 1
        BY <1>1, <3>2, SMT
      <4> QED BY <1>3, <3>1, <3>2, <4>1, Zenon
    <3>3. CASE ~(x < p)
      <4>1. ~(x <= p - 1) /\ x - (p - 1) = 1
        BY <1>1, <3>3, SMT
      <4> QED BY <1>6, <3>1, <3>3, <4>1, Zenon
    <3> QED BY <3>2, <3>3
  <2> QED BY <1>7, <2>1, <2>2
<1> HIDE DEF u
<1>9. /\ u \o t \in Seq(L) /\ Len(u \o t) = p + (n - p + 1)
      /\ \A x \in 1 .. p + (n - p + 1) :
           (u \o t)[x] = IF x <= p THEN u[x] ELSE t[x - p]
  <2>1. /\ u \o t \in Seq(L) /\ Len(u \o t) = Len(u) + Len(t)
        /\ \A x \in 1 .. Len(u) + Len(t) :
             (u \o t)[x] = IF x <= Len(u) THEN u[x] ELSE t[x - Len(u)]
    BY <1>4, <1>7, ConcatProperties
  <2>2. Len(u) = p /\ Len(t) = n - p + 1
    BY <1>4, <1>8
  <2> QED BY <2>1, <2>2, Zenon
<1>10. p + (n - p + 1) = n + 1
  BY <1>1, SMT
<1>11. \A x \in 1 .. n + 1 :
         (u \o t)[x] = IF x < p THEN a[x] ELSE IF x = p THEN c ELSE a[x - 1]
  <2> TAKE x \in 1 .. n + 1
  <2>1. (u \o t)[x] = IF x <= p THEN u[x] ELSE t[x - p]
    BY <1>9, <1>10, Zenon
  <2>2. CASE x <= p
    <3>1. x \in 1 .. p /\ (x < p \/ x = p)
      BY <1>1, <2>2, SMT
    <3>2. u[x] = IF x < p THEN a[x] ELSE c
      BY <1>8, <3>1, Zenon
    <3> QED BY <2>1, <2>2, <3>1, <3>2, Zenon
  <2>3. CASE ~(x <= p)
    <3>1. ~(x < p) /\ x # p /\ x - p \in 1 .. n - p + 1 /\ p + (x - p) - 1 = x - 1
      BY <1>1, <2>3, SMT
    <3>2. t[x - p] = a[p + (x - p) - 1]
      BY <1>4, <3>1, Zenon
    <3> QED BY <2>1, <2>3, <3>1, <3>2, Zenon
  <2> QED BY <2>2, <2>3
<1>12. n + 1 \in Nat /\ u \o t \in Seq(L) /\ Len(u \o t) = n + 1
  BY <1>9, <1>10
<1>13. u \o t = [x \in 1 .. n + 1 |-> (u \o t)[x]]
  BY <1>12, SeqIs
<1>14. u \o t = InsertedIn(a, n, p, c)
  BY <1>11, <1>13, Zenon DEF InsertedIn
<1> QED BY <1>5, <1>14

-----------------------------------------------------------------------------
(* Words of one length with the same letters are one.                      *)
LEMMA SameWord ==
  ASSUME NEW L, NEW a \in Seq(L), NEW b \in Seq(L), NEW n \in Nat, Len(a) = n, Len(b) = n,
         \A x \in 1 .. n : a[x] = b[x]
  PROVE  a = b
  BY SeqEqual

(* What one removal makes of a word.                                       *)
LEMMA RemovalIs ==
  ASSUME NEW L, NEW a \in Seq(L), NEW b \in Seq(L), NEW n \in Nat, Len(a) = n + 1, Len(b) = n
  PROVE  (\E p : Removed(a, b, p)) <=> \E p \in DOMAIN a : b = RemoveAt(a, p)
<1>1. DOMAIN a = 1 .. n + 1
  BY LenProperties
<1>2. ASSUME NEW p, Removed(a, b, p)
      PROVE  p \in DOMAIN a /\ b = RemoveAt(a, p)
  <2> DEFINE r == RemoveAt(a, p)
  <2>1. p \in 1 .. n + 1
    BY <1>2, Zenon DEF Removed
  <2>2. p \in 1 .. Len(a) /\ Len(a) - 1 = n
    BY <2>1, SMT
  <2>3. /\ r \in Seq(L) /\ Len(r) = n
        /\ \A x \in 1 .. n : r[x] = IF x < p THEN a[x] ELSE a[x + 1]
    <3>1. /\ r \in Seq(L) /\ Len(r) = Len(a) - 1
          /\ \A x \in 1 .. Len(a) - 1 : r[x] = IF x < p THEN a[x] ELSE a[x + 1]
      BY <2>2, RemoveIs
    <3> HIDE DEF r
    <3> QED BY <2>2, <3>1, Zenon
  <2> HIDE DEF r
  <2>4. \A x \in 1 .. n : b[x] = r[x]
    <3> TAKE x \in 1 .. n
    <3>1. CASE x < p
      <4>1. x \in 1 .. p - 1
        BY <2>1, <3>1, SMT
      <4>2. a[x] = b[x]
        BY <1>2, <4>1, Zenon DEF Removed
      <4>3. r[x] = a[x]
        BY <2>3, <3>1, Zenon
      <4> QED BY <4>2, <4>3
    <3>2. CASE ~(x < p)
      <4>1. x \in p .. n
        BY <2>1, <3>2, SMT
      <4>2. a[x + 1] = b[x]
        BY <1>2, <4>1, Zenon DEF Removed
      <4>3. r[x] = a[x + 1]
        BY <2>3, <3>2, Zenon
      <4> QED BY <4>2, <4>3
    <3> QED BY <3>1, <3>2
  <2>5. b = r
    BY <2>3, <2>4, SameWord
  <2> QED BY <1>1, <2>1, <2>5 DEF r
<1>3. ASSUME NEW p \in DOMAIN a, b = RemoveAt(a, p)
      PROVE  Removed(a, b, p)
  <2>1. p \in 1 .. n + 1 /\ p \in 1 .. Len(a) /\ Len(a) - 1 = n
    BY <1>1, <1>3, SMT
  <2>2. \A x \in 1 .. n : b[x] = IF x < p THEN a[x] ELSE a[x + 1]
    <3>1. \A x \in 1 .. Len(a) - 1 : RemoveAt(a, p)[x] = IF x < p THEN a[x] ELSE a[x + 1]
      BY <2>1, RemoveIs
    <3> QED BY <1>3, <2>1, <3>1, Zenon
  <2>3. \A x \in 1 .. p - 1 : x \in 1 .. n /\ x < p
    BY <2>1, SMT
  <2>4. \A x \in p .. n : x \in 1 .. n /\ ~(x < p)
    BY <2>1, SMT
  <2>5. \A x \in 1 .. p - 1 : a[x] = b[x]
    BY <2>2, <2>3, Zenon
  <2>6. \A x \in p .. n : a[x + 1] = b[x]
    BY <2>2, <2>4, Zenon
  <2> QED BY <2>1, <2>5, <2>6, Zenon DEF Removed
<1> QED BY <1>2, <1>3, Zenon

(* The length of a word is how far its places go.                          *)
LEMMA LenIs ==
  ASSUME NEW L, NEW b \in Seq(L), NEW n \in Nat, DOMAIN b = 1 .. n
  PROVE  Len(b) = n
  BY LenProperties

(* What one insertion makes of a word.                                     *)
LEMMA InsertionIs ==
  ASSUME NEW L, NEW a \in Seq(L), NEW b \in Seq(L), NEW n \in Nat, n = Len(a), Len(b) = n + 1
  PROVE  (\E p : Removed(b, a, p)) <=> \E p \in 1 .. n + 1, c \in L : b = InsertAt(a, p, c)
<1>1. n + 1 \in Nat /\ DOMAIN b = 1 .. n + 1 /\ b = [x \in 1 .. n + 1 |-> b[x]]
  BY SeqIs
<1>2. ASSUME NEW p, Removed(b, a, p)
      PROVE  \E c \in L : p \in 1 .. n + 1 /\ b = InsertAt(a, p, c)
  <2>1. p \in 1 .. n + 1
    BY <1>2, Zenon DEF Removed
  <2>2. PICK c \in L : c = b[p]
    <3>1. p \in 1 .. Len(b)
      BY <2>1
    <3> QED BY <3>1, ElementOfSeq
  <2>3. \A x \in 1 .. n + 1 :
          b[x] = IF x < p THEN a[x] ELSE IF x = p THEN c ELSE a[x - 1]
    <3> TAKE x \in 1 .. n + 1
    <3>1. CASE x < p
      <4>1. x \in 1 .. p - 1
        BY <2>1, <3>1, SMT
      <4>2. b[x] = a[x]
        BY <1>2, <4>1, Zenon DEF Removed
      <4> QED BY <3>1, <4>2, Zenon
    <3>2. CASE x = p
      <4>1. ~(x < p)
        BY <2>1, <3>2, SMT
      <4> QED BY <2>2, <3>2, <4>1, Zenon
    <3>3. CASE ~(x < p) /\ x # p
      <4>1. x - 1 \in p .. n /\ x = (x - 1) + 1
        BY <2>1, <3>3, SMT
      <4>2. b[(x - 1) + 1] = a[x - 1]
        BY <1>2, <4>1, Zenon DEF Removed
      <4> QED BY <3>3, <4>1, <4>2, Zenon
    <3> QED BY <3>1, <3>2, <3>3
  <2>4. b = InsertedIn(a, n, p, c)
    BY <1>1, <2>3, Zenon DEF InsertedIn
  <2> QED BY <2>1, <2>4, InsertIs, Zenon
<1>3. ASSUME NEW p \in 1 .. n + 1, NEW c \in L, b = InsertAt(a, p, c)
      PROVE  Removed(b, a, p)
  <2>0. b = InsertedIn(a, n, p, c)
    BY <1>3, InsertIs, Zenon
  <2>1. \A x \in 1 .. n + 1 :
          b[x] = IF x < p THEN a[x] ELSE IF x = p THEN c ELSE a[x - 1]
    BY <2>0, Zenon DEF InsertedIn
  <2>2. \A x \in 1 .. p - 1 : x \in 1 .. n + 1 /\ x < p
    BY SMT
  <2>3. \A x \in p .. n : /\ x + 1 \in 1 .. n + 1 /\ ~(x + 1 < p) /\ x + 1 # p
                          /\ (x + 1) - 1 = x
    BY SMT
  <2>4. \A x \in 1 .. p - 1 : b[x] = a[x]
    BY <2>1, <2>2, Zenon
  <2>5. \A x \in p .. n : b[x + 1] = a[x]
    <3> TAKE x \in p .. n
    <3>1. b[x + 1] = a[(x + 1) - 1]
      BY <2>1, <2>3, Zenon
    <3> QED BY <2>3, <3>1, Zenon
  <2> QED BY <2>4, <2>5, Zenon DEF Removed
<1> QED BY <1>2, <1>3, Zenon

-----------------------------------------------------------------------------
(* Two letters next to one another in the other order.                     *)
Swapped(a, i) == [a EXCEPT ![i] = a[i + 1], ![i + 1] = a[i]]

(* The same two ways of changing a word, letter by letter.                 *)
ReplacedIn(a, n, i, c) == [x \in 1 .. n |-> IF x = i THEN c ELSE a[x]]
SwappedIn(a, n, i) ==
  [x \in 1 .. n |-> IF x = i THEN a[i + 1] ELSE IF x = i + 1 THEN a[i] ELSE a[x]]

(* What one substitution makes of a word.                                  *)
LEMMA ReplaceIs ==
  ASSUME NEW L, NEW a \in Seq(L), NEW n \in Nat, Len(a) = n, NEW i \in 1 .. n, NEW c
  PROVE  ReplaceAt(a, i, c) = ReplacedIn(a, n, i, c)
<1>1. DOMAIN a = 1 .. n
  BY SeqIs
<1>2. [a EXCEPT ![i] = c] = [x \in DOMAIN a |-> IF x = i THEN c ELSE a[x]]
  OBVIOUS
<1> QED BY <1>1, <1>2, Zenon DEF ReplaceAt, ReplacedIn

(* What one swap makes of a word.                                          *)
LEMMA SwapIs ==
  ASSUME NEW L, NEW a \in Seq(L), NEW n \in Nat, Len(a) = n, NEW i \in 1 .. n - 1
  PROVE  Swapped(a, i) = SwappedIn(a, n, i)
<1>1. DOMAIN a = 1 .. n
  BY SeqIs
<1>2. i \in 1 .. n /\ i + 1 \in 1 .. n /\ i # i + 1
  BY SMT
<1> DEFINE s == [a EXCEPT ![i] = a[i + 1]]
           t == [s EXCEPT ![i + 1] = a[i]]
<1>3. s = [x \in 1 .. n |-> IF x = i THEN a[i + 1] ELSE a[x]]
  BY <1>1
<1>4. Swapped(a, i) = t
  BY Zenon DEF Swapped
<1> HIDE DEF s
<1>5. t = [x \in 1 .. n |-> IF x = i + 1 THEN a[i] ELSE s[x]]
  BY <1>3
<1> HIDE DEF t
<1>6. ASSUME NEW x \in 1 .. n
      PROVE  t[x] = IF x = i THEN a[i + 1] ELSE IF x = i + 1 THEN a[i] ELSE a[x]
  <2>1. t[x] = IF x = i + 1 THEN a[i] ELSE s[x]
    BY <1>5
  <2>2. s[x] = IF x = i THEN a[i + 1] ELSE a[x]
    BY <1>3
  <2>3. CASE x = i
    <3>1. x # i + 1
      BY <1>2, <2>3, Zenon
    <3> QED BY <2>1, <2>2, <2>3, <3>1, Zenon
  <2>4. CASE x # i
    <3>1. CASE x = i + 1
      <4>1. t[x] = a[i]
        BY <2>1, <3>1, Zenon
      <4> QED BY <2>4, <3>1, <4>1, Zenon
    <3>2. CASE x # i + 1
      BY <2>1, <2>2, <2>4, <3>2, Zenon
    <3> QED BY <3>1, <3>2
  <2> QED BY <2>3, <2>4
<1>7. t = [x \in 1 .. n |-> t[x]]
  BY <1>5
<1>8. t = SwappedIn(a, n, i)
  BY <1>6, <1>7, Zenon DEF SwappedIn
<1> QED BY <1>4, <1>8, Zenon

(* Where two words of one length differ, one substitution or one swap.     *)
LEMMA SameLengthIs ==
  ASSUME NEW L, NEW a \in Seq(L), NEW b \in Seq(L), NEW n \in Nat, Len(a) = n, Len(b) = n,
         a # b
  PROVE  SameLength(a, b) <=> \/ \E i \in 1 .. n, c \in L : b = ReplaceAt(a, i, c)
                              \/ \E i \in 1 .. n - 1 : b = Swapped(a, i)
<1> DEFINE diffs == {i \in DOMAIN a : a[i] # b[i]}
<1>1. /\ DOMAIN a = 1 .. n /\ b = [x \in 1 .. n |-> b[x]]
      /\ a = [x \in 1 .. n |-> a[x]]
  BY SeqIs
<1>2. diffs = {i \in 1 .. n : a[i] # b[i]} /\ IsFiniteSet(diffs)
  <2>1. IsFiniteSet(1 .. n) /\ diffs \subseteq 1 .. n
    BY <1>1, FS_Interval
  <2> QED BY <1>1, <2>1, FS_Subset
<1>3. diffs # {}
  <2> SUFFICES ASSUME diffs = {} PROVE FALSE
    BY Zenon
  <2>1. \A x \in 1 .. n : a[x] = b[x]
    BY <1>2, Zenon
  <2> QED BY <2>1, SameWord
<1>4. SameLength(a, b) <=> \/ Cardinality(diffs) = 1
                           \/ \E i \in diffs : /\ diffs = {i, i + 1}
                                               /\ a[i] = b[i + 1] /\ a[i + 1] = b[i]
  BY Zenon DEF SameLength
<1>5. \A x \in 1 .. n : x \in diffs <=> a[x] # b[x]
  BY <1>2, Zenon
<1>6. Cardinality(diffs) = 1 <=> \E i : diffs = {i}
  BY <1>2, FS_Singleton
<1>7. \A x \in diffs : x \in 1 .. n
  BY <1>2, Zenon
<1> HIDE DEF diffs
<1>8. ASSUME NEW i, diffs = {i}
      PROVE  \E j \in 1 .. n, c \in L : b = ReplaceAt(a, j, c)
  <2>1. i \in 1 .. n
    BY <1>7, <1>8, Zenon
  <2>2. b[i] \in L
    BY <2>1, ElementOfSeq
  <2>3. ReplaceAt(a, i, b[i]) = ReplacedIn(a, n, i, b[i])
    BY <2>1, ReplaceIs
  <2>4. \A x \in 1 .. n : b[x] = IF x = i THEN b[i] ELSE a[x]
    <3> TAKE x \in 1 .. n
    <3>1. x # i => b[x] = a[x]
      BY <1>5, <1>8, Zenon
    <3> QED BY <3>1, Zenon
  <2>5. b = ReplacedIn(a, n, i, b[i])
    BY <1>1, <2>4, Zenon DEF ReplacedIn
  <2> QED BY <2>1, <2>2, <2>3, <2>5, Zenon
<1>9. ASSUME NEW i \in diffs, diffs = {i, i + 1}, a[i] = b[i + 1], a[i + 1] = b[i]
      PROVE  \E j \in 1 .. n - 1 : b = Swapped(a, j)
  <2>1. i \in 1 .. n /\ i + 1 \in 1 .. n
    BY <1>7, <1>9, Zenon
  <2>2. i \in 1 .. n - 1
    BY <2>1, SMT
  <2>3. Swapped(a, i) = SwappedIn(a, n, i)
    BY <2>2, SwapIs
  <2>4. \A x \in 1 .. n : b[x] = IF x = i THEN a[i + 1] ELSE IF x = i + 1 THEN a[i] ELSE a[x]
    <3> TAKE x \in 1 .. n
    <3>1. x # i /\ x # i + 1 => b[x] = a[x]
      BY <1>5, <1>9, Zenon
    <3> QED BY <1>9, <3>1, Zenon
  <2>5. b = SwappedIn(a, n, i)
    BY <1>1, <2>4, Zenon DEF SwappedIn
  <2> QED BY <2>2, <2>3, <2>5, Zenon
<1>10. ASSUME NEW i \in 1 .. n, NEW c \in L, b = ReplaceAt(a, i, c)
       PROVE  \E j : diffs = {j}
  <2>0. ReplaceAt(a, i, c) = ReplacedIn(a, n, i, c)
    BY ReplaceIs
  <2>1. \A x \in 1 .. n : b[x] = IF x = i THEN c ELSE a[x]
    BY <1>10, <2>0, Zenon DEF ReplacedIn
  <2>2. \A x \in diffs : x = i
    BY <1>5, <1>7, <2>1, Zenon
  <2>3. diffs = {i}
    BY <1>3, <2>2
  <2> QED BY <2>3, Zenon
<1>11. ASSUME NEW i \in 1 .. n - 1, b = Swapped(a, i)
       PROVE  \E j \in diffs : diffs = {j, j + 1} /\ a[j] = b[j + 1] /\ a[j + 1] = b[j]
  <2>0. Swapped(a, i) = SwappedIn(a, n, i)
    BY SwapIs
  <2>1. \A x \in 1 .. n : b[x] = IF x = i THEN a[i + 1]
                                 ELSE IF x = i + 1 THEN a[i] ELSE a[x]
    BY <1>11, <2>0, Zenon DEF SwappedIn
  <2>2. i \in 1 .. n /\ i + 1 \in 1 .. n /\ i # i + 1
    BY SMT
  <2>3. b[i] = a[i + 1] /\ b[i + 1] = a[i]
    BY <2>1, <2>2, Zenon
  <2>4. \A x \in diffs : x = i \/ x = i + 1
    BY <1>5, <1>7, <2>1, Zenon
  <2>5. a[i] # a[i + 1]
    <3> SUFFICES ASSUME a[i] = a[i + 1] PROVE FALSE
      BY Zenon
    <3>1. \A x \in diffs : a[x] = b[x]
      BY <2>3, <2>4, Zenon
    <3> QED BY <1>3, <1>5, <1>7, <3>1, Zenon
  <2>6. i \in diffs /\ i + 1 \in diffs
    BY <1>5, <2>2, <2>3, <2>5, Zenon
  <2>7. diffs = {i, i + 1}
    BY <2>4, <2>6, Zenon
  <2> QED BY <2>3, <2>6, <2>7, Zenon
<1> QED BY <1>4, <1>6, <1>8, <1>9, <1>10, <1>11, Zenon

-----------------------------------------------------------------------------
(* The comparison accepts what an edit can make, and looks at a pair of    *)
(* words alike from both sides.                                            *)
LEMMA ComparesOneEdit ==
  ASSUME NEW L, NEW a \in Seq(L), NEW b \in Seq(L)
  PROVE  OneEditIsOneEdit(a, b, L)
<1>1. PICK n \in Nat, m \in Nat : n = Len(a) /\ m = Len(b)
  OBVIOUS
<1>2. DOMAIN a = 1 .. n /\ DOMAIN b = 1 .. m
  BY <1>1, LenProperties
<1> DEFINE Replaced == \E i \in 1 .. n, c \in L : b = ReplaceAt(a, i, c)
           Cut      == \E p \in DOMAIN a : b = RemoveAt(a, p)
           Grown    == \E p \in 1 .. n + 1, c \in L : b = InsertAt(a, p, c)
           Turned   == \E i \in 1 .. n - 1 : b = Swapped(a, i)
<1>3. b \in Edits(a, L) <=> b = a \/ Replaced \/ Cut \/ Grown \/ Turned
  <2>1. b \in {ReplaceAt(a, i, c) : i \in DOMAIN a, c \in L} <=> Replaced
    BY <1>2
  <2>2. b \in {RemoveAt(a, i) : i \in DOMAIN a} <=> Cut
    BY Zenon
  <2>3. b \in {InsertAt(a, i, c) : i \in 1 .. Len(a) + 1, c \in L} <=> Grown
    BY <1>1
  <2>4. b \in {[a EXCEPT ![i] = a[i + 1], ![i + 1] = a[i]] : i \in 1 .. Len(a) - 1} <=> Turned
    BY <1>1, Zenon DEF Swapped
  <2> HIDE DEF Replaced, Cut, Grown, Turned
  <2> QED BY <2>1, <2>2, <2>3, <2>4 DEF Edits
<1>4. /\ Replaced => m = n
      /\ Turned => m = n
  <2>1. ASSUME NEW i \in 1 .. n, NEW c \in L, b = ReplaceAt(a, i, c) PROVE m = n
    <3>1. b = ReplacedIn(a, n, i, c)
      BY <1>1, <2>1, ReplaceIs
    <3>2. DOMAIN b = 1 .. n
      BY <3>1, Zenon DEF ReplacedIn
    <3> QED BY <1>1, <3>2, LenIs
  <2>2. ASSUME NEW i \in 1 .. n - 1, b = Swapped(a, i) PROVE m = n
    <3>1. b = SwappedIn(a, n, i)
      BY <1>1, <2>2, SwapIs
    <3>2. DOMAIN b = 1 .. n
      BY <3>1, Zenon DEF SwappedIn
    <3> QED BY <1>1, <3>2, LenIs
  <2> QED BY <2>1, <2>2, Zenon
<1>5. Cut => m = n - 1
  <2> SUFFICES ASSUME NEW p \in DOMAIN a, b = RemoveAt(a, p) PROVE m = n - 1
    BY Zenon
  <2>1. p \in 1 .. Len(a)
    BY <1>1, <1>2
  <2> QED BY <1>1, <2>1, RemoveIs
<1>6. Grown => m = n + 1
  <2> SUFFICES ASSUME NEW p \in 1 .. n + 1, NEW c \in L, b = InsertAt(a, p, c) PROVE m = n + 1
    BY Zenon
  <2>1. b = InsertedIn(a, n, p, c)
    BY <1>1, InsertIs
  <2>2. DOMAIN b = 1 .. n + 1 /\ n + 1 \in Nat
    BY <2>1 DEF InsertedIn
  <2> QED BY <1>1, <2>2, LenIs
<1>7. m = n /\ a # b => (SameLength(a, b) <=> Replaced \/ Turned)
  <2> SUFFICES ASSUME m = n, a # b PROVE SameLength(a, b) <=> Replaced \/ Turned
    BY Zenon
  <2>1. Len(a) = n /\ Len(b) = n
    BY <1>1
  <2> QED BY <2>1, SameLengthIs
<1>8. n = m + 1 => (OneShorter(a, b) <=> Cut)
  <2> SUFFICES ASSUME n = m + 1 PROVE OneShorter(a, b) <=> Cut
    BY Zenon
  <2>1. Len(a) = m + 1 /\ Len(b) = m
    BY <1>1
  <2>2. OneShorter(a, b) <=> \E p : Removed(a, b, p)
    BY <2>1, OneShorterIs
  <2>3. (\E p : Removed(a, b, p)) <=> Cut
    BY <2>1, RemovalIs
  <2> QED BY <2>2, <2>3, Zenon
<1>9. m = n + 1 => (OneShorter(b, a) <=> Grown)
  <2> SUFFICES ASSUME m = n + 1 PROVE OneShorter(b, a) <=> Grown
    BY Zenon
  <2>1. Len(b) = n + 1 /\ Len(a) = n
    BY <1>1
  <2>2. OneShorter(b, a) <=> \E p : Removed(b, a, p)
    BY <2>1, OneShorterIs
  <2>3. (\E p : Removed(b, a, p)) <=> Grown
    BY <2>1, <1>1, InsertionIs
  <2> QED BY <2>2, <2>3, Zenon
<1>10. within_one_edit(a, b) <=> \/ a = b
                                 \/ n = m /\ SameLength(a, b)
                                 \/ n = m + 1 /\ OneShorter(a, b)
                                 \/ m = n + 1 /\ OneShorter(b, a)
  BY <1>1, Zenon DEF within_one_edit
<1> HIDE DEF Replaced, Cut, Grown, Turned
<1>11. within_one_edit(a, b) <=> b \in Edits(a, L)
  <2>1. n = m - 1 + 1 => n = m
    BY SMT
  <2>2. m = n - 1 <=> n = m + 1
    BY SMT
  <2> QED BY <1>3, <1>4, <1>5, <1>6, <1>7, <1>8, <1>9, <1>10, <2>2, Zenon
<1>12. within_one_edit(a, b) <=> within_one_edit(b, a)
  <2>1. n = m => (SameLength(a, b) <=> SameLength(b, a))
    <3> SUFFICES ASSUME n = m PROVE SameLength(a, b) <=> SameLength(b, a)
      BY Zenon
    <3>1. {i \in DOMAIN a : a[i] # b[i]} = {i \in DOMAIN b : b[i] # a[i]}
      BY <1>2
    <3> DEFINE diffs == {i \in DOMAIN a : a[i] # b[i]}
    <3>2. SameLength(a, b) <=> \/ Cardinality(diffs) = 1
                               \/ \E i \in diffs : /\ diffs = {i, i + 1}
                                                   /\ a[i] = b[i + 1] /\ a[i + 1] = b[i]
      BY Zenon DEF SameLength
    <3>3. SameLength(b, a) <=> \/ Cardinality(diffs) = 1
                               \/ \E i \in diffs : /\ diffs = {i, i + 1}
                                                   /\ b[i] = a[i + 1] /\ b[i + 1] = a[i]
      BY <3>1, Zenon DEF SameLength
    <3> HIDE DEF diffs
    <3> QED BY <3>2, <3>3, Zenon
  <2>2. within_one_edit(b, a) <=> \/ b = a
                                  \/ m = n /\ SameLength(b, a)
                                  \/ m = n + 1 /\ OneShorter(b, a)
                                  \/ n = m + 1 /\ OneShorter(a, b)
    BY <1>1, Zenon DEF within_one_edit
  <2> QED BY <1>10, <2>1, <2>2, Zenon
<1> QED BY <1>11, <1>12, Zenon DEF OneEditIsOneEdit

-----------------------------------------------------------------------------
(* Some of the numbers up to n: one of them is the greatest.               *)
LEMMA GreatestExists ==
  ASSUME NEW n \in Nat, NEW U \in SUBSET (0 .. n), U # {}
  PROVE  \E u \in U : \A y \in U : y <= u
<1> DEFINE Left == {n - u : u \in U}
<1>1. Left \in SUBSET Nat /\ Left # {}
  <2>1. \A u \in U : n - u \in Nat
    BY SMT
  <2> QED BY <2>1
<1> HIDE DEF Left
<1>2. PICK v \in Left : \A y \in Left : ~(y < v)
  BY <1>1, LeastExists
<1>3. PICK u \in U : v = n - u
  BY Zenon DEF Left
<1>4. \A y \in U : y <= u
  <2> TAKE y \in U
  <2>1. n - y \in Left
    BY Zenon DEF Left
  <2>2. ~(n - y < n - u)
    BY <1>2, <1>3, <2>1, Zenon
  <2>3. n \in Nat /\ y \in 0 .. n /\ u \in 0 .. n
    OBVIOUS
  <2> QED BY <2>2, <2>3, SMT
<1> QED BY <1>4

(* The longest piece is a known one that begins here, if there is any.     *)
LEMMA LongestIs ==
  ASSUME NEW L, NEW w \in Seq(L), NEW n \in Nat, n = Len(w), NEW vocab, NEW start \in 1 .. n + 1
  PROVE  \/ Longest(vocab, w, start) = 0
         \/ /\ Longest(vocab, w, start) \in start .. n
            /\ Known(vocab, start, SubSeq(w, start, Longest(vocab, w, start)))
<1> DEFINE ends == {e \in start .. Len(w) : Known(vocab, start, SubSeq(w, start, e))}
           best == CHOOSE e \in ends : \A f \in ends : f <= e
<1>1. Longest(vocab, w, start) = IF ends = {} THEN 0 ELSE best
  BY Zenon DEF Longest
<1>2. CASE ends = {}
  BY <1>1, <1>2, Zenon
<1>3. CASE ends # {}
  <2>1. ends \in SUBSET (0 .. n)
    BY SMT
  <2>2. best \in ends
    <3> HIDE DEF ends
    <3>1. \E e \in ends : \A f \in ends : f <= e
      BY <1>3, <2>1, GreatestExists
    <3> QED BY <3>1, Zenon
  <2> HIDE DEF best
  <2>3. best \in start .. Len(w) /\ Known(vocab, start, SubSeq(w, start, best))
    BY <2>2, Zenon
  <2>4. Longest(vocab, w, start) = best
    BY <1>1, <1>3, Zenon
  <2> QED BY <2>3, <2>4
<1> QED BY <1>2, <1>3

-----------------------------------------------------------------------------
(* Pieces one after another make the whole.                                *)
Joining(s, f) == f = [i \in 1 .. Len(s) |-> IF i = 1 THEN s[i] ELSE f[i - 1] \o s[i]]
JoinsTo(s, whole) == \E f : Joining(s, f) /\ f[Len(s)] = whole

(* The library joins them so.                                              *)
LEMMA FlattenIs ==
  ASSUME NEW s, NEW m \in Nat \ {0}, Len(s) = m, NEW whole, JoinsTo(s, whole)
  PROVE  FlattenSeq(s) = whole
<1>1. PICK g : Joining(s, g) /\ g[m] = whole
  BY Zenon DEF JoinsTo
<1> DEFINE h == CHOOSE f : Joining(s, f)
<1>2. Joining(s, h)
  BY <1>1, Zenon
<1>3. FlattenSeq(s) = h[m]
  BY DEF FlattenSeq, Joining
<1> HIDE DEF h
<1>4. ASSUME NEW f, Joining(s, f)
      PROVE  \A i \in 1 .. m : f[i] = IF i = 1 THEN s[i] ELSE f[i - 1] \o s[i]
  BY <1>4, Zenon DEF Joining
<1>5. \A i \in 1 .. m : h[i] = g[i]
  <2> DEFINE Wrong == {i \in 1 .. m : h[i] # g[i]}
  <2> SUFFICES ASSUME Wrong # {} PROVE FALSE
    BY Zenon
  <2>1. Wrong \in SUBSET Nat
    BY SMT
  <2>2. PICK x \in Wrong : \A y \in Wrong : ~(y < x)
    <3> HIDE DEF Wrong
    <3> QED BY <2>1, LeastExists
  <2>3. x \in 1 .. m /\ h[x] # g[x]
    BY <2>2, Zenon
  <2>4. /\ h[x] = IF x = 1 THEN s[x] ELSE h[x - 1] \o s[x]
        /\ g[x] = IF x = 1 THEN s[x] ELSE g[x - 1] \o s[x]
    BY <1>1, <1>2, <1>4, <2>3, Zenon
  <2>5. x # 1
    BY <2>3, <2>4, Zenon
  <2>6. x - 1 \in 1 .. m /\ x - 1 < x
    BY <2>3, <2>5, SMT
  <2>7. h[x - 1] = g[x - 1]
    BY <2>2, <2>6, Zenon
  <2> QED BY <2>3, <2>4, <2>7, Zenon
<1>6. m \in 1 .. m
  BY SMT
<1> QED BY <1>1, <1>3, <1>5, <1>6, Zenon

(* The first piece is the whole so far.                                    *)
LEMMA FirstJoins ==
  ASSUME NEW s, NEW p, Len(s) = 1, s[1] = p
  PROVE  JoinsTo(s, p)
<1> DEFINE f == [i \in 1 .. 1 |-> p]
<1>1. \A i \in 1 .. 1 : i = 1
  BY SMT
<1>2. f = [i \in 1 .. 1 |-> IF i = 1 THEN s[i] ELSE f[i - 1] \o s[i]]
  BY <1>1
<1>3. 1 \in 1 .. 1 /\ f[1] = p
  BY SMT
<1> HIDE DEF f
<1> QED BY <1>2, <1>3, Zenon DEF JoinsTo, Joining

(* And the next one makes it longer.                                       *)
LEMMA NextJoins ==
  ASSUME NEW s, NEW t, NEW p, NEW m \in Nat \ {0}, Len(s) = m, Len(t) = m + 1,
         \A i \in 1 .. m : t[i] = s[i], t[m + 1] = p, NEW whole, JoinsTo(s, whole)
  PROVE  JoinsTo(t, whole \o p)
<1>1. PICK f : Joining(s, f) /\ f[m] = whole
  BY Zenon DEF JoinsTo
<1>2. \A i \in 1 .. m : f[i] = IF i = 1 THEN s[i] ELSE f[i - 1] \o s[i]
  BY <1>1, Zenon DEF Joining
<1> DEFINE g == [i \in 1 .. m + 1 |-> IF i = m + 1 THEN whole \o p ELSE f[i]]
<1>3. g[m + 1] = whole \o p /\ \A i \in 1 .. m : g[i] = f[i]
  <2>1. m + 1 \in 1 .. m + 1
    BY SMT
  <2>2. \A i \in 1 .. m : i \in 1 .. m + 1 /\ i # m + 1
    BY SMT
  <2> QED BY <2>1, <2>2, Zenon
<1>4. \A i \in 1 .. m + 1 : g[i] = IF i = 1 THEN t[i] ELSE g[i - 1] \o t[i]
  <2> TAKE i \in 1 .. m + 1
  <2> HIDE DEF g
  <2>1. CASE i = m + 1
    <3>1. i # 1 /\ i - 1 = m /\ m \in 1 .. m
      BY <2>1, SMT
    <3>2. g[i - 1] = whole
      BY <1>1, <1>3, <3>1, Zenon
    <3>3. g[i] = whole \o p /\ t[i] = p
      BY <1>3, <2>1, Zenon
    <3> QED BY <3>1, <3>2, <3>3, Zenon
  <2>2. CASE i # m + 1
    <3>1. i \in 1 .. m
      BY <2>2, SMT
    <3>2. i # 1 => i - 1 \in 1 .. m
      BY <3>1, SMT
    <3>3. i # 1 => g[i - 1] = f[i - 1]
      BY <1>3, <3>2, Zenon
    <3>4. g[i] = f[i] /\ t[i] = s[i]
      BY <1>3, <3>1, Zenon
    <3>5. f[i] = IF i = 1 THEN s[i] ELSE f[i - 1] \o s[i]
      BY <1>2, <3>1, Zenon
    <3>6. CASE i = 1
      BY <3>4, <3>5, <3>6, Zenon
    <3>7. CASE i # 1
      <4>1. g[i] = f[i - 1] \o s[i]
        BY <3>4, <3>5, <3>7, Zenon
      <4>2. g[i] = g[i - 1] \o t[i]
        BY <4>1, <3>3, <3>4, <3>7, Zenon
      <4> QED BY <3>7, <4>2, Zenon
    <3> QED BY <3>6, <3>7
  <2> QED BY <2>1, <2>2
<1>5. g = [i \in 1 .. m + 1 |-> g[i]]
  OBVIOUS
<1> HIDE DEF g
<1>6. g = [i \in 1 .. m + 1 |-> IF i = 1 THEN t[i] ELSE g[i - 1] \o t[i]]
  BY <1>4, <1>5, Zenon
<1>7. Joining(t, g)
  BY <1>6, Zenon DEF Joining
<1> QED BY <1>3, <1>7, Zenon DEF JoinsTo

-----------------------------------------------------------------------------
(* What is cut off a word so far: pieces that make the word up to here,    *)
(* each known at its place; after k steps at least k letters are, or the   *)
(* whole word, or it was given up.                                         *)
Cutting(L, n) == [start : 1 .. n + 1, lost : BOOLEAN, out : Seq(Seq(L))]

CutOK(L, vocab, w, n, k, got) ==
  /\ got \in Cutting(L, n)
  /\ got.start = 1 <=> Len(got.out) = 0
  /\ Len(got.out) # 0 => JoinsTo(got.out, SubSeq(w, 1, got.start - 1))
  /\ \A i \in 1 .. Len(got.out) : Known(vocab, i, got.out[i])
  /\ got.lost = TRUE \/ got.start > k \/ got.start > n

(* A piece more, or no more.                                               *)
OneMore(L, n, got, e, p, to) ==
  /\ to \in Cutting(L, n) /\ to.start = e + 1 /\ to.lost = got.lost
  /\ to.out = Append(got.out, p)
GivenUp(L, n, got, to) ==
  /\ to \in Cutting(L, n) /\ to.start = got.start /\ to.lost = TRUE
  /\ to.out = got.out

(* Records keep their other fields.                                        *)
LEMMA CutFields ==
  ASSUME NEW L, NEW n \in Nat, NEW got \in Cutting(L, n),
         NEW e \in got.start .. n, NEW p \in Seq(L)
  PROVE  OneMore(L, n, got, e, p, [got EXCEPT !.start = e + 1, !.out = Append(@, p)])
<1>1. got.start \in 1 .. n + 1 /\ got.lost \in BOOLEAN /\ got.out \in Seq(Seq(L))
  BY DEF Cutting
<1>2. DOMAIN got = {"start", "lost", "out"} /\ got = [x \in DOMAIN got |-> got[x]]
  BY DEF Cutting
<1>3. e + 1 \in 1 .. n + 1
  BY <1>1, SMT
<1>4. Append(got.out, p) \in Seq(Seq(L))
  BY <1>1, AppendProperties
<1>5. LET to == [got EXCEPT !.start = e + 1, !.out = Append(@, p)]
      IN  to.start = e + 1 /\ to.lost = got.lost /\ to.out = Append(got.out, p)
  BY <1>2, Zenon
<1>6. [got EXCEPT !.start = e + 1, !.out = Append(@, p)] \in Cutting(L, n)
  BY <1>3, <1>4 DEF Cutting
<1> QED BY <1>5, <1>6, Zenon DEF OneMore

(* So does a word given up.                                                *)
LEMMA LostFields ==
  ASSUME NEW L, NEW n \in Nat, NEW got \in Cutting(L, n)
  PROVE  GivenUp(L, n, got, [got EXCEPT !.lost = TRUE])
<1>1. DOMAIN got = {"start", "lost", "out"} /\ got = [x \in DOMAIN got |-> got[x]]
  BY DEF Cutting
<1>2. LET to == [got EXCEPT !.lost = TRUE]
      IN  to.start = got.start /\ to.lost = TRUE /\ to.out = got.out
  BY <1>1, Zenon
<1>3. [got EXCEPT !.lost = TRUE] \in Cutting(L, n)
  BY DEF Cutting
<1> QED BY <1>2, <1>3, Zenon DEF GivenUp

(* A known piece up to e was cut off.                                      *)
CutOff(L, vocab, w, n, got, e, to) ==
  /\ Known(vocab, got.start, SubSeq(w, got.start, e))
  /\ SubSeq(w, got.start, e) \in Seq(L)
  /\ OneMore(L, n, got, e, SubSeq(w, got.start, e), to)

(* The three ways a step can go.                                           *)
StepGoes(L, vocab, w, n, got, to) ==
  \/ (got.start > n \/ got.lost = TRUE) /\ to = got
  \/ GivenUp(L, n, got, to)
  \/ got.lost = FALSE /\ \E e \in got.start .. n : CutOff(L, vocab, w, n, got, e, to)

(* And it goes one of them.                                                *)
LEMMA TakePieceIs ==
  ASSUME NEW L, NEW w \in Seq(L), NEW n \in Nat, n = Len(w), NEW vocab,
         NEW got \in Cutting(L, n)
  PROVE  StepGoes(L, vocab, w, n, got, TakePiece(vocab, w, got))
<1>1. got.start \in 1 .. n + 1 /\ got.lost \in BOOLEAN
  BY DEF Cutting
<1> DEFINE e == Longest(vocab, w, got.start)
<1>2. \/ e = 0
      \/ e \in got.start .. n /\ Known(vocab, got.start, SubSeq(w, got.start, e))
  BY <1>1, LongestIs
<1>3. TakePiece(vocab, w, got)
        = CASE got.start > Len(w) \/ got.lost -> got
            [] OTHER -> IF e = 0 THEN [got EXCEPT !.lost = TRUE]
                        ELSE [got EXCEPT !.start = e + 1,
                                !.out = Append(@, SubSeq(w, got.start, e))]
  BY Zenon DEF TakePiece
<1> HIDE DEF e
<1>4. CASE got.start > n \/ got.lost = TRUE
  <2>1. TakePiece(vocab, w, got) = got
    BY <1>3, <1>4, Zenon
  <2> QED BY <1>4, <2>1, Zenon DEF StepGoes
<1>5. CASE ~(got.start > n \/ got.lost = TRUE)
  <2>1. got.lost = FALSE
    BY <1>1, <1>5, Zenon
  <2>2. TakePiece(vocab, w, got)
          = IF e = 0 THEN [got EXCEPT !.lost = TRUE]
            ELSE [got EXCEPT !.start = e + 1, !.out = Append(@, SubSeq(w, got.start, e))]
    BY <1>3, <1>5, <2>1, Zenon
  <2>3. CASE e = 0
    <3>1. TakePiece(vocab, w, got) = [got EXCEPT !.lost = TRUE]
      BY <2>2, <2>3, Zenon
    <3>2. GivenUp(L, n, got, TakePiece(vocab, w, got))
      <4>1. GivenUp(L, n, got, [got EXCEPT !.lost = TRUE])
        BY LostFields
      <4> QED BY <3>1, <4>1
    <3> QED BY <3>2, Zenon DEF StepGoes
  <2>4. CASE e # 0
    <3>1. e \in got.start .. n /\ Known(vocab, got.start, SubSeq(w, got.start, e))
      BY <1>2, <2>4, Zenon
    <3>2. TakePiece(vocab, w, got)
            = [got EXCEPT !.start = e + 1, !.out = Append(@, SubSeq(w, got.start, e))]
      BY <2>2, <2>4, Zenon
    <3>3. SubSeq(w, got.start, e) \in Seq(L)
      <4>1. got.start \in Int /\ e \in Int /\ \A i \in got.start .. e : i \in 1 .. n
        BY <1>1, <3>1, SMT
      <4>2. \A i \in got.start .. e : w[i] \in L
        BY <4>1, ElementOfSeq
      <4> QED BY <4>1, <4>2, SubSeqProperties
    <3>4. CutOff(L, vocab, w, n, got, e, TakePiece(vocab, w, got))
      <4> DEFINE p == SubSeq(w, got.start, e)
      <4>1. p \in Seq(L) /\ Known(vocab, got.start, p)
        BY <3>1, <3>3
      <4>2. TakePiece(vocab, w, got) = [got EXCEPT !.start = e + 1, !.out = Append(@, p)]
        BY <3>2
      <4> HIDE DEF p
      <4>3. OneMore(L, n, got, e, p, TakePiece(vocab, w, got))
        <5>1. OneMore(L, n, got, e, p, [got EXCEPT !.start = e + 1, !.out = Append(@, p)])
          BY <3>1, <4>1, CutFields
        <5> QED BY <4>2, <5>1
      <4> QED BY <4>1, <4>3, Zenon DEF CutOff, p
    <3> QED BY <2>1, <3>1, <3>4, Zenon DEF StepGoes
  <2> QED BY <2>3, <2>4
<1> QED BY <1>4, <1>5

(* So a step stays among the states.                                       *)
LEMMA CuttingStays ==
  ASSUME NEW L, NEW w \in Seq(L), NEW n \in Nat, n = Len(w), NEW vocab,
         NEW got \in Cutting(L, n)
  PROVE  TakePiece(vocab, w, got) \in Cutting(L, n)
<1> DEFINE to == TakePiece(vocab, w, got)
<1>1. StepGoes(L, vocab, w, n, got, to)
  BY TakePieceIs
<1> HIDE DEF to
<1>2. to = got => to \in Cutting(L, n)
  BY Zenon
<1>3. to \in Cutting(L, n)
  BY <1>1, <1>2, Zenon DEF StepGoes, GivenUp, CutOff, OneMore
<1> QED BY <1>3 DEF to

(* A word is begun right.                                                  *)
LEMMA CutBegins ==
  ASSUME NEW L, NEW vocab, NEW w, NEW n \in Nat
  PROVE  CutOK(L, vocab, w, n, 0, [start |-> 1, lost |-> FALSE, out |-> <<>>])
<1> DEFINE got == [start |-> 1, lost |-> FALSE, out |-> <<>>]
<1>1. got \in Cutting(L, n)
  <2>1. 1 \in 1 .. n + 1
    BY SMT
  <2> QED BY <2>1 DEF Cutting
<1>2. got.start = 1 /\ got.lost = FALSE /\ Len(got.out) = 0
  OBVIOUS
<1> HIDE DEF got
<1>3. \A i \in 1 .. 0 : FALSE
  BY SMT
<1>4. 1 > 0
  BY SMT
<1>5. CutOK(L, vocab, w, n, 0, got)
  BY <1>1, <1>2, <1>3, <1>4, Zenon DEF CutOK
<1> QED BY <1>5, Zenon DEF got

(* And cut on right.                                                       *)
LEMMA CutGoesOn ==
  ASSUME NEW L, NEW w \in Seq(L), NEW n \in Nat, n = Len(w), NEW vocab,
         NEW k \in Nat, NEW got \in Cutting(L, n), CutOK(L, vocab, w, n, k, got)
  PROVE  CutOK(L, vocab, w, n, k + 1, TakePiece(vocab, w, got))
<1> DEFINE to == TakePiece(vocab, w, got)
<1>1. got \in Cutting(L, n)
  OBVIOUS
<1>2. got.start \in 1 .. n + 1 /\ got.out \in Seq(Seq(L)) /\ got.lost \in BOOLEAN
  BY <1>1 DEF Cutting
<1>3. StepGoes(L, vocab, w, n, got, to)
  BY <1>1, TakePieceIs
<1> HIDE DEF to
<1>4. ASSUME got.start > n \/ got.lost = TRUE, to = got
      PROVE  CutOK(L, vocab, w, n, k + 1, to)
  BY <1>4, Zenon DEF CutOK
<1>5. ASSUME GivenUp(L, n, got, to)
      PROVE  CutOK(L, vocab, w, n, k + 1, to)
  <2>1. /\ to \in Cutting(L, n) /\ to.start = got.start /\ to.lost = TRUE
        /\ to.out = got.out
    BY <1>5, Zenon DEF GivenUp
  <2> QED BY <2>1, Zenon DEF CutOK
<1>6. ASSUME got.lost = FALSE, NEW e \in got.start .. n, CutOff(L, vocab, w, n, got, e, to)
      PROVE  CutOK(L, vocab, w, n, k + 1, to)
  <2> DEFINE p == SubSeq(w, got.start, e)
  <2>1. /\ p \in Seq(L) /\ OneMore(L, n, got, e, p, to)
        /\ Known(vocab, got.start, p)
    BY <1>6, Zenon DEF CutOff
  <2> HIDE DEF p
  <2> DEFINE s == got.out
  <2>2. /\ to \in Cutting(L, n) /\ to.start = e + 1 /\ to.lost = got.lost
        /\ to.out = Append(s, p)
    BY <2>1, Zenon DEF OneMore
  <2>3. PICK m \in Nat : m = Len(s)
    BY <1>2
  <2> HIDE DEF s
  <2>4. s \in Seq(Seq(L))
    BY <1>2 DEF s
  <2> DEFINE t == to.out
  <2>5. /\ Len(t) = m + 1 /\ t[m + 1] = p
        /\ \A i \in 1 .. m : t[i] = s[i]
    BY <2>1, <2>2, <2>3, <2>4, AppendProperties
  <2> HIDE DEF t
  <2>6. (got.start = 1 <=> m = 0) /\ (m # 0 => JoinsTo(s, SubSeq(w, 1, got.start - 1)))
    BY <2>3, Zenon DEF CutOK, s
  <2>7. JoinsTo(t, SubSeq(w, 1, e))
    <3>1. CASE m = 0
      <4>1. Len(t) = 1 /\ t[1] = p
        BY <2>5, <3>1
      <4>2. p = SubSeq(w, 1, e)
        BY <2>6, <3>1, Zenon DEF p
      <4> QED BY <4>1, <4>2, FirstJoins, Zenon
    <3>2. CASE m # 0
      <4>1. JoinsTo(t, SubSeq(w, 1, got.start - 1) \o p)
        <5> DEFINE whole == SubSeq(w, 1, got.start - 1)
        <5>1. JoinsTo(s, whole) /\ m \in Nat \ {0}
          BY <2>6, <3>2
        <5> HIDE DEF whole
        <5>2. JoinsTo(t, whole \o p)
          BY <2>3, <2>5, <5>1, NextJoins
        <5> QED BY <5>2 DEF whole
      <4>2. SubSeq(w, 1, got.start - 1) \o SubSeq(w, got.start, e) = SubSeq(w, 1, e)
        <5> DEFINE j == got.start - 1
        <5>1. /\ 1 \in 1 .. Len(w) + 1 /\ j \in 1 - 1 .. Len(w) /\ e \in j .. Len(w)
              /\ j + 1 = got.start
          BY <1>2, SMT
        <5> HIDE DEF j
        <5>2. SubSeq(w, 1, j) \o SubSeq(w, j + 1, e) = SubSeq(w, 1, e)
          BY <5>1, ConcatAdjacentSubSeq
        <5> QED BY <5>1, <5>2 DEF j
      <4> QED BY <4>1, <4>2, Zenon DEF p
    <3> QED BY <3>1, <3>2
  <2>8. \A i \in 1 .. m + 1 : Known(vocab, i, t[i])
    <3> TAKE i \in 1 .. m + 1
    <3>1. CASE i = m + 1
      <4>1. i = 1 <=> got.start = 1
        BY <2>6, <3>1, SMT
      <4>2. t[i] = p
        BY <2>5, <3>1, Zenon
      <4> QED BY <2>1, <4>1, <4>2, Zenon DEF Known
    <3>2. CASE i # m + 1
      <4>1. i \in 1 .. m
        BY <3>2, SMT
      <4>2. t[i] = s[i]
        BY <2>5, <4>1, Zenon
      <4>3. Known(vocab, i, s[i])
        BY <2>3, <4>1, Zenon DEF CutOK, s
      <4> QED BY <4>2, <4>3, Zenon
    <3> QED BY <3>1, <3>2
  <2>9. to.start # 1 /\ to.start - 1 = e /\ m + 1 # 0
    BY <1>2, <2>2, SMT
  <2>10. to.start > k + 1 \/ to.start > n
    <3>1. got.start > k \/ got.start > n
      BY <1>6, Zenon DEF CutOK
    <3> QED BY <1>2, <2>2, <3>1, SMT
  <2> QED BY <2>2, <2>5, <2>7, <2>8, <2>9, <2>10, Zenon DEF CutOK, t
<1>7. CutOK(L, vocab, w, n, k + 1, to)
  BY <1>3, <1>4, <1>5, <1>6, Zenon DEF StepGoes
<1> QED BY <1>7 DEF to

-----------------------------------------------------------------------------
(* The pieces of a known word are its letters again, each known at its     *)
(* place; a word is known when no part of it was given up.                 *)
LEMMA PiecesAre ==
  ASSUME NEW L, NEW w \in Seq(L), NEW vocab
  PROVE  /\ pieces(vocab, w) \in Seq(Seq(L) \cup {Unk})
         /\ pieces(vocab, w) # <<Unk>> =>
              /\ FlattenSeq(pieces(vocab, w)) = w
              /\ \A k \in DOMAIN pieces(vocab, w) : Known(vocab, k, pieces(vocab, w)[k])
<1> PICK n \in Nat : n = Len(w)
  OBVIOUS
<1> DEFINE States == Cutting(L, n)
           first == [start |-> 1, lost |-> FALSE, out |-> <<>>]
           step  == [got \in States |-> TakePiece(vocab, w, got)]
           T(f)  == f = [k \in 0 .. Len(w) |->
                           IF k = 0 THEN first ELSE TakePiece(vocab, w, f[k - 1])]
           h     == CHOOSE f : T(f)
<1>1. pieces(vocab, w) = IF Len(w) > MaxWordChars \/ h[Len(w)].lost THEN <<Unk>>
                         ELSE h[Len(w)].out
  BY Zenon DEF pieces
<1>2. CutOK(L, vocab, w, n, 0, first) /\ first \in States
  <2>1. CutOK(L, vocab, w, n, 0, first)
    BY CutBegins
  <2> QED BY <2>1, Zenon DEF CutOK
<1>3. step \in [States -> States]
  <2>1. \A got \in States : TakePiece(vocab, w, got) \in States
    BY CuttingStays
  <2> QED BY <2>1, Zenon
<1>4. \A got \in States : step[got] = TakePiece(vocab, w, got)
  BY Zenon
<1> HIDE DEF step, first, States
<1>5. PICK g : StepsOf(first, step, n, g) /\ \A k \in 0 .. n : g[k] \in States
  BY <1>2, <1>3, StepsExist
<1>6. T(g)
  <2>1. \A k \in 0 .. n : k # 0 => k - 1 \in 0 .. n
    BY SMT
  <2>2. \A k \in 0 .. n : k # 0 => step[g[k - 1]] = TakePiece(vocab, w, g[k - 1])
    BY <1>4, <1>5, <2>1, Zenon
  <2>3. g = [k \in 0 .. n |-> IF k = 0 THEN first ELSE step[g[k - 1]]]
    BY <1>5, Zenon DEF StepsOf
  <2>4. [k \in 0 .. n |-> IF k = 0 THEN first ELSE step[g[k - 1]]]
          = [k \in 0 .. n |-> IF k = 0 THEN first ELSE TakePiece(vocab, w, g[k - 1])]
    BY <2>2
  <2> QED BY <2>3, <2>4, Zenon
<1>7. T(h)
  <2> HIDE DEF T
  <2> QED BY <1>6
<1> HIDE DEF h
<1>8. \A k \in 0 .. n : h[k] = IF k = 0 THEN first ELSE TakePiece(vocab, w, h[k - 1])
  BY <1>7, Zenon
<1>9. \A k \in 0 .. n : CutOK(L, vocab, w, n, k, h[k])
  <2> DEFINE Wrong == {k \in 0 .. n : ~CutOK(L, vocab, w, n, k, h[k])}
  <2> SUFFICES ASSUME Wrong # {} PROVE FALSE
    BY Zenon
  <2>1. Wrong \in SUBSET Nat
    BY SMT
  <2>2. PICK k \in Wrong : \A y \in Wrong : ~(y < k)
    <3> HIDE DEF Wrong
    <3> QED BY <2>1, LeastExists
  <2>3. k \in 0 .. n /\ ~CutOK(L, vocab, w, n, k, h[k])
    BY <2>2, Zenon
  <2>4. CASE k = 0
    <3>1. h[k] = first
      BY <1>8, <2>3, <2>4, Zenon
    <3> QED BY <1>2, <2>3, <2>4, <3>1, Zenon
  <2>5. CASE k # 0
    <3>1. k - 1 \in 0 .. n /\ k - 1 < k /\ k - 1 \in Nat /\ k = (k - 1) + 1
      BY <2>3, <2>5, SMT
    <3>2. CutOK(L, vocab, w, n, k - 1, h[k - 1])
      BY <2>2, <3>1, Zenon
    <3>3. h[k - 1] \in Cutting(L, n)
      BY <3>2, Zenon DEF CutOK
    <3>4. CutOK(L, vocab, w, n, (k - 1) + 1, TakePiece(vocab, w, h[k - 1]))
      BY <3>1, <3>2, <3>3, CutGoesOn
    <3>5. h[k] = TakePiece(vocab, w, h[k - 1])
      BY <1>8, <2>3, <2>5, Zenon
    <3> QED BY <2>3, <3>1, <3>4, <3>5, Zenon
  <2> QED BY <2>4, <2>5
<1> DEFINE at == h[n]
<1>10. CutOK(L, vocab, w, n, n, at)
  <2>1. n \in 0 .. n
    BY SMT
  <2> QED BY <1>9, <2>1, Zenon
<1>11. pieces(vocab, w) = IF Len(w) > MaxWordChars \/ at.lost THEN <<Unk>> ELSE at.out
  BY <1>1, Zenon
<1> HIDE DEF at
<1>12. at.start \in 1 .. n + 1 /\ at.lost \in BOOLEAN /\ at.out \in Seq(Seq(L))
  BY <1>10 DEF CutOK, Cutting
<1>13. CASE pieces(vocab, w) = <<Unk>>
  <2>1. <<Unk>> \in Seq(Seq(L) \cup {Unk})
    OBVIOUS
  <2> QED BY <1>13, <2>1, Zenon
<1>14. CASE pieces(vocab, w) # <<Unk>>
  <2>1. pieces(vocab, w) = at.out /\ at.lost = FALSE
    BY <1>11, <1>12, <1>14, Zenon
  <2>2. at.out \in Seq(Seq(L) \cup {Unk})
    <3>1. Seq(L) \subseteq Seq(L) \cup {Unk}
      BY Zenon
    <3> QED BY <1>12, <3>1, SeqMonotonic, Zenon
  <2>3. at.start - 1 = n
    <3>1. at.start > n
      BY <1>10, <2>1, Zenon DEF CutOK
    <3> QED BY <1>12, <3>1, SMT
  <2>4. PICK m \in Nat : m = Len(at.out)
    BY <1>12
  <2>5. SubSeq(w, 1, n) = w
    BY SubSeqFull
  <2>6. FlattenSeq(at.out) = w
    <3>1. CASE m = 0
      <4>1. at.start = 1
        BY <1>10, <2>4, <3>1, Zenon DEF CutOK
      <4>2. n = 0
        BY <2>3, <4>1, SMT
      <4>3. at.out = <<>> /\ w = <<>>
        BY <1>12, <2>4, <3>1, <4>2, EmptySeq
      <4>4. FlattenSeq(at.out) = at.out
        BY <2>4, <3>1, Zenon DEF FlattenSeq
      <4> QED BY <4>3, <4>4
    <3>2. CASE m # 0
      <4>1. JoinsTo(at.out, SubSeq(w, 1, at.start - 1))
        BY <1>10, <2>4, <3>2, Zenon DEF CutOK
      <4>2. JoinsTo(at.out, w)
        BY <2>3, <2>5, <4>1, Zenon
      <4>3. m \in Nat \ {0} /\ Len(at.out) = m
        BY <2>4, <3>2
      <4> QED BY <4>2, <4>3, FlattenIs
    <3> QED BY <3>1, <3>2
  <2>7. \A k \in DOMAIN at.out : Known(vocab, k, at.out[k])
    <3>1. DOMAIN at.out = 1 .. Len(at.out)
      BY <1>12, LenProperties
    <3>2. \A i \in 1 .. Len(at.out) : Known(vocab, i, at.out[i])
      BY <1>10, Zenon DEF CutOK
    <3> QED BY <3>1, <3>2, Zenon
  <2> QED BY <2>1, <2>2, <2>6, <2>7, Zenon
<1> QED BY <1>13, <1>14

(* What the model is given has no more pieces than it has positions.       *)
LEMMA EncodeFits ==
  ASSUME NEW L, NEW w \in Seq(L), NEW vocab, NEW longest \in Nat, longest >= 2
  PROVE  Len(encode(vocab, <<w, w>>, longest)) <= longest
<1> DEFINE X == Seq(L) \cup {Unk}
           p == pieces(vocab, w)
           s == [i \in DOMAIN <<w, w>> |-> pieces(vocab, <<w, w>>[i])]
<1>1. p \in Seq(X)
  BY PiecesAre
<1>2. s = <<p, p>> /\ Len(s) = 2 /\ s[1] = p /\ s[2] = p
  <2>1. DOMAIN <<w, w>> = 1 .. 2 /\ <<w, w>>[1] = w /\ <<w, w>>[2] = w
    OBVIOUS
  <2>2. s = [i \in 1 .. 2 |-> p]
    <3>1. \A i \in 1 .. 2 : <<w, w>>[i] = w
      BY SMT
    <3> QED BY <2>1, <3>1
  <2> HIDE DEF p, s
  <2> QED BY <2>2
<1> HIDE DEF p, X
<1>3. FlattenSeq(s) = p \o p
  <2> HIDE DEF s
  <2>1. JoinsTo(<<p>>, p)
    BY FirstJoins
  <2>2. JoinsTo(s, p \o p)
    <3>1. /\ 1 \in Nat \ {0} /\ Len(<<p>>) = 1 /\ Len(s) = 1 + 1
          /\ (\A i \in 1 .. 1 : s[i] = <<p>>[i]) /\ s[1 + 1] = p
      BY <1>2, SMT
    <3> QED BY <2>1, <3>1, NextJoins
  <2>3. 2 \in Nat \ {0} /\ Len(s) = 2
    BY <1>2
  <2> QED BY <2>2, <2>3, FlattenIs
<1> DEFINE all  == FlattenSeq(s)
           body == IF longest > 2 THEN longest - 2 ELSE 0
           q == IF Len(all) < body THEN Len(all) ELSE body
           part == SubSeq(all, 1, q)
<1>4. all \in Seq(X)
  BY <1>1, <1>3, ConcatProperties
<1>5. encode(vocab, <<w, w>>, longest) = <<Cls>> \o part \o <<Sep>>
  BY Zenon DEF encode
<1> HIDE DEF s, all
<1>6. PICK m \in Nat : m = Len(all)
  BY <1>4
<1>7. q \in Nat /\ q <= m /\ q <= longest - 2
  BY <1>6, SMT
<1> HIDE DEF body, q
<1>8. part \in Seq(X) /\ Len(part) = q
  <2>1. \A i \in 1 .. q : i \in 1 .. m
    BY <1>7, SMT
  <2>2. \A i \in 1 .. q : all[i] \in X
    BY <1>4, <1>6, <2>1, ElementOfSeq
  <2>3. part \in Seq(X) /\ Len(part) = IF 1 <= q THEN q - 1 + 1 ELSE 0
    BY <1>7, <2>2, SubSeqProperties
  <2>4. (IF 1 <= q THEN q - 1 + 1 ELSE 0) = q
    BY <1>7, SMT
  <2> HIDE DEF part
  <2> QED BY <2>3, <2>4
<1> HIDE DEF part
<1> DEFINE Y == X \cup {Cls, Sep}
           head == <<Cls>> \o part
<1>9. part \in Seq(Y) /\ <<Cls>> \in Seq(Y) /\ <<Sep>> \in Seq(Y) /\ Len(<<Cls>>) = 1
      /\ Len(<<Sep>>) = 1
  <2>1. part \in Seq(Y)
    <3>1. X \subseteq Y
      BY Zenon
    <3> QED BY <1>8, <3>1, SeqMonotonic, Zenon
  <2> QED BY <2>1
<1> HIDE DEF Y
<1>10. head \in Seq(Y) /\ Len(head) = 1 + q
  BY <1>8, <1>9, ConcatProperties
<1> HIDE DEF head
<1>11. Len(head \o <<Sep>>) = 1 + q + 1
  BY <1>9, <1>10, ConcatProperties
<1>12. 1 + q + 1 <= longest
  BY <1>7, SMT
<1> QED BY <1>5, <1>11, <1>12 DEF head

(* A word and a word match when one edit makes one of the other, and only  *)
(* then; the pieces of a word are its letters; and what the model is given *)
(* fits it.  This is for words of any letters and any length, with any     *)
(* vocabulary: text.rs:224 and wordpiece.rs:41.                            *)
THEOREM WordsAreMatched ==
  ASSUME word \in Seq(Letters)
  PROVE  WordsMatch
<1> SUFFICES ASSUME word # <<>>
             PROVE  /\ \A other \in OtherWords : OneEditIsOneEdit(word, other, Letters)
                    /\ \A longest \in 0 .. MaxPositions :
                         PiecesAreTheWord(Vocabulary, word, longest)
  BY Zenon DEF WordsMatch
<1>1. PICK w \in Seq(Letters) : w = word
  BY Zenon
<1>2. \A other \in OtherWords : OneEditIsOneEdit(w, other, Letters)
  <2>1. \A other \in OtherWords : other \in Seq(Letters)
    BY WordsAssumption, Zenon
  <2> QED BY <2>1, ComparesOneEdit, Zenon
<1>3. ASSUME NEW longest \in 0 .. MaxPositions
      PROVE  PiecesAreTheWord(Vocabulary, w, longest)
  <2>1. longest \in Nat
    BY WordsAssumption, SMT
  <2>2. longest >= 2 => Len(encode(Vocabulary, <<w, w>>, longest)) <= longest
    BY <2>1, EncodeFits
  <2>3. pieces(Vocabulary, w) # <<Unk>> =>
          /\ FlattenSeq(pieces(Vocabulary, w)) = w
          /\ \A k \in DOMAIN pieces(Vocabulary, w) :
               Known(Vocabulary, k, pieces(Vocabulary, w)[k])
    BY PiecesAre
  <2> QED BY <2>2, <2>3, Zenon DEF PiecesAreTheWord
<1> QED BY <1>1, <1>2, <1>3, Zenon

-----------------------------------------------------------------------------
(* What the first numbers of a series add up to.                           *)
SumsOf(t, n, f) ==
  /\ f \in [0 .. n -> Nat] /\ f[0] = 0
  /\ \A i \in 1 .. n : f[i] = f[i - 1] + t[i]

(* Every series has its sums.                                              *)
LEMMA SumsExist ==
  ASSUME NEW t, NEW n \in Nat, \A i \in 1 .. n : t[i] \in Nat
  PROVE  \E f : SumsOf(t, n, f)
<1> DEFINE Can(m) == \E f : SumsOf(t, m, f)
           None   == {m \in 0 .. n : ~Can(m)}
<1> SUFFICES ASSUME None # {} PROVE FALSE
  <2>1. n \in 0 .. n
    BY SMT
  <2> QED BY <2>1, Zenon
<1>1. PICK m \in None : \A y \in None : ~(y < m)
  <2>1. None \in SUBSET Nat
    BY SMT
  <2> HIDE DEF None
  <2> QED BY <2>1, LeastExists
<1>2. m \in 0 .. n /\ ~Can(m)
  BY <1>1, Zenon
<1>3. m # 0
  <2> SUFFICES ASSUME m = 0 PROVE FALSE
    BY Zenon
  <2> DEFINE f == [i \in 0 .. 0 |-> 0]
  <2>1. f \in [0 .. 0 -> Nat] /\ f[0] = 0 /\ \A i \in 1 .. 0 : f[i] = f[i - 1] + t[i]
    BY SMT
  <2> HIDE DEF f
  <2> QED BY <1>2, <2>1, Zenon DEF SumsOf
<1>4. m - 1 \in 0 .. n /\ m - 1 < m /\ m \in 1 .. n /\ m \in Nat
  BY <1>2, <1>3, SMT
<1>5. PICK h : SumsOf(t, m - 1, h)
  BY <1>1, <1>4, Zenon
<1>6. /\ h \in [0 .. m - 1 -> Nat] /\ h[0] = 0
      /\ \A i \in 1 .. m - 1 : h[i] = h[i - 1] + t[i]
  BY <1>5, Zenon DEF SumsOf
<1> DEFINE f == [i \in 0 .. m |-> IF i = m THEN h[m - 1] + t[m] ELSE h[i]]
<1>7. h[m - 1] + t[m] \in Nat
  <2>1. m - 1 \in 0 .. m - 1
    BY <1>4, SMT
  <2>2. h[m - 1] \in Nat /\ t[m] \in Nat
    BY <1>4, <1>6, <2>1, Zenon
  <2> QED BY <2>2, SMT
<1>8. f \in [0 .. m -> Nat]
  <2> SUFFICES ASSUME NEW i \in 0 .. m
               PROVE  (IF i = m THEN h[m - 1] + t[m] ELSE h[i]) \in Nat
    BY Zenon
  <2>1. i # m => i \in 0 .. m - 1
    BY <1>4, SMT
  <2> QED BY <1>6, <1>7, <2>1, Zenon
<1>9. f[m] = h[m - 1] + t[m] /\ \A i \in 0 .. m - 1 : f[i] = h[i]
  <2>1. m \in 0 .. m
    BY <1>4, SMT
  <2>2. \A i \in 0 .. m - 1 : i \in 0 .. m /\ i # m
    BY <1>4, SMT
  <2> QED BY <2>1, <2>2, Zenon
<1> HIDE DEF f
<1>10. f[0] = 0
  <2>1. 0 \in 0 .. m - 1
    BY <1>4, SMT
  <2> QED BY <1>6, <1>9, <2>1, Zenon
<1>11. \A i \in 1 .. m : f[i] = f[i - 1] + t[i]
  <2> TAKE i \in 1 .. m
  <2>1. CASE i = m
    <3>1. m - 1 \in 0 .. m - 1
      BY <1>4, SMT
    <3> QED BY <1>9, <2>1, <3>1, Zenon
  <2>2. CASE i # m
    <3>1. i \in 1 .. m - 1 /\ i \in 0 .. m - 1 /\ i - 1 \in 0 .. m - 1
      BY <1>4, <2>2, SMT
    <3> QED BY <1>6, <1>9, <3>1, Zenon
  <2> QED BY <2>1, <2>2
<1>12. SumsOf(t, m, f)
  BY <1>8, <1>10, <1>11, Zenon DEF SumsOf
<1> QED BY <1>2, <1>12, Zenon

(* Sum computes the last of them.                                          *)
LEMMA SumIs ==
  ASSUME NEW s, NEW n \in Nat, Len(s) = n, NEW f, SumsOf(s, n, f)
  PROVE  Sum(s) = f[n]
<1> DEFINE T(g) == g = [i \in 0 .. Len(s) |-> IF i = 0 THEN 0 ELSE g[i - 1] + s[i]]
           h == CHOOSE g : T(g)
<1>1. Sum(s) = h[Len(s)]
  BY Zenon DEF Sum
<1>2. /\ f \in [0 .. n -> Nat] /\ f[0] = 0
      /\ \A i \in 1 .. n : f[i] = f[i - 1] + s[i]
  BY Zenon DEF SumsOf
<1>3. \A i \in 0 .. n : f[i] = IF i = 0 THEN 0 ELSE f[i - 1] + s[i]
  <2> TAKE i \in 0 .. n
  <2>1. i # 0 => i \in 1 .. n
    BY SMT
  <2> QED BY <1>2, <2>1, Zenon
<1>4. T(f)
  <2>1. f = [i \in 0 .. n |-> f[i]]
    BY <1>2, Zenon
  <2> QED BY <1>3, <2>1, Zenon
<1>5. T(h)
  <2> HIDE DEF T
  <2> QED BY <1>4
<1> HIDE DEF h
<1>6. \A i \in 0 .. n : h[i] = IF i = 0 THEN 0 ELSE h[i - 1] + s[i]
  BY <1>5, Zenon
<1>7. \A i \in 0 .. n : h[i] = f[i]
  <2> DEFINE Wrong == {i \in 0 .. n : h[i] # f[i]}
  <2> SUFFICES ASSUME Wrong # {} PROVE FALSE
    BY Zenon
  <2>1. Wrong \in SUBSET Nat
    BY SMT
  <2>2. PICK x \in Wrong : \A y \in Wrong : ~(y < x)
    <3> HIDE DEF Wrong
    <3> QED BY <2>1, LeastExists
  <2>3. x \in 0 .. n /\ h[x] # f[x]
    BY <2>2, Zenon
  <2>4. x # 0
    BY <1>3, <1>6, <2>3, Zenon
  <2>5. x - 1 \in 0 .. n /\ x - 1 < x
    BY <2>3, <2>4, SMT
  <2>6. h[x - 1] = f[x - 1]
    BY <2>2, <2>5, Zenon
  <2> QED BY <1>3, <1>6, <2>3, <2>4, <2>6, Zenon
<1>8. n \in 0 .. n
  BY SMT
<1> QED BY <1>1, <1>7, <1>8, Zenon

(* More numbers do not add up to less.                                     *)
LEMMA SumsGrow ==
  ASSUME NEW t, NEW n \in Nat, \A i \in 1 .. n : t[i] \in Nat, NEW f, SumsOf(t, n, f),
         NEW a \in 0 .. n
  PROVE  \A b \in a .. n : f[a] <= f[b]
<1>1. /\ f \in [0 .. n -> Nat] /\ f[0] = 0
      /\ \A i \in 1 .. n : f[i] = f[i - 1] + t[i]
  BY Zenon DEF SumsOf
<1> DEFINE Wrong == {b \in a .. n : ~(f[a] <= f[b])}
<1> SUFFICES ASSUME Wrong # {} PROVE FALSE
  BY Zenon
<1>2. Wrong \in SUBSET Nat
  BY SMT
<1>3. PICK b \in Wrong : \A y \in Wrong : ~(y < b)
  <2> HIDE DEF Wrong
  <2> QED BY <1>2, LeastExists
<1>4. b \in a .. n /\ ~(f[a] <= f[b])
  BY <1>3, Zenon
<1>5. f[a] \in Nat
  BY <1>1, Zenon
<1>6. b # a
  BY <1>4, <1>5, SMT
<1>7. b - 1 \in a .. n /\ b - 1 < b /\ b \in 1 .. n /\ b - 1 \in 0 .. n
  BY <1>4, <1>6, SMT
<1>8. f[a] <= f[b - 1]
  BY <1>3, <1>7, Zenon
<1>9. f[b] = f[b - 1] + t[b] /\ f[b - 1] \in Nat /\ t[b] \in Nat
  BY <1>1, <1>7, Zenon
<1> QED BY <1>4, <1>5, <1>8, <1>9, SMT

(* Nothing adds up to nothing.                                             *)
LEMMA NothingAdded ==
  ASSUME NEW t, NEW n \in Nat, NEW f, SumsOf(t, n, f), NEW k \in 0 .. n,
         \A i \in 1 .. k : t[i] = 0
  PROVE  f[k] = 0
<1>1. /\ f \in [0 .. n -> Nat] /\ f[0] = 0
      /\ \A i \in 1 .. n : f[i] = f[i - 1] + t[i]
  BY Zenon DEF SumsOf
<1> DEFINE Wrong == {b \in 0 .. k : f[b] # 0}
<1> SUFFICES ASSUME Wrong # {} PROVE FALSE
  <2>1. k \in 0 .. k
    BY SMT
  <2> QED BY <2>1, Zenon
<1>2. Wrong \in SUBSET Nat
  BY SMT
<1>3. PICK b \in Wrong : \A y \in Wrong : ~(y < b)
  <2> HIDE DEF Wrong
  <2> QED BY <1>2, LeastExists
<1>4. b \in 0 .. k /\ f[b] # 0
  BY <1>3, Zenon
<1>5. b # 0
  BY <1>1, <1>4, Zenon
<1>6. b - 1 \in 0 .. k /\ b - 1 < b /\ b \in 1 .. n /\ b \in 1 .. k
  BY <1>4, <1>5, SMT
<1>7. f[b - 1] = 0
  BY <1>3, <1>6, Zenon
<1>8. f[b] = f[b - 1] + t[b] /\ t[b] = 0
  BY <1>1, <1>6, Zenon
<1> QED BY <1>4, <1>7, <1>8, SMT

(* A part of a series adds up to the difference.                           *)
LEMMA PartSum ==
  ASSUME NEW s \in Seq(Nat), NEW n \in Nat, Len(s) = n, NEW f, SumsOf(s, n, f),
         NEW a \in 0 .. n, NEW b \in a .. n
  PROVE  Sum(SubSeq(s, a + 1, b)) = f[b] - f[a] /\ f[b] - f[a] \in Nat
<1>1. /\ f \in [0 .. n -> Nat] /\ f[0] = 0
      /\ \A i \in 1 .. n : f[i] = f[i - 1] + s[i]
  BY Zenon DEF SumsOf
<1>2. \A i \in 1 .. n : s[i] \in Nat
  BY ElementOfSeq
<1>3. \A c \in a .. n : f[a] <= f[c]
  BY <1>2, SumsGrow
<1> DEFINE m    == b - a
           part == SubSeq(s, a + 1, b)
           g    == [i \in 0 .. m |-> f[a + i] - f[a]]
<1>4. m \in Nat
  BY SMT
<1>5. Len(part) = m /\ \A i \in 1 .. m : part[i] = s[a + i]
  <2>1. a + 1 \in Int /\ b \in Int /\ \A i \in a + 1 .. b : i \in 1 .. n
    BY SMT
  <2>2. \A i \in a + 1 .. b : s[i] \in Nat
    BY <1>2, <2>1, Zenon
  <2>3. /\ Len(part) = IF a + 1 <= b THEN b - (a + 1) + 1 ELSE 0
        /\ \A i \in 1 .. b - (a + 1) + 1 : part[i] = s[a + 1 + i - 1]
    BY <2>1, <2>2, SubSeqProperties
  <2>4. /\ (IF a + 1 <= b THEN b - (a + 1) + 1 ELSE 0) = m /\ b - (a + 1) + 1 = m
        /\ \A i \in 1 .. m : a + 1 + i - 1 = a + i
    BY SMT
  <2> HIDE DEF part, m
  <2> QED BY <2>3, <2>4
<1> HIDE DEF part
<1>6. \A i \in 0 .. m : /\ a + i \in a .. n /\ a + i \in 0 .. n
                        /\ i # 0 => /\ a + i \in 1 .. n /\ a + (i - 1) = (a + i) - 1
                                    /\ i - 1 \in 0 .. m /\ i \in 1 .. m
  BY SMT
<1> HIDE DEF m
<1>7. \A i \in 0 .. m : f[a + i] \in Nat /\ f[a] <= f[a + i] /\ f[a] \in Nat
  <2>1. a \in 0 .. n
    OBVIOUS
  <2> QED BY <1>1, <1>3, <1>6, <2>1, Zenon
<1>8. g \in [0 .. m -> Nat]
  <2>1. \A i \in 0 .. m : f[a + i] - f[a] \in Nat
    <3> TAKE i \in 0 .. m
    <3>1. f[a + i] \in Nat /\ f[a] <= f[a + i] /\ f[a] \in Nat
      BY <1>7, Zenon
    <3> QED BY <3>1, SMT
  <2> QED BY <2>1, Zenon
<1>9. \A i \in 0 .. m : g[i] = f[a + i] - f[a]
  BY Zenon
<1> HIDE DEF g
<1>10. g[0] = 0
  <2>1. 0 \in 0 .. m /\ a + 0 = a
    BY <1>4, SMT
  <2>2. g[0] = f[a] - f[a] /\ f[a] \in Nat
    BY <1>7, <1>9, <2>1, Zenon
  <2> QED BY <2>2, SMT
<1>11. ASSUME NEW i \in 1 .. m PROVE g[i] = g[i - 1] + part[i]
  <2>1. i \in 0 .. m /\ i # 0
    BY <1>4, SMT
  <2>2. /\ a + i \in 1 .. n /\ a + (i - 1) = (a + i) - 1 /\ i - 1 \in 0 .. m
    BY <1>6, <2>1, Zenon
  <2>3. f[a + i] = f[(a + i) - 1] + s[a + i]
    <3>1. a + i \in 1 .. n
      BY <2>2, Zenon
    <3>2. \A j \in 1 .. n : f[j] = f[j - 1] + s[j]
      BY <1>1, Zenon
    <3> QED BY <3>1, <3>2, Zenon
  <2>4. g[i] = f[a + i] - f[a] /\ g[i - 1] = f[(a + i) - 1] - f[a]
    BY <1>9, <2>1, <2>2, Zenon
  <2>5. f[a + i] \in Nat /\ f[(a + i) - 1] \in Nat /\ f[a] \in Nat
    BY <1>7, <2>1, <2>2, Zenon
  <2>6. s[a + i] \in Nat /\ part[i] = s[a + i]
    BY <1>2, <1>5, <2>2, Zenon
  <2> QED BY <2>3, <2>4, <2>5, <2>6, SMT
<1>12. SumsOf(part, m, g)
  BY <1>8, <1>10, <1>11, Zenon DEF SumsOf
<1>13. Sum(part) = g[m]
  BY <1>4, <1>5, <1>12, SumIs
<1>14. m \in 0 .. m /\ a + m = b
  BY <1>4, SMT DEF m
<1>15. g[m] = f[b] - f[a] /\ g[m] \in Nat
  BY <1>8, <1>9, <1>14, Zenon
<1> QED BY <1>13, <1>15 DEF part

-----------------------------------------------------------------------------
(* A product grows with its factors.                                       *)
LEMMA ProductGrows ==
  ASSUME NEW a \in Nat, NEW b \in Nat, NEW n \in Nat, a <= b
  PROVE  a * n <= b * n /\ a * n \in Nat /\ b * n \in Nat
<1>1. PICK c \in Nat : b = a + c
  <2>1. b - a \in Nat /\ b = a + (b - a)
    BY SMT
  <2> QED BY <2>1
<1>2. b * n = a * n + c * n
  BY <1>1, SMT
<1>3. a * n \in Nat /\ c * n \in Nat
  BY SMT
<1> QED BY <1>2, <1>3, SMT

(* What a quotient is.                                                     *)
LEMMA QuotientIs ==
  ASSUME NEW x \in Nat, NEW d \in Nat \ {0}
  PROVE  /\ x \div d \in Nat
         /\ d * (x \div d) <= x /\ x < d * (x \div d) + d
<1>1. PICK q \in Int, r \in Int : q = x \div d /\ r = x % d
  BY SMT
<1>2. x = d * q + r /\ r \in 0 .. d - 1
  BY <1>1, SMT
<1>3. q >= 0
  <2> SUFFICES ASSUME q < 0 PROVE FALSE
    BY <1>1, SMT
  <2>1. PICK e \in Nat : q = 0 - 1 - e
    <3>1. 0 - 1 - q \in Nat
      BY SMT
    <3> QED BY <3>1
  <2>2. d * q = 0 - d - d * e /\ d * e \in Nat
    BY <2>1, SMT
  <2> QED BY <1>2, <2>2, SMT
<1> QED BY <1>1, <1>2, <1>3, SMT

(* It is the only number there.                                            *)
LEMMA QuotientFits ==
  ASSUME NEW x \in Nat, NEW d \in Nat \ {0}, NEW q \in Nat, d * q <= x, NEW y \in Nat, x <= y
  PROVE  q <= y \div d
<1>1. PICK p \in Nat : p = y \div d /\ y < d * p + d
  BY QuotientIs
<1> SUFFICES ASSUME p < q PROVE FALSE
  BY <1>1, SMT
<1>2. p + 1 <= q /\ p + 1 \in Nat
  BY SMT
<1>3. (p + 1) * d <= q * d
  BY <1>2, ProductGrows
<1>4. (p + 1) * d = d * p + d /\ q * d = d * q /\ d * p \in Nat /\ d * q \in Nat
  BY SMT
<1> QED BY <1>1, <1>3, <1>4, SMT

(* Quotients grow too.                                                     *)
LEMMA QuotientGrows ==
  ASSUME NEW x \in Nat, NEW y \in Nat, NEW d \in Nat \ {0}, x <= y
  PROVE  x \div d <= y \div d
<1>1. PICK q \in Nat : q = x \div d /\ d * q <= x
  BY QuotientIs
<1> QED BY <1>1, QuotientFits

(* Where the buckets end: in order, and the last at the end.               *)
LEMMA BucketEnds ==
  ASSUME NEW n \in Nat, NEW nbins \in Nat \ {0}
  PROVE  /\ (0 * n) \div nbins = 0 /\ (nbins * n) \div nbins = n
         /\ \A i \in 1 .. nbins :
              /\ ((i - 1) * n) \div nbins \in 0 .. n
              /\ (i * n) \div nbins \in ((i - 1) * n) \div nbins .. n
<1>1. (0 * n) \div nbins = 0
  <2>1. 0 * n = 0
    BY SMT
  <2>2. PICK q \in Nat : q = 0 \div nbins /\ nbins * q <= 0
    BY QuotientIs
  <2>3. q = 0
    <3> SUFFICES ASSUME 1 <= q PROVE FALSE
      BY <2>2, SMT
    <3>1. 1 * nbins <= q * nbins /\ q * nbins = nbins * q
      BY ProductGrows, SMT
    <3> QED BY <2>2, <3>1, SMT
  <2> QED BY <2>1, <2>2, <2>3
<1>2. (nbins * n) \div nbins = n
  <2>1. nbins * n \in Nat
    BY SMT
  <2>2. PICK q \in Nat : q = (nbins * n) \div nbins /\ nbins * q <= nbins * n
    BY <2>1, QuotientIs
  <2>3. n <= q
    BY <2>1, <2>2, QuotientFits
  <2>4. q <= n
    <3> SUFFICES ASSUME n + 1 <= q PROVE FALSE
      BY SMT
    <3>1. (n + 1) * nbins <= q * nbins
      BY ProductGrows
    <3>2. (n + 1) * nbins = nbins * n + nbins /\ q * nbins = nbins * q
      BY SMT
    <3>3. nbins * q \in Nat
      BY SMT
    <3> QED BY <2>1, <2>2, <3>1, <3>2, <3>3, SMT
  <2> QED BY <2>2, <2>3, <2>4, SMT
<1>3. ASSUME NEW i \in 0 .. nbins
      PROVE  i * n \in Nat /\ i * n <= nbins * n /\ (i * n) \div nbins \in 0 .. n
  <2>1. i * n \in Nat /\ nbins * n \in Nat /\ i * n <= nbins * n
    BY ProductGrows
  <2>2. (i * n) \div nbins <= (nbins * n) \div nbins
    BY <2>1, QuotientGrows
  <2>3. (i * n) \div nbins \in Nat
    BY <2>1, QuotientIs
  <2>4. (i * n) \div nbins <= n
    BY <1>2, <2>2, Zenon
  <2> QED BY <2>1, <2>3, <2>4, SMT
<1>4. ASSUME NEW i \in 1 .. nbins
      PROVE  ((i - 1) * n) \div nbins <= (i * n) \div nbins
  <2>1. i - 1 \in 0 .. nbins /\ i \in 0 .. nbins /\ i - 1 <= i /\ i - 1 \in Nat /\ i \in Nat
    BY SMT
  <2>2. (i - 1) * n <= i * n
    BY <2>1, ProductGrows
  <2>3. (i - 1) * n \in Nat /\ i * n \in Nat
    BY <1>3, <2>1
  <2> QED BY <2>2, <2>3, QuotientGrows
<1>5. ASSUME NEW i \in 1 .. nbins
      PROVE  /\ ((i - 1) * n) \div nbins \in 0 .. n
             /\ (i * n) \div nbins \in ((i - 1) * n) \div nbins .. n
  <2>1. i - 1 \in 0 .. nbins /\ i \in 0 .. nbins
    BY SMT
  <2>2. PICK p : p = ((i - 1) * n) \div nbins
    OBVIOUS
  <2>3. PICK q : q = (i * n) \div nbins
    OBVIOUS
  <2>4. p \in 0 .. n
    BY <1>3, <2>1, <2>2, Zenon
  <2>5. q \in 0 .. n
    BY <1>3, <2>1, <2>3, Zenon
  <2>6. p <= q
    BY <1>4, <2>2, <2>3, Zenon
  <2>7. q \in p .. n
    BY <2>4, <2>5, <2>6, SMT
  <2> QED BY <2>2, <2>3, <2>4, <2>7
<1> QED BY <1>1, <1>2, <1>5

(* The buckets hold what the days do, and no more of them than there is    *)
(* room for.                                                               *)
LEMMA BucketsAdd ==
  ASSUME NEW vals \in Seq(Nat), NEW nbins \in Nat \ {0}
  PROVE  /\ bucketize(vals, nbins) \in Seq(Nat) /\ Len(bucketize(vals, nbins)) <= nbins
         /\ Sum(bucketize(vals, nbins)) = Sum(vals)
<1>1. PICK n \in Nat : n = Len(vals)
  OBVIOUS
<1>2. CASE n <= nbins
  <2>1. bucketize(vals, nbins) = vals
    BY <1>1, <1>2 DEF bucketize
  <2> QED BY <1>1, <1>2, <2>1
<1>3. CASE ~(n <= nbins)
  <2> DEFINE End(i)  == (i * n) \div nbins
             buckets == [i \in 1 .. nbins |-> Sum(SubSeq(vals, End(i - 1) + 1, End(i)))]
  <2>1. bucketize(vals, nbins) = buckets
    BY <1>1, <1>3, Zenon DEF bucketize
  <2>2. /\ End(0) = 0 /\ End(nbins) = n
        /\ \A i \in 1 .. nbins : End(i - 1) \in 0 .. n /\ End(i) \in End(i - 1) .. n
    BY BucketEnds
  <2> HIDE DEF End
  <2>3. \A i \in 1 .. n : vals[i] \in Nat
    BY <1>1, ElementOfSeq
  <2>4. PICK f : SumsOf(vals, n, f)
    BY <2>3, SumsExist
  <2>5. f \in [0 .. n -> Nat] /\ f[0] = 0
    BY <2>4, Zenon DEF SumsOf
  <2>6. \A i \in 1 .. nbins :
          /\ Sum(SubSeq(vals, End(i - 1) + 1, End(i))) = f[End(i)] - f[End(i - 1)]
          /\ f[End(i)] - f[End(i - 1)] \in Nat
    <3> TAKE i \in 1 .. nbins
    <3>1. PICK a \in 0 .. n : a = End(i - 1)
      BY <2>2, Zenon
    <3>2. PICK b \in a .. n : b = End(i)
      BY <2>2, <3>1, Zenon
    <3>3. Sum(SubSeq(vals, a + 1, b)) = f[b] - f[a] /\ f[b] - f[a] \in Nat
      BY <1>1, <2>4, PartSum
    <3> QED BY <3>1, <3>2, <3>3, Zenon
  <2>7. buckets \in [1 .. nbins -> Nat] /\ \A i \in 1 .. nbins :
                                             buckets[i] = f[End(i)] - f[End(i - 1)]
    BY <2>6, Zenon
  <2> HIDE DEF buckets
  <2>8. buckets \in Seq(Nat) /\ Len(buckets) = nbins
    BY <2>7
  <2> DEFINE g == [i \in 0 .. nbins |-> f[End(i)]]
  <2>9. \A i \in 0 .. nbins : End(i) \in 0 .. n
    <3> TAKE i \in 0 .. nbins
    <3>1. CASE i = 0
      <4>1. 0 \in 0 .. n
        BY SMT
      <4> QED BY <2>2, <3>1, <4>1, Zenon
    <3>2. CASE i # 0
      <4>1. i \in 1 .. nbins
        BY <3>2, SMT
      <4>2. PICK a \in 0 .. n : a = End(i - 1)
        BY <2>2, <4>1, Zenon
      <4>3. PICK b \in a .. n : b = End(i)
        BY <2>2, <4>1, <4>2, Zenon
      <4>4. b \in 0 .. n
        BY SMT
      <4> QED BY <4>3, <4>4
    <3> QED BY <3>1, <3>2
  <2>10. g \in [0 .. nbins -> Nat]
    <3>1. \A i \in 0 .. nbins : f[End(i)] \in Nat
      BY <2>5, <2>9, Zenon
    <3> QED BY <3>1, Zenon
  <2>11. \A i \in 0 .. nbins : g[i] = f[End(i)]
    BY Zenon
  <2> HIDE DEF g
  <2>12. 0 \in 0 .. nbins /\ nbins \in 0 .. nbins
    BY SMT
  <2>13. g[0] = 0 /\ g[nbins] = f[n]
    BY <2>2, <2>5, <2>11, <2>12, Zenon
  <2>14. ASSUME NEW i \in 1 .. nbins PROVE g[i] = g[i - 1] + buckets[i]
    <3>1. i \in 0 .. nbins /\ i - 1 \in 0 .. nbins
      BY SMT
    <3>2. g[i] = f[End(i)] /\ g[i - 1] = f[End(i - 1)]
      BY <2>11, <3>1, Zenon
    <3>3. g[i] \in Nat /\ g[i - 1] \in Nat
      BY <2>10, <3>1, Zenon
    <3>4. buckets[i] = g[i] - g[i - 1]
      BY <2>7, <3>2, Zenon
    <3> QED BY <3>3, <3>4, SMT
  <2>15. SumsOf(buckets, nbins, g)
    BY <2>10, <2>13, <2>14, Zenon DEF SumsOf
  <2>16. Sum(buckets) = g[nbins]
    BY <2>8, <2>15, SumIs
  <2>17. Sum(vals) = f[n]
    BY <1>1, <2>4, SumIs
  <2> QED BY <2>1, <2>8, <2>13, <2>16, <2>17
<1> QED BY <1>2, <1>3

-----------------------------------------------------------------------------
(* A line of days from the one to the last of some, with the counts that    *)
(* they have.                                                              *)
Lines(line, n, from, m, D, C) ==
  /\ D \in [1 .. m -> Int] /\ C \in [1 .. m -> Nat \ {0}]
  /\ \A i, j \in 1 .. m : i < j => D[i] < D[j]
  /\ n = (D[m] - from) + 1
  /\ \A k \in 1 .. n : line[k] \in Nat
  /\ \A k \in 1 .. n : \A i \in 1 .. m : D[i] = from + (k - 1) => line[k] = C[i]
  /\ \A k \in 1 .. n : (\A i \in 1 .. m : D[i] # from + (k - 1)) => line[k] = 0

(* It adds up to what the counts of its days do.                           *)
LEMMA LineAdds ==
  ASSUME NEW m \in Nat \ {0}, NEW D, NEW C, NEW from \in Int, NEW n \in Nat, NEW line,
         Lines(line, n, from, m, D, C),
         NEW t, \A i \in 1 .. m : t[i] = IF D[i] >= from THEN C[i] ELSE 0,
         NEW P, SumsOf(line, n, P), NEW F, SumsOf(t, m, F)
  PROVE  P[n] = F[m]
<1>1. /\ D \in [1 .. m -> Int] /\ C \in [1 .. m -> Nat \ {0}]
      /\ \A i, j \in 1 .. m : i < j => D[i] < D[j]
  BY Zenon DEF Lines
<1>2. /\ n = (D[m] - from) + 1
      /\ \A k \in 1 .. n : line[k] \in Nat
      /\ \A k \in 1 .. n : \A i \in 1 .. m : D[i] = from + (k - 1) => line[k] = C[i]
      /\ \A k \in 1 .. n : (\A i \in 1 .. m : D[i] # from + (k - 1)) => line[k] = 0
  BY Zenon DEF Lines
<1> DEFINE Cut(k, j) == \A i \in 1 .. m : i <= j <=> D[i] < from + k
           Wrong == {k \in 0 .. n : \E j \in 0 .. m : Cut(k, j) /\ P[k] # F[j]}
<1>3. /\ P \in [0 .. n -> Nat] /\ P[0] = 0
      /\ \A i \in 1 .. n : P[i] = P[i - 1] + line[i]
  BY Zenon DEF SumsOf
<1>4. /\ F \in [0 .. m -> Nat] /\ F[0] = 0
      /\ \A i \in 1 .. m : F[i] = F[i - 1] + t[i]
  BY Zenon DEF SumsOf
<1>5. Wrong = {}
  <2> SUFFICES ASSUME Wrong # {} PROVE FALSE
    BY Zenon
  <2>1. Wrong \in SUBSET Nat
    BY SMT
  <2>2. PICK k \in Wrong : \A y \in Wrong : ~(y < k)
    <3> HIDE DEF Wrong
    <3> QED BY <2>1, LeastExists
  <2>3. PICK j \in 0 .. m : Cut(k, j) /\ P[k] # F[j]
    BY <2>2, Zenon
  <2>4. k \in 0 .. n
    BY <2>2, Zenon
  <2>5. CASE k = 0
    <3>1. \A i \in 1 .. j : t[i] = 0
      <4> TAKE i \in 1 .. j
      <4>1. i \in 1 .. m /\ i <= j
        BY SMT
      <4>2. D[i] < from + k /\ D[i] \in Int
        BY <1>1, <2>3, <4>1, Zenon
      <4>3. ~(D[i] >= from)
        BY <2>5, <4>2, SMT
      <4> QED BY <4>1, <4>3, Zenon
    <3>2. F[j] = 0
      BY <3>1, NothingAdded
    <3> QED BY <1>3, <2>3, <2>5, <3>2, Zenon
  <2>6. CASE k # 0
    <3>1. k \in 1 .. n /\ k - 1 \in 0 .. n /\ k - 1 < k
      BY <2>4, <2>6, SMT
    <3>2. ASSUME NEW b \in 0 .. m, Cut(k - 1, b) PROVE P[k - 1] = F[b]
      BY <2>2, <3>1, <3>2, Zenon
    <3>3. P[k] = P[k - 1] + line[k] /\ P[k - 1] \in Nat /\ F[j] \in Nat
      BY <1>3, <1>4, <3>1, Zenon
    <3>4. CASE \A i \in 1 .. m : D[i] # from + (k - 1)
      <4>1. line[k] = 0
        BY <1>2, <3>1, <3>4, Zenon
      <4>2. Cut(k - 1, j)
        <5> SUFFICES ASSUME NEW i \in 1 .. m PROVE i <= j <=> D[i] < from + (k - 1)
          BY Zenon
        <5>1. PICK d \in Int : d = D[i]
          BY <1>1, Zenon
        <5>2. (i <= j <=> d < from + k) /\ d # from + (k - 1)
          BY <2>3, <3>4, <5>1, Zenon
        <5>3. d < from + k <=> d < from + (k - 1)
          BY <3>1, <5>2, SMT
        <5> QED BY <5>1, <5>2, <5>3, Zenon
      <4>3. P[k - 1] = F[j]
        BY <3>2, <4>2, Zenon
      <4>4. P[k] = F[j]
        BY <3>3, <4>1, <4>3, SMT
      <4> QED BY <2>3, <4>4, Zenon
    <3>5. CASE \E i \in 1 .. m : D[i] = from + (k - 1)
      <4>1. PICK i \in 1 .. m : D[i] = from + (k - 1)
        BY <3>5, Zenon
      <4>2. i = j
        <5>1. i <= j
          <6>1. D[i] < from + k
            BY <3>1, <4>1, SMT
          <6> QED BY <2>3, <6>1, Zenon
        <5>2. ~(i < j)
          <6> SUFFICES ASSUME i < j PROVE FALSE
            BY Zenon
          <6>1. j \in 1 .. m /\ j <= j
            BY SMT
          <6>2. PICK d \in Int : d = D[j]
            BY <1>1, <6>1, Zenon
          <6>3. from + (k - 1) < d /\ d < from + k
            BY <1>1, <2>3, <4>1, <6>1, <6>2, Zenon
          <6> QED BY <3>1, <6>3, SMT
        <5> QED BY <5>1, <5>2, SMT
      <4>3. j \in 1 .. m /\ j - 1 \in 0 .. m
        BY <4>2, SMT
      <4>4. Cut(k - 1, j - 1)
        <5> SUFFICES ASSUME NEW e \in 1 .. m PROVE e <= j - 1 <=> D[e] < from + (k - 1)
          BY Zenon
        <5>1. PICK d \in Int : d = D[e]
          BY <1>1, Zenon
        <5>2. PICK x \in Int : x = from + (k - 1)
          BY <3>1, SMT
        <5>3. (e < j => d < x) /\ (j < e => x < d) /\ (e = j => d = x)
          BY <1>1, <4>1, <4>2, <4>3, <5>1, <5>2, Zenon
        <5>4. e <= j - 1 <=> d < x
          BY <4>3, <5>3, SMT
        <5> QED BY <5>1, <5>2, <5>4, Zenon
      <4>5. P[k - 1] = F[j - 1]
        BY <3>2, <4>3, <4>4, Zenon
      <4>6. line[k] = C[j] /\ C[j] \in Nat
        BY <1>1, <1>2, <3>1, <4>1, <4>2, Zenon
      <4>7. t[j] = C[j]
        <5>1. D[j] >= from
          BY <3>1, <4>1, <4>2, SMT
        <5> QED BY <4>3, <5>1, Zenon
      <4>8. F[j] = F[j - 1] + t[j]
        BY <1>4, <4>3, Zenon
      <4>9. P[k] = F[j]
        BY <3>3, <4>5, <4>6, <4>7, <4>8, Zenon
      <4> QED BY <2>3, <4>9, Zenon
    <3> QED BY <3>4, <3>5, Zenon
  <2> QED BY <2>5, <2>6, Zenon
<1>6. Cut(n, m)
  <2> SUFFICES ASSUME NEW i \in 1 .. m PROVE i <= m <=> D[i] < from + n
    BY Zenon
  <2>1. m \in 1 .. m /\ i <= m /\ (i < m \/ i = m)
    BY SMT
  <2>2. D[i] \in Int /\ D[m] \in Int /\ (i < m => D[i] < D[m])
    BY <1>1, <2>1, Zenon
  <2>3. i = m => D[i] = D[m]
    BY Zenon
  <2> QED BY <1>2, <2>1, <2>2, <2>3, SMT
<1>7. n \in 0 .. n /\ m \in 0 .. m
  BY SMT
<1> HIDE DEF Cut
<1> QED BY <1>5, <1>6, <1>7, Zenon

-----------------------------------------------------------------------------
(* The days with turns, one after another.                                 *)
InOrder(days) ==
  /\ days \in Seq(Int \X (Nat \ {0}))
  /\ \A i, j \in 1 .. Len(days) : i < j => days[i][1] < days[j][1]

(* A day has its own count, and a day without turns has none.              *)
LEMMA CountIs ==
  ASSUME NEW days, InOrder(days), NEW m \in Nat, m = Len(days), NEW day
  PROVE  /\ \A i \in 1 .. m : days[i][1] = day => CountOn(days, day) = days[i][2]
         /\ (\A i \in 1 .. m : days[i][1] # day) => CountOn(days, day) = 0
<1>1. DOMAIN days = 1 .. m /\ \A i \in 1 .. m : days[i] \in Int \X (Nat \ {0})
  BY ElementOfSeq DEF InOrder
<1>2. \A i \in 1 .. m : days[i][1] \in Int
  BY <1>1
<1>3. \A i, j \in 1 .. m : i < j => days[i][1] < days[j][1]
  BY Zenon DEF InOrder
<1> DEFINE at == CHOOSE i \in DOMAIN days : days[i][1] = day
<1>4. CountOn(days, day) = IF \E i \in DOMAIN days : days[i][1] = day THEN days[at][2] ELSE 0
  BY Zenon DEF CountOn
<1>5. ASSUME NEW i \in 1 .. m, days[i][1] = day PROVE CountOn(days, day) = days[i][2]
  <2>1. at \in 1 .. m /\ days[at][1] = day
    BY <1>1, <1>5, Zenon
  <2> HIDE DEF at
  <2>2. at = i
    <3>1. PICK x \in Int : x = days[i][1] /\ x = days[at][1]
      BY <1>2, <1>5, <2>1, Zenon
    <3>2. (at < i => x < x) /\ (i < at => x < x)
      BY <1>3, <2>1, <3>1, Zenon
    <3> QED BY <2>1, <3>2, SMT
  <2> QED BY <1>1, <1>4, <1>5, <2>2, Zenon
<1> QED BY <1>1, <1>4, <1>5, Zenon

(* The line begins no later than its last day, and it is the first day or  *)
(* the last one that still counts.                                         *)
LEMMA StartIs ==
  ASSUME NEW days, InOrder(days), NEW m \in Nat \ {0}, m = Len(days)
  PROVE  Start(days) \in Int /\ Start(days) <= days[m][1] /\ days[m][1] \in Int
<1>1. 1 \in 1 .. m /\ m \in 1 .. m
  BY SMT
<1>2. days[1] \in Int \X (Nat \ {0}) /\ days[m] \in Int \X (Nat \ {0})
  BY <1>1, ElementOfSeq DEF InOrder
<1>3. PICK a \in Int, b \in Int : a = days[1][1] /\ b = days[m][1]
  BY <1>2
<1>4. 1 < m => a < b
  BY <1>1, <1>3, Zenon DEF InOrder
<1>5. 1 = m => a = b
  BY <1>3, Zenon
<1>6. a <= b
  BY <1>4, <1>5, SMT
<1>7. Start(days) = IF b - a > MaxDays THEN b - MaxDays ELSE a
  BY <1>3, Zenon DEF Start
<1>8. MaxDays \in Nat
  BY Zenon, SeriesAssumption
<1>9. Start(days) \in Int /\ Start(days) <= b
  BY <1>6, <1>7, <1>8, SMT
<1> QED BY <1>3, <1>9

(* The days the line shows, each with its count.                           *)
Recent(days) ==
  [i \in DOMAIN days |-> IF days[i][1] >= Start(days) THEN days[i][2] ELSE 0]

(* The line adds up to what they do, and that is not nothing.              *)
LEMMA DaysAdd ==
  ASSUME NEW days, InOrder(days), days # <<>>
  PROVE  /\ daily_series(days) \in Seq(Nat)
         /\ Sum(daily_series(days)) = Sum(Recent(days)) /\ Sum(Recent(days)) \in Nat \ {0}
<1>1. PICK m \in Nat \ {0} : m = Len(days)
  BY EmptySeq DEF InOrder
<1>2. DOMAIN days = 1 .. m /\ \A i \in 1 .. m : days[i] \in Int \X (Nat \ {0})
  BY <1>1, ElementOfSeq DEF InOrder
<1> DEFINE D == [i \in 1 .. m |-> days[i][1]]
           C == [i \in 1 .. m |-> days[i][2]]
<1>3. D \in [1 .. m -> Int] /\ C \in [1 .. m -> Nat \ {0}]
  BY <1>2
<1>4. \A i \in 1 .. m : D[i] = days[i][1] /\ C[i] = days[i][2]
  BY Zenon
<1> HIDE DEF D, C
<1>5. \A i, j \in 1 .. m : i < j => D[i] < D[j]
  BY <1>1, <1>4, Zenon DEF InOrder
<1>6. m \in 1 .. m
  BY SMT
<1>7. PICK from \in Int : from = Start(days) /\ from <= D[m]
  BY <1>1, <1>4, <1>6, StartIs, Zenon
<1>8. PICK n \in Nat \ {0} : n = (D[m] - from) + 1
  <2>1. PICK d \in Int : d = D[m]
    BY <1>3, <1>6, Zenon
  <2>2. from <= d
    BY <1>7, <2>1, Zenon
  <2>3. (d - from) + 1 \in Nat \ {0}
    BY <2>2, SMT
  <2> QED BY <2>1, <2>3, Zenon
<1> DEFINE line == [k \in 1 .. n |-> CountOn(days, from + (k - 1))]
<1>9. daily_series(days) = line
  <2>1. daily_series(days) = [k \in 1 .. (days[m][1] - from) + 1 |->
                                CountOn(days, from + (k - 1))]
    BY <1>1, <1>7, Zenon DEF daily_series
  <2>2. days[m][1] = D[m]
    BY <1>4, <1>6, Zenon
  <2> QED BY <1>8, <2>1, <2>2, Zenon
<1>10. \A k \in 1 .. n : line[k] = CountOn(days, from + (k - 1))
  BY Zenon
<1>11. line = [k \in 1 .. n |-> line[k]]
  BY Zenon
<1> HIDE DEF line
<1>12. /\ \A k \in 1 .. n : \A i \in 1 .. m : D[i] = from + (k - 1) => line[k] = C[i]
       /\ \A k \in 1 .. n : (\A i \in 1 .. m : D[i] # from + (k - 1)) => line[k] = 0
  <2> SUFFICES ASSUME NEW k \in 1 .. n
               PROVE  /\ \A i \in 1 .. m : D[i] = from + (k - 1) => line[k] = C[i]
                      /\ (\A i \in 1 .. m : D[i] # from + (k - 1)) => line[k] = 0
    BY Zenon
  <2>1. PICK day : day = from + (k - 1)
    BY Zenon
  <2>2. /\ \A i \in 1 .. m : days[i][1] = day => CountOn(days, day) = days[i][2]
        /\ (\A i \in 1 .. m : days[i][1] # day) => CountOn(days, day) = 0
    BY <1>1, CountIs
  <2> QED BY <1>4, <1>10, <2>1, <2>2, Zenon
<1>13. \A k \in 1 .. n : line[k] \in Nat
  <2> TAKE k \in 1 .. n
  <2>1. \A i \in 1 .. m : C[i] \in Nat
    BY <1>3, Zenon
  <2>2. 0 \in Nat
    BY SMT
  <2> QED BY <1>12, <2>1, <2>2, Zenon
<1>14. line \in Seq(Nat) /\ Len(line) = n
  <2>1. line \in [1 .. n -> Nat]
    BY <1>11, <1>13, Zenon
  <2> QED BY <2>1
<1> DEFINE t == Recent(days)
<1>15. t \in Seq(Nat) /\ Len(t) = m
       /\ \A i \in 1 .. m : t[i] = IF D[i] >= from THEN C[i] ELSE 0
  <2> DEFINE r == [i \in 1 .. m |-> IF D[i] >= from THEN C[i] ELSE 0]
  <2>1. t = r
    BY <1>2, <1>4, <1>7, Zenon DEF Recent
  <2>2. r \in [1 .. m -> Nat]
    <3>1. \A i \in 1 .. m : C[i] \in Nat
      BY <1>3, Zenon
    <3>2. 0 \in Nat
      BY SMT
    <3> QED BY <3>1, <3>2, Zenon
  <2>3. \A i \in 1 .. m : r[i] = IF D[i] >= from THEN C[i] ELSE 0
    BY Zenon
  <2> HIDE DEF r
  <2>4. r \in Seq(Nat) /\ Len(r) = m
    BY <2>2
  <2> HIDE DEF t
  <2> QED BY <2>1, <2>3, <2>4, Zenon
<1> HIDE DEF t
<1>16. \A i \in 1 .. m : t[i] \in Nat
  BY <1>15, ElementOfSeq
<1>17. PICK P : SumsOf(line, n, P)
  BY <1>13, SumsExist
<1>18. PICK F : SumsOf(t, m, F)
  BY <1>16, SumsExist
<1>19. P[n] = F[m]
  <2>1. Lines(line, n, from, m, D, C)
    BY <1>3, <1>5, <1>8, <1>12, <1>13, Zenon DEF Lines
  <2>2. \A i \in 1 .. m : t[i] = IF D[i] >= from THEN C[i] ELSE 0
    BY <1>15, Zenon
  <2>3. n \in Nat
    OBVIOUS
  <2> QED BY <1>17, <1>18, <2>1, <2>2, <2>3, LineAdds
<1>20. Sum(line) = P[n] /\ Sum(t) = F[m]
  BY <1>14, <1>15, <1>17, <1>18, SumIs
<1>21. F[m] \in Nat \ {0}
  <2>1. m - 1 \in 0 .. m
    BY SMT
  <2>2. F[m] = F[m - 1] + t[m] /\ F[m - 1] \in Nat
    BY <1>6, <1>18, <2>1, Zenon DEF SumsOf
  <2>3. t[m] = C[m] /\ C[m] \in Nat \ {0}
    <3>1. D[m] >= from
      <4>1. PICK d \in Int : d = D[m]
        BY <1>3, <1>6, Zenon
      <4>2. from <= d
        BY <1>7, <4>1, Zenon
      <4>3. d >= from
        BY <4>2, SMT
      <4> QED BY <4>1, <4>3, Zenon
    <3> QED BY <1>3, <1>6, <1>15, <3>1, Zenon
  <2> QED BY <2>2, <2>3, SMT
<1> QED BY <1>9, <1>14, <1>19, <1>20, <1>21, Zenon DEF t

-----------------------------------------------------------------------------
(* The highest number of a series is one of it, unless there is none.      *)
LEMMA HighestIs ==
  ASSUME NEW s \in Seq(Nat), NEW n \in Nat, n = Len(s)
  PROVE  /\ Highest(s) \in Nat /\ \A i \in 1 .. n : s[i] <= Highest(s)
         /\ Highest(s) = 0 \/ \E i \in 1 .. n : s[i] = Highest(s)
<1>1. DOMAIN s = 1 .. n /\ \A i \in 1 .. n : s[i] \in Nat
  BY ElementOfSeq
<1>2. PICK f : SumsOf(s, n, f)
  BY <1>1, SumsExist
<1>3. /\ f \in [0 .. n -> Nat] /\ f[0] = 0
      /\ \A i \in 1 .. n : f[i] = f[i - 1] + s[i]
  BY <1>2, Zenon DEF SumsOf
<1>4. PICK top \in Nat : top = f[n]
  <2>1. n \in 0 .. n
    BY SMT
  <2> QED BY <1>3, <2>1, Zenon
<1>5. \A i \in 1 .. n : s[i] <= top
  <2> TAKE i \in 1 .. n
  <2>1. i \in 0 .. n /\ n \in i .. n /\ i - 1 \in 0 .. n
    BY SMT
  <2>2. f[i] <= top
    BY <1>1, <1>2, <1>4, <2>1, SumsGrow
  <2>3. f[i] = f[i - 1] + s[i] /\ f[i - 1] \in Nat /\ s[i] \in Nat
    BY <1>1, <1>3, <2>1, Zenon
  <2> QED BY <2>2, <2>3, SMT
<1> DEFINE U    == {0} \cup ToSet(s)
           best == CHOOSE x \in U : \A y \in U : x >= y
<1>6. Highest(s) = best
  BY Zenon DEF Highest, Max
<1>7. U \in SUBSET (0 .. top) /\ U # {}
  <2> SUFFICES ASSUME NEW x \in U PROVE x \in 0 .. top
    BY Zenon
  <2>1. CASE x = 0
    BY <2>1, SMT
  <2>2. CASE x \in ToSet(s)
    <3>1. PICK i \in 1 .. n : x = s[i]
      BY <1>1, <2>2, Zenon DEF ToSet
    <3>2. x \in Nat /\ x <= top
      BY <1>1, <1>5, <3>1, Zenon
    <3> QED BY <3>2, SMT
  <2> QED BY <2>1, <2>2, Zenon
<1>8. best \in U /\ \A y \in U : best >= y
  <2>1. PICK u \in U : \A y \in U : y <= u
    <3> HIDE DEF U
    <3> QED BY <1>7, GreatestExists
  <2>2. \A y \in U : u >= y
    <3> TAKE y \in U
    <3>1. u \in 0 .. top /\ y \in 0 .. top
      BY <1>7, Zenon
    <3>2. y <= u
      BY <2>1, Zenon
    <3> QED BY <3>1, <3>2, SMT
  <2> HIDE DEF U
  <2> QED BY <2>2, Zenon
<1>9. \A i \in 1 .. n : s[i] \in U
  BY <1>1, Zenon DEF ToSet
<1>10. best = 0 \/ \E i \in 1 .. n : s[i] = best
  BY <1>1, <1>8, Zenon DEF ToSet
<1> HIDE DEF U, best
<1>11. best \in 0 .. top
  BY <1>7, <1>8, Zenon
<1>12. \A i \in 1 .. n : s[i] <= best
  <2> TAKE i \in 1 .. n
  <2>1. best >= s[i] /\ s[i] \in Nat
    BY <1>1, <1>8, <1>9, Zenon
  <2> QED BY <1>11, <2>1, SMT
<1>13. best \in Nat
  BY <1>11, SMT
<1> QED BY <1>6, <1>10, <1>12, <1>13, Zenon

(* A bar is empty for nothing only, and full for the highest.              *)
LEMMA BarIs ==
  ASSUME NEW hi \in Nat \ {0}, NEW v \in Nat
  PROVE  bar(v, hi) \in Nat /\ (bar(v, hi) = 0 <=> v = 0) /\ bar(hi, hi) = Top
<1>1. PICK t \in Nat : Top = t + 1 /\ Top - 1 = t
  <2>1. Top \in Nat \ {0}
    BY Zenon, SeriesAssumption
  <2>2. Top - 1 \in Nat /\ Top = (Top - 1) + 1
    BY <2>1, SMT
  <2> QED BY <2>2, Zenon
<1>2. 2 * v * t + hi \in Nat /\ 2 * hi \in Nat \ {0} /\ 2 * hi * t + hi \in Nat
  BY SMT
<1>3. PICK r \in Nat : r = (2 * v * t + hi) \div (2 * hi)
  BY <1>2, QuotientIs
<1>4. bar(v, hi) = IF v <= 0 \/ hi <= 0 THEN 0 ELSE IF 1 + r < Top THEN 1 + r ELSE Top
  BY <1>1, <1>3, Zenon DEF bar
<1>5. bar(v, hi) \in Nat /\ (bar(v, hi) = 0 <=> v = 0)
  BY <1>1, <1>4, SMT
<1>6. PICK q \in Nat : q = (2 * hi * t + hi) \div (2 * hi)
  BY <1>2, QuotientIs
<1>7. t <= q
  <2>1. (2 * hi) * t = 2 * hi * t /\ 2 * hi * t \in Nat
    BY SMT
  <2>2. (2 * hi) * t <= 2 * hi * t + hi
    BY <2>1, SMT
  <2> QED BY <1>2, <1>6, <2>2, QuotientFits
<1>8. bar(hi, hi) = IF hi <= 0 \/ hi <= 0 THEN 0 ELSE IF 1 + q < Top THEN 1 + q ELSE Top
  BY <1>1, <1>6, Zenon DEF bar
<1>9. bar(hi, hi) = Top
  BY <1>1, <1>7, <1>8, SMT
<1> QED BY <1>5, <1>9

(* More turns do not draw a lower bar.                                     *)
LEMMA BarGrows ==
  ASSUME NEW hi \in Nat \ {0}, NEW v \in Nat, NEW w \in Nat, v <= w
  PROVE  bar(v, hi) <= bar(w, hi)
<1>1. PICK t \in Nat : Top = t + 1 /\ Top - 1 = t
  <2>1. Top \in Nat \ {0}
    BY Zenon, SeriesAssumption
  <2>2. Top - 1 \in Nat /\ Top = (Top - 1) + 1
    BY <2>1, SMT
  <2> QED BY <2>2, Zenon
<1>2. 2 * v * t + hi \in Nat /\ 2 * hi \in Nat \ {0} /\ 2 * w * t + hi \in Nat
  BY SMT
<1>3. 2 * v * t + hi <= 2 * w * t + hi
  <2>1. v * (2 * t) <= w * (2 * t) /\ v * (2 * t) \in Nat /\ w * (2 * t) \in Nat
    <3>1. 2 * t \in Nat
      BY SMT
    <3> QED BY <3>1, ProductGrows
  <2>2. 2 * v * t = v * (2 * t) /\ 2 * w * t = w * (2 * t)
    BY SMT
  <2> QED BY <2>1, <2>2, SMT
<1>4. PICK r \in Nat : r = (2 * v * t + hi) \div (2 * hi)
  BY <1>2, QuotientIs
<1>5. PICK q \in Nat : q = (2 * w * t + hi) \div (2 * hi)
  BY <1>2, QuotientIs
<1>6. r <= q
  BY <1>2, <1>3, <1>4, <1>5, QuotientGrows
<1>7. bar(v, hi) = IF v <= 0 \/ hi <= 0 THEN 0 ELSE IF 1 + r < Top THEN 1 + r ELSE Top
  BY <1>1, <1>4, Zenon DEF bar
<1>8. bar(w, hi) = IF w <= 0 \/ hi <= 0 THEN 0 ELSE IF 1 + q < Top THEN 1 + q ELSE Top
  BY <1>1, <1>5, Zenon DEF bar
<1> QED BY <1>1, <1>6, <1>7, <1>8, SMT

(* No turn is lost on its way into the line.                               *)
LEMMA NoneIsLost ==
  ASSUME NEW days, InOrder(days), NEW nbins \in Nat \ {0}
  PROVE  NoTurnLost(days, nbins)
<1> DEFINE line    == daily_series(days)
           buckets == bucketize(line, nbins)
           bars    == sparkline(buckets)
<1> SUFFICES ASSUME days # <<>>
             PROVE  /\ Sum(buckets) = Sum(Recent(days)) /\ Len(buckets) <= nbins
                    /\ \A i \in DOMAIN bars : bars[i] = 0 <=> buckets[i] = 0
                    /\ \A i, j \in DOMAIN bars : buckets[i] > buckets[j] => bars[i] >= bars[j]
                    /\ \E i \in DOMAIN bars : bars[i] = Top
  BY Zenon DEF NoTurnLost, Recent
<1>1. line \in Seq(Nat) /\ Sum(line) = Sum(Recent(days)) /\ Sum(line) \in Nat \ {0}
  BY DaysAdd, Zenon
<1> HIDE DEF line
<1>2. buckets \in Seq(Nat) /\ Len(buckets) <= nbins /\ Sum(buckets) = Sum(line)
  BY <1>1, BucketsAdd
<1> HIDE DEF buckets
<1>3. PICK n \in Nat : n = Len(buckets)
  BY <1>2
<1>4. DOMAIN buckets = 1 .. n /\ \A i \in 1 .. n : buckets[i] \in Nat
  BY <1>2, <1>3, ElementOfSeq
<1>5. PICK hi \in Nat : hi = Highest(buckets) /\ \A i \in 1 .. n : buckets[i] <= hi
  BY <1>2, <1>3, HighestIs
<1>6. hi # 0
  <2> SUFFICES ASSUME hi = 0 PROVE FALSE
    BY Zenon
  <2>1. \A i \in 1 .. n : buckets[i] = 0
    <3> TAKE i \in 1 .. n
    <3>1. buckets[i] \in Nat /\ buckets[i] <= hi
      BY <1>4, <1>5, Zenon
    <3> QED BY <3>1, SMT
  <2>2. PICK f : SumsOf(buckets, n, f)
    BY <1>4, SumsExist
  <2>3. n \in 0 .. n
    BY SMT
  <2>4. f[n] = 0
    BY <2>1, <2>2, <2>3, NothingAdded
  <2>5. Sum(buckets) = f[n]
    BY <1>2, <1>3, <2>2, SumIs
  <2> QED BY <1>1, <1>2, <2>4, <2>5, Zenon
<1>7. hi \in Nat \ {0}
  BY <1>6, Zenon
<1>8. DOMAIN bars = 1 .. n /\ \A i \in 1 .. n : bars[i] = bar(buckets[i], hi)
  BY <1>4, <1>5, Zenon DEF sparkline
<1> HIDE DEF bars
<1>9. ASSUME NEW i \in 1 .. n PROVE bars[i] \in Nat /\ (bars[i] = 0 <=> buckets[i] = 0)
  <2>1. PICK v \in Nat : v = buckets[i]
    BY <1>4, Zenon
  <2>2. bar(v, hi) \in Nat /\ (bar(v, hi) = 0 <=> v = 0)
    BY <1>7, BarIs
  <2> QED BY <1>8, <2>1, <2>2, Zenon
<1>10. ASSUME NEW i \in 1 .. n, NEW j \in 1 .. n, buckets[i] > buckets[j]
       PROVE  bars[i] >= bars[j]
  <2>1. PICK v \in Nat, w \in Nat : v = buckets[i] /\ w = buckets[j]
    BY <1>4, Zenon
  <2>2. w <= v
    BY <1>10, <2>1, SMT
  <2>3. bar(w, hi) <= bar(v, hi)
    BY <1>7, <2>2, BarGrows
  <2>4. bars[j] <= bars[i]
    BY <1>8, <2>1, <2>3, Zenon
  <2>5. bars[i] \in Nat /\ bars[j] \in Nat
    BY <1>9
  <2> QED BY <2>4, <2>5, SMT
<1>11. \E i \in 1 .. n : bars[i] = Top
  <2>1. PICK i \in 1 .. n : buckets[i] = hi
    BY <1>2, <1>3, <1>5, <1>6, HighestIs
  <2>2. bar(hi, hi) = Top
    BY <1>7, BarIs
  <2> QED BY <1>8, <2>1, <2>2, Zenon
<1> QED BY <1>1, <1>2, <1>8, <1>9, <1>10, <1>11, Zenon

(* A moment ago is shown as such.                                          *)
LEMMA MomentsAreHonest == \A secs \in Nat : AgoIsHonest(secs)
<1> SUFFICES ASSUME NEW secs \in Nat PROVE AgoIsHonest(secs)
  OBVIOUS
<1>1. ASSUME NEW u \in Nat \ {0}, ago_secs(secs) = [n |-> secs \div u, unit |-> u]
      PROVE  AgoIsHonest(secs)
  <2>1. PICK q \in Nat : q = secs \div u /\ u * q <= secs /\ secs < u * q + u
    BY QuotientIs
  <2>2. q * u = u * q /\ (q + 1) * u = u * q + u
    BY SMT
  <2>3. ago_secs(secs).n = q /\ ago_secs(secs).unit = u
    BY <1>1, <2>1
  <2> QED BY <2>1, <2>2, <2>3, Zenon DEF AgoIsHonest
<1>2. CASE secs < 60
  <2>1. ago_secs(secs) = [n |-> 0, unit |-> 60]
    BY <1>2, SMT DEF ago_secs
  <2>2. ago_secs(secs).n = 0 /\ ago_secs(secs).unit = 60
    BY <2>1
  <2> QED BY <1>2, <2>2, SMT DEF AgoIsHonest
<1>3. CASE 60 <= secs /\ secs < 3600
  <2>1. ago_secs(secs) = [n |-> secs \div 60, unit |-> 60]
    BY <1>3, SMT DEF ago_secs
  <2> QED BY <1>1, <2>1
<1>4. CASE 3600 <= secs /\ secs < 86400
  <2>1. ago_secs(secs) = [n |-> secs \div 3600, unit |-> 3600]
    BY <1>4, SMT DEF ago_secs
  <2> QED BY <1>1, <2>1
<1>5. CASE 86400 <= secs
  <2>1. ago_secs(secs) = [n |-> secs \div 86400, unit |-> 86400]
    BY <1>5, SMT DEF ago_secs
  <2> QED BY <1>1, <2>1
<1> QED BY <1>2, <1>3, <1>4, <1>5, SMT

(* Dates, filters, times, ages and the activity line are right on every    *)
(* day, for any days with turns.                                           *)
THEOREM TimesStayRight ==
  ASSUME today \in Int \cup {NoDay}, InOrder(daily)
  PROVE  TimesAreRight
<1>1. ASSUME NEW nbins \in 1 .. MaxBins PROVE NoTurnLost(daily, nbins)
  <2>1. MaxBins \in Nat
    BY Zenon, SeriesAssumption
  <2>2. nbins \in Nat \ {0}
    BY <2>1, SMT
  <2> QED BY <2>2, NoneIsLost
<1>2. ASSUME today # NoDay
      PROVE  /\ CalendarIsRight(today)
             /\ \A from, to \in today - 1 .. today + 1 : BoundsAreWhole(from, to, today)
             /\ today \in 0 .. 20000 =>
                  /\ \A secs \in {0, 1, 43200, 86399}, hh \in {0, 5, 14}, mm \in {0, 30, 59},
                        sign \in {-1, 1} : OneInstant(today, secs, hh, mm, sign)
                  /\ AgeIsHonest(today) /\ AgoIsHonest(97 * today)
  <2>1. today \in Int
    BY <1>2, Zenon
  <2>2. CalendarIsRight(today)
    BY <2>1, DaysAreDates, Zenon
  <2>3. \A from, to \in today - 1 .. today + 1 : BoundsAreWhole(from, to, today)
    <3>1. \A x \in today - 1 .. today + 1 : x \in Int
      BY <2>1, SMT
    <3> QED BY <2>1, <3>1, FiltersKeepWholeDays, Zenon
  <2>4. ASSUME today \in 0 .. 20000
        PROVE  /\ \A secs \in {0, 1, 43200, 86399}, hh \in {0, 5, 14}, mm \in {0, 30, 59},
                     sign \in {-1, 1} : OneInstant(today, secs, hh, mm, sign)
               /\ AgeIsHonest(today) /\ AgoIsHonest(97 * today)
    <3>1. today \in Nat /\ 97 * today \in Nat
      BY <2>4, SMT
    <3> QED BY <2>1, <3>1, OffsetsAgree, AgesAreHonest, MomentsAreHonest
  <2> QED BY <2>2, <2>3, <2>4
<1> QED BY <1>1, <1>2 DEF TimesAreRight
=============================================================================
