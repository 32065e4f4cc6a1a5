--------------------------------- MODULE Seen ---------------------------------
(***************************************************************************)
(* The log of what recall has injected (src/src/recall.rs), shared by the  *)
(* live sessions.  A prompt injects hits the log does not hold for its     *)
(* session and then appends them; PreCompact removes the session's lines,  *)
(* as the compacted context no longer shows them; a log that grows is cut  *)
(* back to its newest lines, and one too big to be read is emptied.        *)
(*                                                                         *)
(* The log is read once per prompt.  An append opens the file and writes a *)
(* line at a time; a trim, a PreCompact and a reset replace the file by a  *)
(* renamed copy of what they read, so that a line appended through an      *)
(* older handle goes nowhere.  A session's own prompts and compactions     *)
(* follow one another; those of different sessions do not.                 *)
(*                                                                         *)
(* Abstractions.  A line is a session and a hit, one byte long, or a long  *)
(* line that something else wrote.  Which hits match a prompt is any set.  *)
(***************************************************************************)
EXTENDS Integers, Sequences, SequencesExt

CONSTANTS
  Sessions, Hits,
  Matching,   \* the hits the prompts of each session may find
  Alien,      \* a line of another writer
  AlienSize,  \* its length, above SEEN_LINE_MAX
  MaxInject,  \* MAX_INJECT
  TrimAt,     \* SEEN_TRIM_AT, lines
  Keep,       \* SEEN_KEEP, lines
  TrimBytes,  \* SEEN_TRIM_BYTES
  ReadCap,    \* CONTROL_FILE_MAX
  MaxAliens,  \* bound: lines of another writer
  MaxFaults   \* bound: writes that fail, prompts that are killed

ASSUME SeenAssumption ==
  /\ {AlienSize, MaxInject, TrimAt, Keep, TrimBytes, ReadCap} \subseteq Nat \ {0}
  /\ {MaxAliens, MaxFaults} \subseteq Nat
  /\ AlienSize > 1 /\ MaxInject <= TrimBytes /\ TrimBytes < ReadCap
  /\ IsFiniteSet(Hits) /\ Matching \in [Sessions -> SUBSET Hits]

VARIABLES
  log,    \* the lines of the file
  work,   \* what each session's hook is doing
  shown,  \* the hits each session's context shows
  lost,   \* history: hits shown whose line was lost since
  aliens, faults

svars == <<log, work, shown, lost, aliens, faults>>

Idle == [at |-> "idle", seen |-> <<>>, picked |-> <<>>, left |-> 0, open |-> FALSE]

LineSize(l) == IF l = Alien THEN AlienSize ELSE 1
Size(lines) == FoldLeft(LAMBDA n, l : n + LineSize(l), 0, lines)
Readable    == Size(log) <= ReadCap
Logged(lines, s) == {h \in Hits : <<s, h>> \in ToSet(lines)}

SInit ==
  /\ log = <<>>
  /\ work = [s \in Sessions |-> Idle]
  /\ shown = [s \in Sessions |-> {}] /\ lost = [s \in Sessions |-> {}]
  /\ aliens = 0 /\ faults = 0

-----------------------------------------------------------------------------
At(s, at) == work[s].at = at
Sets(s, w) == work' = [work EXCEPT ![s] = w]
Fault == faults < MaxFaults /\ faults' = faults + 1

(* The lines at these places, in their order.                              *)
Only(lines, places) ==
  [n \in 1 .. Cardinality(places) |->
     lines[CHOOSE i \in places : Cardinality(places \cap 1 .. i) = n]]

(* The newest lines that fit once written back; long ones are dropped.     *)
tail_within(lines, budget) ==
  LET short == {i \in DOMAIN lines : i > Len(lines) - Keep /\ lines[i] # Alien}
  IN  Only(lines, {i \in short : Cardinality({j \in short : j >= i}) <= budget})

(* The file is replaced by s: handles open on the old one are orphaned,    *)
(* and of the lines that go, those of other sessions are lost, and of its  *)
(* own those it had `read`.                                                *)
Replace(s, body, read, w) ==
  /\ log' = body
  /\ work' = [t \in Sessions |-> IF t = s THEN w ELSE [work[t] EXCEPT !.open = FALSE]]
  /\ lost' = [t \in Sessions |->
       lost[t] \cup (Logged(IF t = s THEN read ELSE log, t) \ Logged(body, t))]

-----------------------------------------------------------------------------
(* A prompt.                                                               *)

already_injected(s) == Logged(log, s)

Picks(s) == {picked \in UNION {[1 .. n -> Matching[s] \ already_injected(s)] : n \in 1 .. MaxInject} :
               IsInjective(picked)}

Prompt(s) ==
  /\ At(s, "idle")
  /\ IF Readable
     THEN \E picked \in Picks(s) :
            Sets(s, [Idle EXCEPT !.at = "measure", !.seen = log, !.picked = picked,
                                 !.left = Len(picked)])
     ELSE Sets(s, [Idle EXCEPT !.at = "heal"])
  /\ UNCHANGED <<log, shown, lost, aliens, faults>>

(* Mutant: a log too big is left for somebody else.                        *)
LeaveSeenLog(s) ==
  /\ At(s, "heal")
  /\ Sets(s, Idle)
  /\ UNCHANGED <<log, lost, shown, aliens, faults>>

heal_seen_log(s) ==
  /\ At(s, "heal")
  /\ IF Size(log) > TrimBytes THEN Replace(s, <<>>, log, Idle)
     ELSE Sets(s, Idle) /\ UNCHANGED <<log, lost>>
  /\ UNCHANGED <<shown, aliens, faults>>

(* The prompt's answer is printed when it is done.                         *)
Answers(s) == shown' = [shown EXCEPT ![s] = @ \cup ToSet(work[s].picked)]

TooLong(s) == \/ Len(work[s].seen) > TrimAt
              \/ Size(log) + Len(work[s].picked) > TrimBytes

Measure(s) ==
  /\ At(s, "measure")
  /\ Sets(s, [work[s] EXCEPT !.at = IF TooLong(s) THEN "trim" ELSE "open"])
  /\ UNCHANGED <<log, shown, lost, aliens, faults>>

Trim(s) ==
  /\ At(s, "trim")
  /\ \/ /\ Replace(s, tail_within(work[s].seen, TrimBytes - Len(work[s].picked)),
                   work[s].seen, [work[s] EXCEPT !.at = "open"])
        /\ UNCHANGED <<shown, faults>>
     \/ /\ Fault /\ Answers(s)
        /\ lost' = [lost EXCEPT ![s] = @ \cup ToSet(work[s].picked)]
        /\ Sets(s, Idle) /\ UNCHANGED log
  /\ UNCHANGED aliens

OpenLog(s) ==
  /\ At(s, "open")
  /\ Sets(s, [work[s] EXCEPT !.at = "append", !.open = TRUE])
  /\ UNCHANGED <<log, shown, lost, aliens, faults>>

(* Mutant: only the first of the hits is written.                          *)
AppendFirstLine(s) ==
  /\ At(s, "append")
  /\ log' = IF work[s].open THEN Append(log, <<s, work[s].picked[1]>>) ELSE log
  /\ Sets(s, Idle) /\ Answers(s)
  /\ UNCHANGED <<lost, aliens, faults>>

AppendLine(s) ==
  /\ At(s, "append")
  /\ LET w == work[s]
         h == w.picked[Len(w.picked) - w.left + 1]
     IN  /\ log' = IF w.open THEN Append(log, <<s, h>>) ELSE log
         /\ lost' = [lost EXCEPT ![s] = IF w.open THEN @ \ {h} ELSE @ \cup {h}]
         /\ IF w.left > 1 THEN Sets(s, [w EXCEPT !.left = @ - 1]) /\ UNCHANGED shown
            ELSE Sets(s, Idle) /\ Answers(s)
  /\ UNCHANGED <<aliens, faults>>

-----------------------------------------------------------------------------
(* A compaction: the hook, then the context is compacted.                  *)

Compacted(s) == shown' = [shown EXCEPT ![s] = {}]

PreCompact(s) ==
  /\ At(s, "idle")
  /\ IF Readable /\ already_injected(s) # {}
     THEN Sets(s, [Idle EXCEPT !.at = "forget", !.seen = log]) /\ UNCHANGED <<shown, lost>>
     ELSE Compacted(s) /\ lost' = [lost EXCEPT ![s] = {}] /\ UNCHANGED work
  /\ UNCHANGED <<log, aliens, faults>>

Others(lines, s) ==
  Only(lines, {i \in DOMAIN lines : lines[i] = Alien \/ lines[i][1] # s})

forget_session(s) ==
  /\ At(s, "forget")
  /\ Replace(s, Others(work[s].seen, s), work[s].seen, Idle)
  /\ Compacted(s)
  /\ UNCHANGED <<aliens, faults>>

Killed(s) ==
  /\ ~At(s, "idle") /\ Fault
  /\ Sets(s, Idle)
  /\ UNCHANGED <<log, shown, lost, aliens>>

AlienWrites ==
  /\ aliens < MaxAliens /\ aliens' = aliens + 1
  /\ log' = Append(log, Alien)
  /\ UNCHANGED <<work, shown, lost, faults>>

Works(s) == \/ heal_seen_log(s) \/ Measure(s) \/ Trim(s) \/ OpenLog(s)
            \/ AppendLine(s) \/ forget_session(s)

SNext ==
  \/ \E s \in Sessions : Prompt(s) \/ PreCompact(s) \/ Works(s) \/ Killed(s)
  \/ AlienWrites

(* Prompts that match something keep coming, and a hook goes on.           *)
SFairness == \A s \in Sessions : WF_svars(Prompt(s)) /\ WF_svars(Works(s))

SSpec == SInit /\ [][SNext]_svars
FairSSpec == SSpec /\ SFairness

-----------------------------------------------------------------------------
(* A hit that a session's context shows is in the log, so that the next    *)
(* prompt does not repeat it, unless its line was lost: to another         *)
(* session's rewrite, to a trim, or to a handle on a file that is gone.    *)
ShownIsLogged == \A s \in Sessions : At(s, "idle") =>
  shown[s] \subseteq Logged(log, s) \cup lost[s]

(* A log too big to be read, whoever made it so, does not put recall out   *)
(* for good: the prompts that come reset it.                               *)
Recovers == []<>Readable
=============================================================================
