------------------------------ MODULE Archive ------------------------------
(***************************************************************************)
(* What the archive of one transcript promises, with the processes, the    *)
(* cursor and the sessions row hidden: the transcript is a sequence of     *)
(* lines that only grows, and the archived turns are exactly the turns of  *)
(* some prefix of it, each under the sequence number of its line.  A step  *)
(* may lengthen that prefix; it never drops or rewrites a turn, never      *)
(* leaves a hole and never stores a turn the transcript does not hold.     *)
(*                                                                         *)
(* Module Ingest implements this specification (src/src/ingest.rs).        *)
(***************************************************************************)
EXTENDS Integers, Sequences

CONSTANTS
  Texts,      \* what a conversation turn says
  Filtered,   \* a line that holds no turn: blank, meta, tool noise
  Bad,        \* a line that is not JSON
  NoTurn,     \* no turn stored under a sequence number
  MaxLines    \* bound on the transcript's length

VARIABLES
  file,       \* the transcript's complete lines
  turns       \* the turns table of this session, by sequence number

Line  == Texts \cup {Filtered, Bad}
Slots == 0 .. MaxLines - 1

(***************************************************************************)
(* The turns of the first n lines.  Line k of the file has sequence number *)
(* k - 1; a line without a turn uses up its number too.                    *)
(***************************************************************************)
Upto(lines, n) ==
  [i \in Slots |-> IF i < n /\ lines[i + 1] \in Texts THEN lines[i + 1]
                                                      ELSE NoTurn]

Init ==
  /\ file = << >>
  /\ turns = [i \in Slots |-> NoTurn]

Write(line) ==
  /\ Len(file) < MaxLines
  /\ file' = Append(file, line)
  /\ UNCHANGED turns

CatchUp(n) ==
  /\ turns' = Upto(file, n)
  /\ \A i \in Slots : turns[i] # NoTurn => turns'[i] = turns[i]
  /\ UNCHANGED file

Next ==
  \/ \E line \in Line : Write(line)
  \/ \E n \in 0 .. Len(file) : CatchUp(n)

Spec == Init /\ [][Next]_<<file, turns>>
=============================================================================
