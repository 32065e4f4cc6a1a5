--------------------------- MODULE IngestRewrite ---------------------------
(***************************************************************************)
(* Ingest when the transcript does not only grow.  Claude Code or the user *)
(* may put other lines in the place of a transcript (a restored backup, an *)
(* edited or compacted file) or delete it.  The hooks run a pass that      *)
(* merges what it finds; `subrosa ingest --require-complete`, which the    *)
(* checkpoint skills run first, compares the file with the archive and     *)
(* refuses it.                                                             *)
(***************************************************************************)
EXTENDS Ingest

CONSTANT MaxRewrites    \* bound: how often the content is replaced

Contents == UNION {[1 .. n -> Line] : n \in 0 .. MaxLines}

Rewrite(lines) ==
  /\ lines # file
  /\ Len(past) < MaxRewrites
  /\ past' = Append(past, file)
  /\ file' = lines
  /\ tail' = FALSE
  /\ mtime' = mtime + 1
  /\ exists' = TRUE
  /\ UNCHANGED <<turns, row, pc, strict, cur, stat, known, scan, vouched>>

Remove ==
  /\ exists
  /\ exists' = FALSE
  /\ UNCHANGED <<file, tail, mtime, past, turns, row, pc, strict, cur, stat,
                 known, scan, vouched>>

(* What the checkpoint skills do with such a transcript: they check it,     *)
(* one pass after another, each to its end.  The content is replaced or    *)
(* removed between two passes, not under one; Claude Code may go on        *)
(* appending at any time.                                                  *)
Resting == \A p \in Procs : pc[p] = "idle"

Replaced == Remove \/ \E lines \in Contents : Rewrite(lines)

CheckedNext ==
  \/ WriteHalf \/ \E line \in Line : WriteLine(line)
  \/ Resting /\ (Replaced \/ \E p \in Procs : Begin(p, TRUE))
  \/ \E p \in Procs : Pass(p)

CheckedSpec == Init /\ [][CheckedNext]_vars

----------------------------------------------------------------------------
From(lines) ==
  \A i \in Slots :
    turns[i] # NoTurn => i < Len(lines) /\ turns[i] = lines[i + 1]

(* The archive of a session is the archive of one transcript: it never     *)
(* mixes turns of one content with turns of the one that took its place.     *)
OneTranscript ==
  From(file) \/ \E i \in 1 .. Len(past) : From(past[i])
=============================================================================
