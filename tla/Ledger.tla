------------------------------- MODULE Ledger -------------------------------
(***************************************************************************)
(* What the checkpoint queue promises, with the processes, the rows and    *)
(* the prompts hidden.  Each session has archived turns, numbered up to    *)
(* hi, a watermark up to which somebody has saved their facts, and a place *)
(* in the queue.  The watermark moves forward only and never past the      *)
(* archive; a session leaves the queue only once its watermark has reached *)
(* its last archived turn, or because it is abandoned, which moves no      *)
(* watermark; a muted session has no part in it.                           *)
(*                                                                         *)
(* Module Checkpoint implements this specification.                        *)
(***************************************************************************)
EXTENDS Integers

CONSTANTS
  All,        \* session ids
  MaxSeq,     \* bound: the highest sequence number
  Muted       \* the watermark of a session that is never to be queued

VARIABLES
  hi,         \* the last archived sequence number of a session, or -1
  mark,       \* its watermark, -1 if none
  queue       \* the sessions queued

vars == <<hi, mark, queue>>

Init ==
  /\ hi = [s \in All |-> -1]
  /\ mark = [s \in All |-> -1]
  /\ queue = {}

Grow(s, n) ==
  /\ hi[s] < n
  /\ hi' = [hi EXCEPT ![s] = n]
  /\ UNCHANGED <<mark, queue>>

Enqueue(s) ==
  /\ mark[s] # Muted
  /\ queue' = queue \cup {s}
  /\ UNCHANGED <<hi, mark>>

Mute(s) ==
  /\ mark[s] = -1
  /\ s \notin queue
  /\ mark' = [mark EXCEPT ![s] = Muted]
  /\ UNCHANGED <<hi, queue>>

Progress(s, n) ==
  /\ mark[s] < n
  /\ n <= hi[s]
  /\ mark' = [mark EXCEPT ![s] = n]
  /\ UNCHANGED <<hi, queue>>

Complete(s) ==
  /\ mark[s] <= hi[s]
  /\ mark' = [mark EXCEPT ![s] = hi[s]]
  /\ queue' = queue \ {s}
  /\ UNCHANGED hi

Abandon(s) ==
  /\ queue' = queue \ {s}
  /\ UNCHANGED <<hi, mark>>

Next ==
  \E s \in All :
    \/ \E n \in 0 .. MaxSeq : Grow(s, n) \/ Progress(s, n)
    \/ Enqueue(s)
    \/ Mute(s)
    \/ Complete(s)
    \/ Abandon(s)

Spec == Init /\ [][Next]_vars
=============================================================================
