------------------------------ MODULE MCIngest ------------------------------
(* Instances of Ingest for TLC.  A behaviour is one of any passes, killed   *)
(* anywhere, over a short transcript, or one of hooks that are not killed,  *)
(* over a longer one of whole lines.                                        *)
EXTENDS Ingest, TLC

CONSTANTS t1, p1, p2,
  MaxShort   \* bound: lines of the short transcript

VARIABLE about

OneText  == {t1}
TwoProcs == {p1, p2}
ProcSymmetry == Permutations(TwoProcs)
AnyPass      == BOOLEAN

AnyPasses == about = "passes" /\ Next /\ Len(file') + (IF tail' THEN 1 ELSE 0) <= MaxShort
Hooks     == about = "hooks" /\ Unkilled /\ ~tail' /\ \A p \in Procs : ~strict'[p]

AppendInit == Init /\ about \in {"passes", "hooks"}
AppendNext == (AnyPasses \/ Hooks) /\ UNCHANGED about
AppendSpec == AppendInit /\ [][AppendNext]_<<vars, about>>

HooksInit == Init /\ about = "hooks"
HooksNext == Hooks /\ UNCHANGED about
HooksOnly == HooksInit /\ [][HooksNext]_<<vars, about>>
=============================================================================
