------------------------------ MODULE MCHooks ------------------------------
(* The run of the hooks: a behaviour is one in which the SessionEnd worker *)
(* always runs, or one in which it may not, and then nothing distills.     *)
EXTENDS MCLifecycle

VARIABLE about

hvars == <<lvars, about>>

HInit == LInit /\ about \in {"heard", "unheard"}

HNext ==
  /\ \/ about = "heard" /\ Heard
     \/ about = "unheard" /\ (Unheard /\ job' = job)
  /\ UNCHANGED about

Runs(p)   == Run(p) /\ UNCHANGED about
Starts(p) == about = "unheard" /\ (SessionStart(p) /\ UNCHANGED about)

HooksSpec ==
  /\ HInit /\ [][HNext]_hvars
  /\ \A p \in Procs : WF_hvars(Runs(p)) /\ SF_hvars(Starts(p))

(* A session that has ended comes to be queued, or checkpointed, unless it *)
(* is resumed: always where the worker runs, and where it may not have run *)
(* if its transcript changed since it was archived and a sweep finds it so *)
(* (EndedIsQueued and Unattended of Lifecycle).                            *)
EndedComesToQueue ==
  \A s \in Sessions :
    /\ ~open[s] /\ written[s] > 0
    /\ about = "heard" \/ Unattended(s)
    ~> Safe(s) \/ open[s]
=============================================================================
