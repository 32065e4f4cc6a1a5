---------------------------- MODULE MirrorProofs ----------------------------
(***************************************************************************)
(* Theorems about the snapshots, the mirror and a restore from it, for any *)
(* processes, folders and settings.                                        *)
(*                                                                         *)
(* NeverDowngraded is about files; the invariant behind it is about what   *)
(* their writers know: since a process started, the passphrase it read was *)
(* missing at some moment, and the folder it writes to in the clear had no *)
(* sealed copy at some moment (Knows).  NewestKept rests on this: whatever *)
(* a process still has to drop, a newer snapshot is there (Superseded).    *)
(***************************************************************************)
EXTENDS Mirror, Restore, FiniteSetTheorems, TLAPS

Writing(r) == r.at \in {"fill", "publish", "cleanup"}

(* Where a process may be, and what it then holds.                         *)
Sound(r) ==
  /\ r \in Proc
  /\ r.phase \in {"write", "after"} => r.own \in Folders
  /\ r.at \in {"write", "fill", "publish", "cleanup", "stale"} =>
       r.phase \in {"write", "after"}
  /\ r.at = "tmps" => r.dir \in Folders
  /\ r.at = "copy" => r.dest \in 1 .. clock

Typed == TypeOK /\ \A p \in Procs : Sound(proc[p])

(* A temporary file has an owner that is writing in its folder, or none.   *)
Placed(f, d) == f.owner # Nobody => Writing(proc[f.owner]) /\ proc[f.owner].own = d

(* The process that waits for its next start.                              *)
LEMMA IdleSound == Sound(Idle) /\ ~Writing(Idle) /\ Idle.drop = {}
BY ConstantsAssumption DEF Sound, Idle, Proc, Writing, Names, Keys

(* A step that gives one process a sound state, moves no file of another's *)
(* and keeps the rest well typed, keeps the types.                         *)
LEMMA Becoming ==
  ASSUME Typed, NEW p \in Procs, NEW r, Becomes(p, r), Sound(r), clock' = clock,
         snaps' \subseteq 1 .. clock, aged' \subseteq snaps', named' \in Names,
         pass' \in {"none", "set"}, broken' \in BOOLEAN,
         plain' \in [Folders -> SUBSET {"file", "evicted"}],
         sealed' \in [Folders -> BOOLEAN],
         tmps' \in [Folders -> SUBSET Tmp],
         \A d \in Folders : \A f \in tmps'[d] :
           \/ f.owner = p /\ Writing(r) /\ r.own = d
           \/ f.owner # p /\ \E g \in tmps[d] : g.owner = f.owner
           \/ f.owner = Nobody
  PROVE  Typed'
<1>1. proc' \in [Procs -> Proc] /\ proc'[p] = r
      /\ \A q \in Procs \ {p} : proc'[q] = proc[q]
  BY DEF Typed, TypeOK, Becomes, Sound
<1>2. \A q \in Procs : Sound(proc[q])'
  BY <1>1 DEF Typed, Sound
<1>3. \A d \in Folders : \A f \in tmps'[d] : Placed(f, d)'
  <2> SUFFICES ASSUME NEW d \in Folders, NEW f \in tmps'[d], f.owner # Nobody
               PROVE  Writing(proc'[f.owner]) /\ proc'[f.owner].own = d
    BY DEF Placed, Writing
  <2>1. f.owner \in Procs
    BY DEF Tmp
  <2>2. CASE f.owner = p
    BY <1>1, <2>2
  <2>3. CASE f.owner # p
    <3>1. PICK g \in tmps[d] : g.owner = f.owner
      BY <2>3
    <3>2. Writing(proc[f.owner]) /\ proc[f.owner].own = d
      BY <3>1 DEF Typed, TypeOK, Writing
    <3> QED
      BY <1>1, <2>1, <2>3, <3>2
  <2> QED
    BY <2>2, <2>3
<1> QED
  BY <1>1, <1>2, <1>3 DEF Typed, TypeOK, Placed, Writing

(* The same, of a step that changes nothing else, by a process that keeps  *)
(* its temporary file or has none.                                         *)
LEMMA Moving ==
  ASSUME Typed, NEW p \in Procs, NEW r, Becomes(p, r), Sound(r),
         Writing(proc[p]) => Writing(r) /\ r.own = proc[p].own,
         UNCHANGED <<local, config, cloud>>
  PROVE  Typed'
<1>1. \A d \in Folders : \A f \in tmps'[d] :
        \/ f.owner = p /\ Writing(r) /\ r.own = d
        \/ f.owner # p /\ \E g \in tmps[d] : g.owner = f.owner
        \/ f.owner = Nobody
  BY DEF Typed, TypeOK, Writing, cloud
<1>2. clock' = clock /\ snaps' \subseteq 1 .. clock /\ aged' \subseteq snaps'
      /\ named' \in Names /\ pass' \in {"none", "set"} /\ broken' \in BOOLEAN
  BY DEF Typed, TypeOK, local, config
<1>3. /\ plain' \in [Folders -> SUBSET {"file", "evicted"}]
      /\ sealed' \in [Folders -> BOOLEAN] /\ tmps' \in [Folders -> SUBSET Tmp]
  BY DEF Typed, TypeOK, cloud
<1> QED
  BY <1>1, <1>2, <1>3, Becoming

(* What a process reads of the settings is of the type it keeps it in.     *)
LEMMA ReadTypes ==
  ASSUME Typed, NEW p \in Procs
  PROVE  /\ Key \in Keys /\ Config \in Names
         /\ Target(proc[p].env) \in Names
         /\ AtRisk(proc[p].env) \subseteq Folders
BY DEF Typed, TypeOK, Sound, Proc, Key, Keys, Config, Names, Target, AtRisk

(* A process starts in a sound state.                                      *)
LEMMA Starting ==
  ASSUME Typed, NEW p \in Procs, NEW start, Start(p, start), Sound(start),
         start.at \in {"ask", "purge", "open"},
         named' \in Names, UNCHANGED <<local, pass, broken, cloud>>
  PROVE  Typed'
<1> DEFINE r == [start EXCEPT !.lapsed = Key = "none",
                             !.bare = {d \in Folders : ~sealed[d]}]
<1>1. Sound(r)
  <2>1. (Key = "none") \in BOOLEAN /\ {d \in Folders : ~sealed[d]} \in SUBSET Folders
    OBVIOUS
  <2> QED
    BY <2>1 DEF Sound, Proc
<1>2. Becomes(p, r) /\ ~Writing(proc[p])
  BY DEF Start, At, Writing
<1> HIDE DEF r
<1>3. \A d \in Folders : \A f \in tmps'[d] :
        \/ f.owner = p /\ Writing(r) /\ r.own = d
        \/ f.owner # p /\ \E g \in tmps[d] : g.owner = f.owner
        \/ f.owner = Nobody
  BY <1>2 DEF Typed, TypeOK, Writing, cloud
<1>4. clock' = clock /\ snaps' \subseteq 1 .. clock /\ aged' \subseteq snaps'
      /\ pass' \in {"none", "set"} /\ broken' \in BOOLEAN
  BY DEF Typed, TypeOK, local
<1>5. /\ plain' \in [Folders -> SUBSET {"file", "evicted"}]
      /\ sealed' \in [Folders -> BOOLEAN] /\ tmps' \in [Folders -> SUBSET Tmp]
  BY DEF Typed, TypeOK, cloud
<1> QED
  BY <1>1, <1>2, <1>3, <1>4, <1>5, Becoming

(* The command of a user, or the end of a session, starts a process.       *)
LEMMA TypedStart ==
  ASSUME Typed, NEW p \in Procs, SessionEnd(p) \/ Backup(p) \/ Setup(p)
  PROVE  Typed'
<1> USE IdleSound, ConstantsAssumption
<1>0. \A env \in Envs : /\ Key \in Keys /\ Target(env) \in Names
                       /\ AtRisk(env) \subseteq Folders
  BY DEF Typed, TypeOK, Key, Keys, Config, Names, Target, AtRisk
<1>1. CASE SessionEnd(p)
  <2>1. PICK env \in Envs :
          Start(p, Purging([Idle EXCEPT !.env = env, !.use = TRUE], "entry"))
    BY <1>1 DEF SessionEnd
  <2> DEFINE start == Purging([Idle EXCEPT !.env = env, !.use = TRUE], "entry")
  <2>2. Sound(start) /\ start.at = "purge"
    BY <1>0 DEF Sound, Proc, Idle, Purging, Names
  <2> HIDE DEF start
  <2>3. named' \in Names /\ UNCHANGED <<local, pass, broken, cloud>>
    BY <1>1 DEF SessionEnd, Typed, TypeOK, config
  <2> QED
    BY <2>1, <2>2, <2>3, Starting DEF start
<1>2. CASE Backup(p)
  <2>1. PICK env \in Envs, force \in BOOLEAN, use \in BOOLEAN, keep \in Keeps :
          LET asked == [Idle EXCEPT !.env = env, !.force = force, !.use = use,
                                    !.keep = keep]
          IN  Start(p, IF use THEN Purging(asked, "entry")
                       ELSE [asked EXCEPT !.at = "open"])
    BY <1>2 DEF Backup
  <2> DEFINE asked == [Idle EXCEPT !.env = env, !.force = force, !.use = use,
                                    !.keep = keep]
             start == IF use THEN Purging(asked, "entry")
                      ELSE [asked EXCEPT !.at = "open"]
  <2>2. Sound(start) /\ start.at \in {"purge", "open"}
    <3>0. asked \in Proc /\ asked.env = env /\ asked.phase = "entry"
      BY DEF Sound, Proc, Idle, Names
    <3> HIDE DEF asked
    <3>1. CASE use
      <4>1. start = Purging(asked, "entry")
        BY <3>1
      <4> QED
        BY <1>0, <3>0, <4>1 DEF Sound, Proc, Purging
    <3>2. CASE ~use
      <4>1. start = [asked EXCEPT !.at = "open"]
        BY <3>2
      <4> QED
        BY <3>0, <4>1 DEF Sound, Proc
    <3> QED
      BY <3>1, <3>2
  <2>3. Start(p, start)
    BY <2>1
  <2> HIDE DEF start
  <2>4. named' \in Names /\ UNCHANGED <<local, pass, broken, cloud>>
    BY <1>2 DEF Backup, Typed, TypeOK, config
  <2> QED
    BY <2>2, <2>3, <2>4, Starting
<1>3. CASE Setup(p)
  <2>1. PICK env \in Envs, d \in Folders :
          /\ named' = d
          /\ Start(p, [Idle EXCEPT !.env = env, !.force = TRUE, !.use = TRUE,
                         !.at = IF pass = "none" THEN "ask" ELSE "open"])
    BY <1>3 DEF Setup
  <2> DEFINE start == [Idle EXCEPT !.env = env, !.force = TRUE, !.use = TRUE,
                         !.at = IF pass = "none" THEN "ask" ELSE "open"]
  <2>2. Sound(start) /\ start.at \in {"ask", "open"}
    BY DEF Sound, Proc, Idle, Names
  <2> HIDE DEF start
  <2>3. named' \in Names /\ UNCHANGED <<local, pass, broken, cloud>>
    BY <1>3, <2>1 DEF Setup, Names
  <2> QED
    BY <2>1, <2>2, <2>3, Starting DEF start
<1> QED
  BY <1>1, <1>2, <1>3

(* The answers at setup's prompt change the config, nothing else.          *)
LEMMA TypedAnswer ==
  ASSUME Typed, NEW p \in Procs, Answer(p)
  PROVE  Typed'
<1> DEFINE r == [proc[p] EXCEPT !.at = "open"]
           s == [proc[p] EXCEPT !.at = "open", !.use = FALSE]
<1>1. At(p, "ask") /\ UNCHANGED <<local, broken, cloud>>
      /\ named' \in Names /\ pass' \in {"none", "set"}
      /\ (Becomes(p, r) \/ Becomes(p, s))
  BY DEF Answer, Decline, Agree, GiveUp, Goto, Typed, TypeOK, config, Names
<1>2. Sound(r) /\ Sound(s)
  BY <1>1 DEF Sound, Proc, At, Typed
<1> HIDE DEF r, s
<1>3. \A d \in Folders : \A f \in tmps'[d] :
        f.owner # p /\ \E g \in tmps[d] : g.owner = f.owner
  BY <1>1, ConstantsAssumption DEF Typed, TypeOK, Writing, cloud, At
<1>4. clock' = clock /\ snaps' \subseteq 1 .. clock /\ aged' \subseteq snaps'
      /\ broken' \in BOOLEAN
  BY <1>1 DEF Typed, TypeOK, local
<1>5. /\ plain' \in [Folders -> SUBSET {"file", "evicted"}]
      /\ sealed' \in [Folders -> BOOLEAN] /\ tmps' \in [Folders -> SUBSET Tmp]
  BY <1>1 DEF Typed, TypeOK, cloud
<1>6. CASE Becomes(p, r)
  BY <1>1, <1>2, <1>3, <1>4, <1>5, <1>6, Becoming
<1>7. CASE Becomes(p, s)
  BY <1>1, <1>2, <1>3, <1>4, <1>5, <1>7, Becoming
<1> QED
  BY <1>1, <1>6, <1>7

(* Clearing a folder.                                                      *)
LEMMA TypedClearing ==
  ASSUME Typed, NEW p \in Procs, Clearing(p) \/ ClearFails(p) \/ HandsOff(p) \/ Purged(p)
  PROVE  Typed'
<1>0. Sound(proc[p])
  BY DEF Typed
<1>1. CASE Remove(p)
  <2>1. PICK d \in proc[p].todo :
          /\ plain' = [plain EXCEPT ![d] = {}]
          /\ Becomes(p, [proc[p] EXCEPT !.at = "tmps", !.dir = d,
                                        !.todo = @ \ {d}])
    BY <1>1 DEF Remove
  <2> DEFINE r == [proc[p] EXCEPT !.at = "tmps", !.dir = d, !.todo = @ \ {d}]
  <2>2. Sound(r)
    BY <1>0 DEF Sound, Proc, Names
  <2>3. d \in Folders /\ ~Writing(proc[p])
    BY <1>0, <1>1 DEF Sound, Proc, Remove, At, Writing
  <2> HIDE DEF r
  <2>4. plain' \in [Folders -> SUBSET {"file", "evicted"}]
    BY <2>1 DEF Typed, TypeOK
  <2>5. \A e \in Folders : \A f \in tmps'[e] :
          f.owner # p /\ \E g \in tmps[e] : g.owner = f.owner
    BY <1>1, <2>3, ConstantsAssumption DEF Remove, Typed, TypeOK, Writing
  <2>6. UNCHANGED <<local, config, sealed, tmps>>
    BY <1>1 DEF Remove
  <2>7. /\ clock' = clock /\ snaps' \subseteq 1 .. clock /\ aged' \subseteq snaps'
        /\ named' \in Names /\ pass' \in {"none", "set"} /\ broken' \in BOOLEAN
        /\ sealed' \in [Folders -> BOOLEAN] /\ tmps' \in [Folders -> SUBSET Tmp]
    BY <2>6 DEF Typed, TypeOK, local, config
  <2> QED
    BY <2>1, <2>2, <2>4, <2>5, <2>7, Becoming DEF r
<1>2. CASE ClearTmps(p)
  <2> DEFINE r == [proc[p] EXCEPT !.at = "purge", !.dir = Unset]
  <2>1. Sound(r) /\ Becomes(p, r) /\ ~Writing(proc[p])
    BY <1>0, <1>2 DEF Sound, Proc, Names, ClearTmps, At, Writing
  <2> HIDE DEF r
  <2>2. tmps' \in [Folders -> SUBSET Tmp]
        /\ \A e \in Folders : tmps'[e] \subseteq tmps[e]
    BY <1>2 DEF ClearTmps, Typed, TypeOK
  <2>3. \A e \in Folders : \A f \in tmps'[e] :
          f.owner # p /\ \E g \in tmps[e] : g.owner = f.owner
    BY <2>1, <2>2, ConstantsAssumption DEF Typed, TypeOK, Writing
  <2>4. UNCHANGED <<local, config, plain, sealed>>
    BY <1>2 DEF ClearTmps
  <2>5. /\ clock' = clock /\ snaps' \subseteq 1 .. clock /\ aged' \subseteq snaps'
        /\ named' \in Names /\ pass' \in {"none", "set"} /\ broken' \in BOOLEAN
        /\ plain' \in [Folders -> SUBSET {"file", "evicted"}]
        /\ sealed' \in [Folders -> BOOLEAN]
    BY <2>4 DEF Typed, TypeOK, local, config
  <2> QED
    BY <2>1, <2>2, <2>3, <2>5, Becoming
<1>3. CASE ClearFails(p)
  <2>1. PICK todo \in SUBSET Folders : Abandon(p, todo)
    <3>1. proc[p].todo \subseteq Folders
      BY <1>0 DEF Sound, Proc
    <3> QED
      BY <1>3, <3>1 DEF ClearFails
  <2> DEFINE r == [proc[p] EXCEPT
              !.at = IF proc[p].phase = "write" THEN "cleanup" ELSE "purge",
              !.dir = Unset, !.todo = todo]
  <2>2. Sound(r) /\ Becomes(p, r) /\ ~Writing(proc[p])
    BY <1>0, <1>3, <2>1 DEF Sound, Proc, Names, ClearFails, Abandon, At, Writing
  <2> HIDE DEF r
  <2>3. UNCHANGED <<local, config, cloud>>
    BY <1>3 DEF ClearFails
  <2> QED
    BY <2>2, <2>3, Moving
<1>4. CASE HandsOff(p)
  <2>1. PICK d \in proc[p].todo : Becomes(p, [proc[p] EXCEPT !.todo = @ \ {d}])
    BY <1>4 DEF HandsOff
  <2> DEFINE r == [proc[p] EXCEPT !.todo = @ \ {d}]
  <2>2. Sound(r) /\ Becomes(p, r) /\ ~Writing(proc[p])
    BY <1>0, <1>4, <2>1 DEF Sound, Proc, HandsOff, At, Writing
  <2> HIDE DEF r
  <2> QED
    BY <1>4, <2>2, Moving DEF HandsOff
<1>5. CASE Purged(p)
  <2> DEFINE settled(at) == [proc[p] EXCEPT !.at = at, !.phase = "entry", !.own = Unset,
                                            !.key = "error"]
             moved(at) == [proc[p] EXCEPT !.at = at]
  <2>1. \/ Becomes(p, settled("open")) \/ Becomes(p, settled("look"))
        \/ (proc[p].phase = "write" /\ Becomes(p, moved("write")))
        \/ (proc[p].phase = "after" /\ Becomes(p, moved("stale")))
    BY <1>0, <1>5 DEF Sound, Proc, Purged, Settle, Goto
  <2>2. Sound(settled("open")) /\ Sound(settled("look"))
    BY <1>0 DEF Sound, Proc, Names, Keys
  <2>3. /\ proc[p].phase = "write" => Sound(moved("write"))
        /\ proc[p].phase = "after" => Sound(moved("stale"))
    BY <1>0 DEF Sound, Proc
  <2>4. ~Writing(proc[p]) /\ UNCHANGED <<local, config, cloud>>
    BY <1>5 DEF Purged, At, Writing
  <2> HIDE DEF settled, moved
  <2> QED
    BY <2>1, <2>2, <2>3, <2>4, Moving
<1> QED
  BY <1>1, <1>2, <1>3, <1>4, <1>5 DEF Clearing

(* Taking a snapshot, and dropping the old ones.                           *)
LEMMA TypedSnapshot ==
  ASSUME Typed, NEW p \in Procs,
         \/ Open(p) \/ Throttled(p) \/ Due(p) \/ Copy(p) \/ NoCopy(p)
         \/ List(p) \/ Drop(p) \/ Dropped(p)
  PROVE  Typed'
<1>0. Sound(proc[p]) /\ Sound(Idle) /\ ~Writing(Idle)
  BY IdleSound DEF Typed
<1>1. CASE Open(p)
  <2> DEFINE r == Purging(proc[p], "backstop")
             s == [proc[p] EXCEPT !.at = "look"]
  <2>1. Becomes(p, r) \/ Becomes(p, s)
    BY <1>1 DEF Open, Goto
  <2>2. Sound(r)
    <3>1. /\ Key \in Keys /\ Target(proc[p].env) \in Names
          /\ AtRisk(proc[p].env) \in SUBSET Folders
      BY ReadTypes
    <3>2. proc[p] \in Proc
      BY <1>0 DEF Sound
    <3>3. r \in Proc
      BY <3>1, <3>2 DEF Proc, Purging
    <3>4. r.phase = "backstop" /\ r.at = "purge"
      BY <3>2 DEF Proc, Purging
    <3> HIDE DEF r
    <3> QED
      BY <3>3, <3>4 DEF Sound
  <2>3. Sound(s)
    BY <1>0 DEF Sound, Proc
  <2>4. ~Writing(proc[p]) /\ UNCHANGED <<local, config, cloud>>
    BY <1>1 DEF Open, At, Writing
  <2> HIDE DEF r, s
  <2> QED
    BY <2>1, <2>2, <2>3, <2>4, Moving
<1>2. CASE Throttled(p) \/ NoCopy(p)
  <2>1. Becomes(p, Idle) /\ ~Writing(proc[p]) /\ UNCHANGED <<local, config, cloud>>
    BY <1>2 DEF Throttled, NoCopy, Return, At, Writing
  <2> QED
    BY <1>0, <2>1, Moving
<1>3. CASE Due(p)
  <2> DEFINE r == [proc[p] EXCEPT !.at = "copy", !.force = FALSE, !.dest = clock]
  <2>1. Becomes(p, r) /\ ~Writing(proc[p]) /\ UNCHANGED <<local, config, cloud>>
    BY <1>3 DEF Due, At, Writing
  <2>2. Sound(r)
    <3>1. clock \in 0 .. MaxClock /\ clock \in 1 .. clock
      <4>1. clock \in 1 .. MaxClock
        BY DEF Typed, TypeOK
      <4> QED
        BY <4>1, ConstantsAssumption
    <3>2. proc[p] \in Proc
      BY <1>0 DEF Sound
    <3>3. r \in Proc
      BY <3>1, <3>2 DEF Proc
    <3>4. r.at = "copy" /\ r.dest = clock /\ r.phase = proc[p].phase
          /\ r.own = proc[p].own
      BY <3>2 DEF Proc
    <3> HIDE DEF r
    <3> QED
      BY <1>0, <3>1, <3>3, <3>4 DEF Sound
  <2> HIDE DEF r
  <2> QED
    BY <2>1, <2>2, Moving
<1>4. CASE Copy(p)
  <2> DEFINE r == [proc[p] EXCEPT !.at = "list"]
  <2>1. Becomes(p, r) /\ ~Writing(proc[p]) /\ UNCHANGED <<clock, config, cloud>>
    BY <1>4 DEF Copy, Goto, At, Writing
  <2>2. Sound(r)
    BY <1>0 DEF Sound, Proc
  <2>3. snaps' \subseteq 1 .. clock /\ aged' \subseteq snaps'
    BY <1>0, <1>4 DEF Copy, At, Sound, Typed, TypeOK
  <2>4. \A e \in Folders : \A f \in tmps'[e] :
          f.owner # p /\ \E g \in tmps[e] : g.owner = f.owner
    BY <2>1, ConstantsAssumption DEF Typed, TypeOK, Writing, cloud
  <2>5. /\ named' \in Names /\ pass' \in {"none", "set"} /\ broken' \in BOOLEAN
        /\ plain' \in [Folders -> SUBSET {"file", "evicted"}]
        /\ sealed' \in [Folders -> BOOLEAN] /\ tmps' \in [Folders -> SUBSET Tmp]
    BY <2>1 DEF Typed, TypeOK, config, cloud
  <2> HIDE DEF r
  <2> QED
    BY <2>1, <2>2, <2>3, <2>4, <2>5, Becoming
<1>5. CASE List(p)
  <2> DEFINE r == [proc[p] EXCEPT !.at = "drop", !.keep = DefaultKeep,
                                  !.drop = Older(proc[p].keep)]
  <2>1. Becomes(p, r) /\ ~Writing(proc[p]) /\ UNCHANGED <<local, config, cloud>>
    BY <1>5 DEF List, At, Writing
  <2>2. Older(proc[p].keep) \in SUBSET (1 .. MaxClock)
    <3>1. snaps \subseteq 1 .. MaxClock
      BY ConstantsAssumption DEF Typed, TypeOK
    <3> QED
      BY <3>1 DEF Older
  <2>3. Sound(r)
    BY <1>0, <2>2, ConstantsAssumption DEF Sound, Proc
  <2> HIDE DEF r
  <2> QED
    BY <2>1, <2>3, Moving
<1>6. CASE Drop(p)
  <2>1. PICK n \in proc[p].drop :
          /\ snaps' \in {snaps, snaps \ {n}}
          /\ Becomes(p, [proc[p] EXCEPT !.drop = @ \ {n}])
    BY <1>6 DEF Drop
  <2> DEFINE r == [proc[p] EXCEPT !.drop = @ \ {n}]
  <2>2. Sound(r) /\ ~Writing(proc[p])
    BY <1>0, <1>6 DEF Sound, Proc, Drop, At, Writing
  <2>3. UNCHANGED <<clock, config, cloud>> /\ aged' = aged \cap snaps'
    BY <1>6 DEF Drop
  <2>4. snaps' \subseteq 1 .. clock /\ aged' \subseteq snaps'
    BY <2>1, <2>3 DEF Typed, TypeOK
  <2>5. \A e \in Folders : \A f \in tmps'[e] :
          f.owner # p /\ \E g \in tmps[e] : g.owner = f.owner
    BY <2>2, <2>3, ConstantsAssumption DEF Typed, TypeOK, Writing, cloud
  <2>6. /\ named' \in Names /\ pass' \in {"none", "set"} /\ broken' \in BOOLEAN
        /\ plain' \in [Folders -> SUBSET {"file", "evicted"}]
        /\ sealed' \in [Folders -> BOOLEAN] /\ tmps' \in [Folders -> SUBSET Tmp]
    BY <2>3 DEF Typed, TypeOK, config, cloud
  <2> HIDE DEF r
  <2> QED
    BY <2>1, <2>2, <2>3, <2>4, <2>5, <2>6, Becoming DEF r
<1>7. CASE Dropped(p)
  <2> DEFINE own == Target(proc[p].env)
             r == [proc[p] EXCEPT !.at = "purge", !.phase = "write", !.env = Unset,
                                  !.own = own, !.key = Key, !.todo = {own}]
  <2>1. Becomes(p, Idle) \/ (own \in Folders /\ Becomes(p, r))
    BY <1>7 DEF Dropped, Return
  <2>2. own \in Folders => Sound(r)
    BY <1>0, ReadTypes DEF Sound, Proc, Names
  <2>3. ~Writing(proc[p]) /\ UNCHANGED <<local, config, cloud>>
    BY <1>7 DEF Dropped, At, Writing
  <2> HIDE DEF own, r
  <2> QED
    BY <1>0, <2>1, <2>2, <2>3, Moving
<1> QED
  BY <1>1, <1>2, <1>3, <1>4, <1>5, <1>6, <1>7

(* What stays unchanged while the mirror is written.                       *)
LEMMA LocalTypes ==
  ASSUME Typed, UNCHANGED <<local, config>>
  PROVE  /\ clock' = clock /\ snaps' \subseteq 1 .. clock /\ aged' \subseteq snaps'
         /\ named' \in Names /\ pass' \in {"none", "set"} /\ broken' \in BOOLEAN
BY DEF Typed, TypeOK, local, config

(* Writing the mirror.                                                     *)
LEMMA TypedWriting ==
  ASSUME Typed, NEW p \in Procs,
         \/ Refuse(p) \/ Write(p) \/ Fill(p) \/ PublishPlain(p)
         \/ PublishSealed(p) \/ MirrorFails(p) \/ SweepStale(p)
  PROVE  Typed'
<1>0. Sound(proc[p]) /\ Sound(Idle) /\ ~Writing(Idle)
  BY IdleSound DEF Typed
<1> DEFINE own == proc[p].own
<1>a. own \in Folders
  BY <1>0 DEF Sound, Refuse, Write, Fill, PublishPlain, PublishSealed, MirrorFails,
              SweepStale, At
<1>b. \A d \in Folders : \A f \in tmps[d] : f.owner = p => d = own /\ Writing(proc[p])
  BY ConstantsAssumption DEF Typed, TypeOK, Writing
<1>1. CASE Refuse(p) \/ MirrorFails(p)
  <2> DEFINE r == [proc[p] EXCEPT !.at = "cleanup"]
  <2>1. Becomes(p, r) /\ UNCHANGED <<local, config, cloud>>
    BY <1>1 DEF Refuse, MirrorFails, Goto
  <2>2. Sound(r) /\ Writing(r) /\ r.own = proc[p].own
    BY <1>0, <1>1 DEF Sound, Proc, Refuse, MirrorFails, At, Writing
  <2> HIDE DEF r
  <2> QED
    BY <2>1, <2>2, Moving
<1>2. CASE Write(p)
  <2> DEFINE r == [proc[p] EXCEPT !.at = IF proc[p].key = "none" THEN "fill"
                                         ELSE "publish"]
             new == [owner |-> p, kind |-> "opaque", old |-> FALSE]
  <2>1. Becomes(p, r) /\ UNCHANGED <<local, config, plain, sealed>>
        /\ tmps' = [tmps EXCEPT ![own] = @ \cup {new}]
    BY <1>2 DEF Write, Goto
  <2>2. Sound(r) /\ Writing(r) /\ r.own = own
    BY <1>0, <1>2 DEF Sound, Proc, Write, At, Writing
  <2>3. tmps' \in [Folders -> SUBSET Tmp]
    <3>1. new \in Tmp
      BY DEF Tmp
    <3> HIDE DEF new
    <3> QED
      BY <1>a, <2>1, <3>1 DEF Typed, TypeOK
  <2>4. \A d \in Folders : \A f \in tmps'[d] :
          f \in tmps[d] \/ (d = own /\ f = new)
    BY <1>a, <2>1 DEF Typed, TypeOK
  <2>5. /\ plain' \in [Folders -> SUBSET {"file", "evicted"}]
        /\ sealed' \in [Folders -> BOOLEAN]
    BY <2>1 DEF Typed, TypeOK
  <2> HIDE DEF r
  <2>6. \A d \in Folders : \A f \in tmps'[d] :
          \/ f.owner = p /\ Writing(r) /\ r.own = d
          \/ f.owner # p /\ \E g \in tmps[d] : g.owner = f.owner
    BY <1>b, <2>2, <2>4
  <2> QED
    BY <2>1, <2>2, <2>3, <2>5, <2>6, LocalTypes, Becoming
<1>3. CASE Fill(p)
  <2> DEFINE r == [proc[p] EXCEPT !.at = "publish"]
             filled == {[f EXCEPT !.kind = "plain"] : f \in Mine(p)}
  <2>1. Becomes(p, r) /\ UNCHANGED <<local, config, plain, sealed>>
        /\ tmps' = [tmps EXCEPT ![own] = (@ \ Mine(p)) \cup filled]
    BY <1>3 DEF Fill, Goto
  <2>2. Sound(r) /\ Writing(r) /\ r.own = own
    BY <1>0, <1>3 DEF Sound, Proc, Fill, At, Writing
  <2>3. filled \subseteq Tmp /\ \A f \in filled : f.owner = p
    BY <1>a DEF Mine, Typed, TypeOK, Tmp
  <2> HIDE DEF r, filled
  <2>4. tmps' \in [Folders -> SUBSET Tmp]
    BY <1>a, <2>1, <2>3 DEF Typed, TypeOK
  <2>5. \A d \in Folders : \A f \in tmps'[d] :
          f \in tmps[d] \/ (d = own /\ f \in filled)
    BY <1>a, <2>1 DEF Typed, TypeOK
  <2>6. /\ plain' \in [Folders -> SUBSET {"file", "evicted"}]
        /\ sealed' \in [Folders -> BOOLEAN]
    BY <2>1 DEF Typed, TypeOK
  <2>7. \A d \in Folders : \A f \in tmps'[d] :
          \/ f.owner = p /\ Writing(r) /\ r.own = d
          \/ f.owner # p /\ \E g \in tmps[d] : g.owner = f.owner
    BY <1>b, <2>2, <2>3, <2>5
  <2> QED
    BY <2>1, <2>2, <2>4, <2>6, <2>7, LocalTypes, Becoming
<1>4. CASE PublishPlain(p)
  <2> DEFINE r == [proc[p] EXCEPT !.at = "stale"]
  <2>1. Becomes(p, r) /\ UNCHANGED <<local, config, sealed>>
        /\ tmps' = [tmps EXCEPT ![own] = @ \ Mine(p)]
        /\ plain' = [plain EXCEPT ![own] = @ \cup {"file"}]
    BY <1>4 DEF PublishPlain, Goto
  <2>2. Sound(r)
    BY <1>0, <1>4 DEF Sound, Proc, PublishPlain, At
  <2>3. /\ tmps' \in [Folders -> SUBSET Tmp]
        /\ plain' \in [Folders -> SUBSET {"file", "evicted"}]
        /\ sealed' \in [Folders -> BOOLEAN]
    BY <1>a, <2>1 DEF Typed, TypeOK
  <2>4. \A d \in Folders : \A f \in tmps'[d] :
          f \in tmps[d] /\ (d = own => f \notin Mine(p))
    BY <1>a, <2>1 DEF Typed, TypeOK
  <2>5. \A d \in Folders : \A f \in tmps'[d] :
          f.owner # p /\ \E g \in tmps[d] : g.owner = f.owner
    BY <1>b, <2>4 DEF Mine
  <2> HIDE DEF r
  <2> QED
    BY <2>1, <2>2, <2>3, <2>5, LocalTypes, Becoming
<1>5. CASE PublishSealed(p)
  <2> DEFINE r == [proc[p] EXCEPT !.at = "purge", !.phase = "after",
                                  !.todo = {proc[p].own}]
  <2>1. Becomes(p, r) /\ UNCHANGED <<local, config, plain>>
        /\ tmps' = [tmps EXCEPT ![own] = @ \ Mine(p)]
        /\ sealed' = [sealed EXCEPT ![own] = TRUE]
    BY <1>5 DEF PublishSealed
  <2>2. Sound(r)
    BY <1>0, <1>a DEF Sound, Proc
  <2>3. /\ tmps' \in [Folders -> SUBSET Tmp]
        /\ plain' \in [Folders -> SUBSET {"file", "evicted"}]
        /\ sealed' \in [Folders -> BOOLEAN]
    BY <1>a, <2>1 DEF Typed, TypeOK
  <2>4. \A d \in Folders : \A f \in tmps'[d] :
          f \in tmps[d] /\ (d = own => f \notin Mine(p))
    BY <1>a, <2>1 DEF Typed, TypeOK
  <2>5. \A d \in Folders : \A f \in tmps'[d] :
          f.owner # p /\ \E g \in tmps[d] : g.owner = f.owner
    BY <1>b, <2>4 DEF Mine
  <2> HIDE DEF r
  <2> QED
    BY <2>1, <2>2, <2>3, <2>5, LocalTypes, Becoming
<1>6. CASE SweepStale(p)
  <2>1. Becomes(p, Idle) /\ UNCHANGED <<local, config, plain, sealed>>
        /\ tmps' = [tmps EXCEPT ![own] = {f \in @ \ Mine(p) : ~f.old}]
    BY <1>6 DEF SweepStale, Return
  <2>2. /\ tmps' \in [Folders -> SUBSET Tmp]
        /\ plain' \in [Folders -> SUBSET {"file", "evicted"}]
        /\ sealed' \in [Folders -> BOOLEAN]
    BY <1>a, <2>1 DEF Typed, TypeOK
  <2>3. \A d \in Folders : \A f \in tmps'[d] :
          f \in tmps[d] /\ (d = own => f \notin Mine(p))
    BY <1>a, <2>1 DEF Typed, TypeOK
  <2>4. \A d \in Folders : \A f \in tmps'[d] :
          f.owner # p /\ \E g \in tmps[d] : g.owner = f.owner
    BY <1>b, <2>3 DEF Mine
  <2> QED
    BY <1>0, <2>1, <2>2, <2>4, LocalTypes, Becoming
<1> QED
  BY <1>1, <1>2, <1>3, <1>4, <1>5, <1>6

(* What happens around the processes, and to them.                         *)
LEMMA TypedEdit ==
  ASSUME Typed, Edit \/ DeleteSealed
  PROVE  Typed'
<1>1. \A r : Sound(r) => Sound(Noted(r)) /\ Noted(r).at = r.at /\ Noted(r).own = r.own
                         /\ Noted(r).drop = r.drop
  <2> SUFFICES ASSUME NEW r, Sound(r)
               PROVE  Sound(Noted(r)) /\ Noted(r).at = r.at /\ Noted(r).own = r.own
                      /\ Noted(r).drop = r.drop
    OBVIOUS
  <2>1. CASE r.at = "idle"
    BY <2>1 DEF Noted
  <2>2. CASE r.at # "idle"
    <3> DEFINE lapsed == r.lapsed \/ Key' = "none"
               bare == r.bare \cup {d \in Folders : ~sealed'[d]}
    <3>1. lapsed \in BOOLEAN /\ bare \in SUBSET Folders
      BY DEF Sound, Proc
    <3>2. Noted(r) = [r EXCEPT !.lapsed = lapsed, !.bare = bare]
      BY <2>2 DEF Noted
    <3> HIDE DEF lapsed, bare
    <3> QED
      BY <3>1, <3>2 DEF Sound, Proc
  <2> QED
    BY <2>1, <2>2
<1>2. proc' = [p \in Procs |-> Noted(proc[p])] /\ UNCHANGED <<local, plain, tmps>>
  BY DEF Edit, DeleteSealed, cloud
<1>3. proc' \in [Procs -> Proc] /\ \A p \in Procs : Sound(proc'[p])
      /\ proc'[p].at = proc[p].at /\ proc'[p].own = proc[p].own
  BY <1>1, <1>2 DEF Typed, Sound
<1>4. /\ named' \in Names /\ pass' \in {"none", "set"} /\ broken' \in BOOLEAN
      /\ sealed' \in [Folders -> BOOLEAN]
  BY DEF Edit, DeleteSealed, Typed, TypeOK, config, cloud
<1>5. \A p \in Procs : Sound(proc[p])'
  BY <1>2, <1>3 DEF Sound, local
<1>6. \A d \in Folders : \A f \in tmps'[d] : f.owner # Nobody =>
        proc'[f.owner].at \in {"fill", "publish", "cleanup"} /\ proc'[f.owner].own = d
  <2> SUFFICES ASSUME NEW d \in Folders, NEW f \in tmps'[d], f.owner # Nobody
               PROVE  /\ proc'[f.owner].at \in {"fill", "publish", "cleanup"}
                      /\ proc'[f.owner].own = d
    OBVIOUS
  <2>1. f \in tmps[d] /\ f.owner \in Procs
    BY <1>2 DEF Typed, TypeOK, Tmp
  <2> QED
    BY <1>3, <2>1 DEF Typed, TypeOK
<1> QED
  BY <1>2, <1>3, <1>4, <1>5, <1>6 DEF Typed, TypeOK, local

(* Other events leave the processes alone.                                 *)
LEMMA TypedAround ==
  ASSUME Typed,
         \/ SetupNoMirror \/ Evict \/ Reappear \/ Tick \/ Day \/ Hour
         \/ UNCHANGED vars
  PROVE  Typed'
<1>1. CASE SetupNoMirror \/ UNCHANGED vars
  BY <1>1 DEF SetupNoMirror, vars, Typed, TypeOK, Sound, Names, local, config, cloud
<1>2. CASE Evict \/ Reappear
  <2>1. plain' \in [Folders -> SUBSET {"file", "evicted"}]
    BY <1>2 DEF Evict, Reappear, Typed, TypeOK
  <2>2. UNCHANGED <<local, config, sealed, tmps, proc>>
    BY <1>2 DEF Evict, Reappear
  <2> QED
    BY <2>1, <2>2 DEF Typed, TypeOK, Sound, local, config
<1>3. CASE Tick
  <2>1. clock' = clock + 1 /\ clock' \in 1 .. MaxClock
    BY <1>3, ConstantsAssumption DEF Tick, Typed, TypeOK
  <2>2. UNCHANGED <<snaps, aged, config, cloud, proc>>
    BY <1>3 DEF Tick
  <2>3. snaps' \subseteq 1 .. clock'
    BY <2>1, <2>2 DEF Typed, TypeOK
  <2>4. \A p \in Procs : Sound(proc[p])'
    <3> SUFFICES ASSUME NEW p \in Procs PROVE Sound(proc[p])'
      OBVIOUS
    <3>1. Sound(proc[p])
      BY DEF Typed
    <3>2. 1 .. clock \subseteq 1 .. clock'
      BY <2>1 DEF Typed, TypeOK
    <3> QED
      BY <2>2, <3>1, <3>2 DEF Sound
  <2> QED
    BY <2>1, <2>2, <2>3, <2>4 DEF Typed, TypeOK, config, cloud
<1>4. CASE Day
  <2>1. aged' \subseteq snaps /\ UNCHANGED <<clock, snaps, config, cloud, proc>>
    BY <1>4 DEF Day, Typed, TypeOK
  <2> QED
    BY <2>1 DEF Typed, TypeOK, Sound, config, cloud
<1>5. CASE Hour
  <2>0. PICK d \in Folders : \E f \in tmps[d] :
          tmps' = [tmps EXCEPT ![d] = (@ \ {f}) \cup {[f EXCEPT !.old = TRUE]}]
    BY <1>5 DEF Hour
  <2>1. PICK f \in tmps[d] :
          tmps' = [tmps EXCEPT ![d] = (@ \ {f}) \cup {[f EXCEPT !.old = TRUE]}]
    BY <2>0
  <2>2. UNCHANGED <<local, config, plain, sealed, proc>>
    BY <1>5 DEF Hour
  <2> DEFINE older == [f EXCEPT !.old = TRUE]
  <2>3. older \in Tmp /\ older.owner = f.owner
    <3>1. f \in Tmp
      BY DEF Typed, TypeOK
    <3> QED
      BY <3>1 DEF Tmp
  <2> HIDE DEF older
  <2>4. tmps' \in [Folders -> SUBSET Tmp]
    BY <2>1, <2>3 DEF Typed, TypeOK, older
  <2>5. \A e \in Folders : \A g \in tmps'[e] : \E h \in tmps[e] : g.owner = h.owner
    BY <2>1, <2>3 DEF Typed, TypeOK, older
  <2> QED
    BY <2>2, <2>4, <2>5 DEF Typed, TypeOK, Sound, local, config
<1> QED
  BY <1>1, <1>2, <1>3, <1>4, <1>5

(* A process that dies leaves its file to nobody.                          *)
LEMMA TypedKill ==
  ASSUME Typed, NEW p \in Procs, Kill(p)
  PROVE  Typed'
<1> DEFINE left(f) == IF f.owner = p THEN [f EXCEPT !.owner = Nobody] ELSE f
<1>1. Becomes(p, Idle) /\ UNCHANGED <<local, config, plain, sealed>>
      /\ tmps' = [d \in Folders |-> {left(f) : f \in tmps[d]}]
  BY DEF Kill, Return
<1>2. \A f \in Tmp : /\ left(f) \in Tmp
                     /\ left(f).owner = IF f.owner = p THEN Nobody ELSE f.owner
  BY DEF Tmp
<1> HIDE DEF left
<1>3. tmps' \in [Folders -> SUBSET Tmp]
  BY <1>1, <1>2 DEF Typed, TypeOK
<1>4. \A d \in Folders : \A f \in tmps'[d] :
        \E g \in tmps[d] : f = left(g) /\ g \in Tmp
  BY <1>1 DEF Typed, TypeOK
<1>5. \A d \in Folders : \A f \in tmps'[d] :
        (f.owner # p /\ \E g \in tmps[d] : g.owner = f.owner) \/ f.owner = Nobody
  BY <1>2, <1>4
<1>6. /\ plain' \in [Folders -> SUBSET {"file", "evicted"}]
      /\ sealed' \in [Folders -> BOOLEAN]
  BY <1>1 DEF Typed, TypeOK
<1> QED
  BY <1>1, <1>3, <1>5, <1>6, IdleSound, LocalTypes, Becoming

(* Every step keeps the types.                                             *)
LEMMA TypedStep == Typed /\ [Next]_vars => Typed'
<1> SUFFICES ASSUME Typed, [Next]_vars PROVE Typed'
  OBVIOUS
<1>1. ASSUME NEW p \in Procs, Process(p) PROVE Typed'
  BY <1>1, TypedStart, TypedAnswer, TypedClearing, TypedSnapshot, TypedWriting
  DEF Process, Steps
<1>2. CASE World
  BY <1>2, TypedStart, TypedKill, TypedEdit, TypedAround DEF World
<1>3. CASE UNCHANGED vars
  BY <1>3, TypedAround
<1> QED
  BY <1>1, <1>2, <1>3 DEF Next

(* At first no process runs and no file is there.                          *)
LEMMA TypedInit == Init => Typed
<1> SUFFICES ASSUME Init PROVE Typed
  OBVIOUS
<1>1. proc \in [Procs -> Proc] /\ \A p \in Procs : Sound(proc[p])
  BY IdleSound DEF Init, Sound
<1>2. clock \in 1 .. MaxClock /\ snaps \subseteq 1 .. clock /\ aged \subseteq snaps
  BY ConstantsAssumption DEF Init
<1>3. /\ named \in Names /\ pass \in {"none", "set"} /\ broken \in BOOLEAN
      /\ plain \in [Folders -> SUBSET {"file", "evicted"}]
      /\ sealed \in [Folders -> BOOLEAN]
      /\ tmps \in [Folders -> SUBSET Tmp]
      /\ \A d \in Folders : tmps[d] = {}
  BY DEF Init
<1> QED
  BY <1>1, <1>2, <1>3 DEF Typed, TypeOK

(* TypeOK for any processes, folders and settings: what snapshot,          *)
(* mirror_copy and purge_mirror keep is of its type, and a process has a   *)
(* temporary file only while and where it writes.                          *)
THEOREM TypeCorrect == Spec => []TypeOK
<1>1. Typed => TypeOK
  BY DEF Typed
<1> QED
  BY <1>1, TypedInit, TypedStep, PTL DEF Spec

-----------------------------------------------------------------------------
(* Whatever a process has still to drop, a newer snapshot is there.        *)
Superseded == \A p \in Procs : \A n \in proc[p].drop : \E m \in snaps : m > n

(* A step that takes no snapshot away and puts none on a list.             *)
Adds ==
  /\ snaps \subseteq snaps'
  /\ \A q \in Procs : proc'[q].drop \subseteq proc[q].drop

(* A process that keeps its list or empties it adds.                       *)
LEMMA Adding ==
  ASSUME Typed, NEW p \in Procs, NEW r, Becomes(p, r),
         r.drop \subseteq proc[p].drop, snaps \subseteq snaps'
  PROVE  Adds
BY DEF Adds, Becomes, Typed, TypeOK

(* Starts, and the answers to setup's prompt.                              *)
LEMMA AddsStart ==
  ASSUME Typed, NEW p \in Procs,
         SessionEnd(p) \/ Backup(p) \/ Setup(p) \/ Answer(p)
  PROVE  Adds
<1>0. proc[p] \in Proc /\ Idle \in Proc /\ Idle.drop = {}
  BY IdleSound DEF Typed, Sound
<1>1. CASE Answer(p)
  <2>1. Becomes(p, [proc[p] EXCEPT !.at = "open"])
        \/ Becomes(p, [proc[p] EXCEPT !.at = "open", !.use = FALSE])
    BY <1>1 DEF Answer, Decline, Agree, GiveUp, Goto
  <2>2. snaps' = snaps
    BY <1>1 DEF Answer, Decline, Agree, GiveUp, local
  <2> QED
    BY <1>0, <2>1, <2>2, Adding DEF Proc
<1>2. CASE SessionEnd(p)
  <2>1. PICK env \in Envs :
          Start(p, Purging([Idle EXCEPT !.env = env, !.use = TRUE], "entry"))
    BY <1>2 DEF SessionEnd
  <2> DEFINE start == Purging([Idle EXCEPT !.env = env, !.use = TRUE], "entry")
             r == [start EXCEPT !.lapsed = Key = "none",
                                !.bare = {d \in Folders : ~sealed[d]}]
  <2>2. r.drop = {}
    BY <1>0 DEF Proc, Purging
  <2>3. Becomes(p, r) /\ snaps' = snaps
    BY <1>2, <2>1 DEF Start, SessionEnd, local
  <2> HIDE DEF r
  <2> QED
    BY <2>2, <2>3, Adding
<1>3. CASE Backup(p)
  <2>1. PICK env \in Envs, force \in BOOLEAN, use \in BOOLEAN, keep \in Keeps :
          LET asked == [Idle EXCEPT !.env = env, !.force = force, !.use = use,
                                    !.keep = keep]
          IN  Start(p, IF use THEN Purging(asked, "entry")
                       ELSE [asked EXCEPT !.at = "open"])
    BY <1>3 DEF Backup
  <2> DEFINE asked == [Idle EXCEPT !.env = env, !.force = force, !.use = use,
                                    !.keep = keep]
             start == IF use THEN Purging(asked, "entry")
                      ELSE [asked EXCEPT !.at = "open"]
             r == [start EXCEPT !.lapsed = Key = "none",
                                !.bare = {d \in Folders : ~sealed[d]}]
  <2>2. r.drop = {}
    BY <1>0 DEF Proc, Purging
  <2>3. Becomes(p, r) /\ snaps' = snaps
    BY <1>3, <2>1 DEF Start, Backup, local
  <2> HIDE DEF r
  <2> QED
    BY <2>2, <2>3, Adding
<1>4. CASE Setup(p)
  <2>1. PICK env \in Envs :
          Start(p, [Idle EXCEPT !.env = env, !.force = TRUE, !.use = TRUE,
                      !.at = IF pass = "none" THEN "ask" ELSE "open"])
    BY <1>4 DEF Setup
  <2> DEFINE start == [Idle EXCEPT !.env = env, !.force = TRUE, !.use = TRUE,
                      !.at = IF pass = "none" THEN "ask" ELSE "open"]
             r == [start EXCEPT !.lapsed = Key = "none",
                                !.bare = {d \in Folders : ~sealed[d]}]
  <2>2. r.drop = {}
    BY <1>0 DEF Proc
  <2>3. Becomes(p, r) /\ snaps' = snaps
    BY <1>4, <2>1 DEF Start, Setup, local
  <2> HIDE DEF r
  <2> QED
    BY <2>2, <2>3, Adding
<1> QED
  BY <1>1, <1>2, <1>3, <1>4

(* Every other step of a process, but those that list and drop.            *)
LEMMA AddsStep ==
  ASSUME Typed, NEW p \in Procs,
         \/ Clearing(p) \/ ClearFails(p) \/ HandsOff(p) \/ Purged(p) \/ Open(p)
         \/ Throttled(p) \/ Due(p) \/ Copy(p) \/ NoCopy(p) \/ Dropped(p)
         \/ Refuse(p) \/ Write(p) \/ Fill(p) \/ PublishPlain(p)
         \/ PublishSealed(p) \/ MirrorFails(p) \/ SweepStale(p) \/ Kill(p)
  PROVE  Adds
<1>0. proc[p] \in Proc /\ Idle.drop = {} /\ proc \in [Procs -> Proc]
  BY IdleSound DEF Typed, Sound, TypeOK
<1>1. proc'[p].drop \subseteq proc[p].drop /\ \A q \in Procs \ {p} : proc'[q] = proc[q]
  <2>1. CASE Clearing(p) \/ ClearFails(p) \/ HandsOff(p)
    <3>1. CASE Remove(p)
      BY <1>0, <3>1 DEF Remove, Becomes, Proc
    <3>2. CASE ClearTmps(p)
      BY <1>0, <3>2 DEF ClearTmps, Becomes, Proc
    <3>3. CASE ClearFails(p)
      <4>1. PICK todo : Abandon(p, todo)
        BY <3>3 DEF ClearFails
      <4> QED
        BY <1>0, <4>1 DEF Abandon, Becomes, Proc
    <3>4. CASE HandsOff(p)
      BY <1>0, <3>4 DEF HandsOff, Becomes, Proc
    <3> QED
      BY <2>1, <3>1, <3>2, <3>3, <3>4 DEF Clearing
  <2>2. CASE Purged(p)
    <3>1. Settle(p, "open") \/ Settle(p, "look") \/ Goto(p, "write") \/ Goto(p, "stale")
      BY <1>0, <2>2 DEF Purged, Proc
    <3>2. CASE Settle(p, "open") \/ Settle(p, "look")
      <4>1. PICK at \in {"open", "look"} : Settle(p, at)
        BY <3>2
      <4> QED
        BY <1>0, <4>1 DEF Settle, Becomes, Proc
    <3>3. CASE Goto(p, "write") \/ Goto(p, "stale")
      <4>1. PICK at \in {"write", "stale"} : Goto(p, at)
        BY <3>3
      <4> QED
        BY <1>0, <4>1 DEF Goto, Becomes, Proc
    <3> QED
      BY <3>1, <3>2, <3>3
  <2>3. CASE Open(p)
    <3>1. Becomes(p, Purging(proc[p], "backstop")) \/ Goto(p, "look")
      BY <2>3 DEF Open
    <3> DEFINE s == Purging(proc[p], "backstop")
    <3>2. s.drop = proc[p].drop
      BY <1>0 DEF Purging, Proc
    <3> HIDE DEF s
    <3>3. CASE Becomes(p, s)
      BY <1>0, <3>2, <3>3 DEF Becomes
    <3>4. CASE Goto(p, "look")
      BY <1>0, <3>4 DEF Goto, Becomes, Proc
    <3> QED
      BY <3>1, <3>3, <3>4 DEF s
  <2>4. CASE Throttled(p) \/ NoCopy(p) \/ SweepStale(p) \/ Kill(p)
    BY <1>0, <2>4 DEF Throttled, NoCopy, SweepStale, Kill, Return, Becomes
  <2>5. CASE Due(p)
    BY <1>0, <2>5 DEF Due, Becomes, Proc
  <2>6. CASE Copy(p) \/ Refuse(p) \/ Write(p) \/ Fill(p) \/ PublishPlain(p) \/ MirrorFails(p)
    BY <1>0, <2>6 DEF Copy, Refuse, Write, Fill, PublishPlain, MirrorFails, Goto, Becomes, Proc
  <2>7. CASE Dropped(p)
    <3> DEFINE own == Target(proc[p].env)
    <3>1. \/ Return(p)
          \/ Becomes(p, [proc[p] EXCEPT !.at = "purge", !.phase = "write",
                !.env = Unset, !.own = own, !.key = Key, !.todo = {own}])
      BY <2>7 DEF Dropped
    <3> HIDE DEF own
    <3>2. CASE Return(p)
      BY <1>0, <3>2 DEF Return, Becomes
    <3>3. CASE Becomes(p, [proc[p] EXCEPT !.at = "purge", !.phase = "write",
                !.env = Unset, !.own = own, !.key = Key, !.todo = {own}])
      BY <1>0, <3>3 DEF Becomes, Proc
    <3> QED
      BY <3>1, <3>2, <3>3
  <2>8. CASE PublishSealed(p)
    BY <1>0, <2>8 DEF PublishSealed, Becomes, Proc
  <2> QED
    BY <2>1, <2>2, <2>3, <2>4, <2>5, <2>6, <2>7, <2>8
<1>2. snaps \subseteq snaps'
  BY DEF Clearing, Remove, ClearTmps, ClearFails, HandsOff, Purged, Open, Throttled,
         Due, Copy, NoCopy, Dropped, Refuse, Write, Fill, PublishPlain,
         PublishSealed, MirrorFails, SweepStale, Kill, local
<1> QED
  BY <1>1, <1>2 DEF Adds

(* What happens around the processes.                                      *)
LEMMA AddsAround ==
  ASSUME Typed,
         \/ SetupNoMirror \/ Edit \/ DeleteSealed \/ Evict \/ Reappear
         \/ Tick \/ Day \/ Hour \/ UNCHANGED vars
  PROVE  Adds
<1>1. snaps' = snaps
  BY DEF SetupNoMirror, Edit, DeleteSealed, Evict, Reappear, Tick, Day, Hour, vars, local
<1>2. CASE Edit \/ DeleteSealed
  <2>1. \A q \in Procs : proc'[q] = Noted(proc[q])
    BY <1>2 DEF Edit, DeleteSealed
  <2>2. \A q \in Procs : proc[q] \in Proc
    BY DEF Typed, TypeOK
  <2>3. \A q \in Procs : Noted(proc[q]).drop = proc[q].drop
    BY <2>2 DEF Noted, Proc
  <2> QED
    BY <1>1, <2>1, <2>3 DEF Adds
<1>3. CASE ~(Edit \/ DeleteSealed)
  <2>1. proc' = proc
    BY <1>3 DEF SetupNoMirror, Evict, Reappear, Tick, Day, Hour, vars
  <2> QED
    BY <1>1, <2>1 DEF Adds
<1> QED
  BY <1>2, <1>3

(* What a listing leaves out has a newer one beside it.                    *)
LEMMA OlderSuperseded ==
  ASSUME Typed, NEW keep \in Keeps, NEW n \in Older(keep)
  PROVE  \E m \in snaps : m > n
<1> SUFFICES ASSUME \A m \in snaps : ~(m > n) PROVE FALSE
  OBVIOUS
<1>1. {m \in snaps : m > n} = {}
  OBVIOUS
<1>2. Cardinality({m \in snaps : m > n}) = 0
  BY <1>1, FS_EmptySet
<1>3. Cardinality({m \in snaps : m > n}) >= keep /\ keep \in Nat \ {0}
  BY ConstantsAssumption DEF Older
<1> QED
  BY <1>2, <1>3

(* A step keeps what supersedes, and takes only what is superseded away.   *)
LEMMA SupersededStep ==
  ASSUME Typed, Superseded, [Next]_vars
  PROVE  Superseded' /\ \A n \in snaps : \E m \in snaps' : m >= n
<1>0. \A n \in snaps : n \in Nat
  BY DEF Typed, TypeOK
<1>1. CASE Adds
  <2>1. \A n \in snaps : n \in snaps' /\ n >= n
    BY <1>0, <1>1 DEF Adds
  <2> QED
    BY <1>1, <2>1 DEF Adds, Superseded
<1>2. ASSUME NEW p \in Procs, List(p)
      PROVE  Superseded' /\ \A n \in snaps : \E m \in snaps' : m >= n
  <2>1. /\ proc' = [proc EXCEPT ![p] = [proc[p] EXCEPT !.at = "drop",
                       !.keep = DefaultKeep, !.drop = Older(proc[p].keep)]]
        /\ snaps' = snaps
    BY <1>2 DEF List, Becomes, local
  <2>2. proc[p].keep \in Keeps /\ proc[p] \in Proc /\ proc \in [Procs -> Proc]
    BY DEF Typed, TypeOK, Sound, Proc
  <2>3. proc'[p].drop = Older(proc[p].keep)
        /\ \A q \in Procs \ {p} : proc'[q] = proc[q]
    BY <2>1, <2>2 DEF Proc
  <2>4. \A n \in Older(proc[p].keep) : \E m \in snaps : m > n
    BY <2>2, OlderSuperseded
  <2>5. Superseded'
    BY <2>1, <2>3, <2>4 DEF Superseded
  <2>6. \A n \in snaps : n \in snaps' /\ n >= n
    BY <1>0, <2>1
  <2> QED
    BY <2>5, <2>6
<1>3. ASSUME NEW p \in Procs, Drop(p)
      PROVE  Superseded' /\ \A n \in snaps : \E m \in snaps' : m >= n
  <2>1. PICK n \in proc[p].drop :
          /\ snaps' \in {snaps, snaps \ {n}}
          /\ Becomes(p, [proc[p] EXCEPT !.drop = @ \ {n}])
    BY <1>3 DEF Drop
  <2>2. proc[p] \in Proc /\ proc \in [Procs -> Proc]
    BY DEF Typed, TypeOK
  <2>3. \A q \in Procs : proc'[q].drop \subseteq proc[q].drop
    BY <2>1, <2>2 DEF Becomes, Proc
  <2>4. PICK m \in snaps : m > n
    BY DEF Superseded
  <2>5. n \in Nat /\ m \in snaps'
    <3>1. n \in Nat
      BY <2>2, ConstantsAssumption DEF Proc
    <3> QED
      BY <1>0, <2>1, <2>4, <3>1
  <2>6. \A k \in snaps : k \in snaps' \/ k = n
    BY <2>1
  <2>7. \A q \in Procs : \A k \in proc'[q].drop : \E l \in snaps' : l > k
    <3> SUFFICES ASSUME NEW q \in Procs, NEW k \in proc'[q].drop
                 PROVE  \E l \in snaps' : l > k
      OBVIOUS
    <3>1. PICK l \in snaps : l > k
      BY <2>3 DEF Superseded
    <3>2. k \in Nat
      BY <2>2, <2>3, ConstantsAssumption DEF Proc
    <3>3. CASE l = n
      BY <1>0, <2>4, <2>5, <3>1, <3>2, <3>3
    <3>4. CASE l # n
      BY <2>6, <3>1, <3>4
    <3> QED
      BY <3>3, <3>4
  <2>8. \A k \in snaps : \E l \in snaps' : l >= k
    BY <1>0, <2>4, <2>5, <2>6
  <2> QED
    BY <2>7, <2>8 DEF Superseded
<1> QED
  BY <1>1, <1>2, <1>3, AddsStart, AddsStep, AddsAround
  DEF Next, World, Process, Steps

(* NewestKept for any number of processes that copy, list and drop         *)
(* snapshots (snapshot, backup.rs 112-119), each with its own `keep`.      *)
THEOREM KeepsNewest == Spec => NewestKept
<1>1. Init => Superseded
  BY IdleSound DEF Init, Superseded
<1>2. Typed /\ Superseded /\ [Next]_vars => Superseded'
  BY SupersededStep
<1>3. Typed /\ Superseded /\ [Next]_vars =>
        [\A n \in snaps : \E m \in snaps' : m >= n]_vars
  BY SupersededStep
<1> QED
  BY <1>1, <1>2, <1>3, TypedInit, TypedStep, PTL DEF Spec, NewestKept

-----------------------------------------------------------------------------
(* What a running process has seen covers what the settings and the        *)
(* folders say now, what it has read, and what it writes.                  *)
Knows(r) ==
  r.at # "idle" =>
    /\ Key = "none" \/ r.key = "none" => r.lapsed
    /\ \A d \in Folders : ~sealed[d] => d \in r.bare
    /\ r.at = "fill" => r.key = "none" /\ r.own \in r.bare

Wary == NeverDowngraded /\ \A p \in Procs : Knows(proc[p])

(* A step of one process, between which and the rest of the model nothing  *)
(* was forgotten.                                                          *)
LEMMA Learning ==
  ASSUME Typed, Wary, Typed', NEW p \in Procs,
         \A q \in Procs \ {p} : proc'[q] = proc[q],
         Key' = "none" => Key = "none",
         \A d \in Folders : sealed[d] => sealed'[d],
         Knows(proc[p])',
         \A d \in Folders : \A f \in tmps'[d] : f.kind = "plain" =>
           \/ f.owner = Nobody
           \/ f.owner = p /\ proc'[p].lapsed /\ d \in proc'[p].bare
           \/ f.owner # p /\ f \in tmps[d]
  PROVE  Wary'
<1>1. \A q \in Procs : Knows(proc[q])'
  BY DEF Wary, Knows
<1>2. ASSUME NEW d \in Folders, NEW f \in tmps'[d], f.kind = "plain", f.owner # Nobody
      PROVE  proc'[f.owner].lapsed /\ d \in proc'[f.owner].bare
  <2>1. f.owner \in Procs
    BY <1>2 DEF Typed, TypeOK, Tmp
  <2> QED
    BY <1>2, <2>1 DEF Wary, NeverDowngraded
<1> QED
  BY <1>1, <1>2 DEF Wary, NeverDowngraded

(* Most steps of a process: it goes on knowing what it knew, reads the key *)
(* at most, and writes nothing readable.                                   *)
Continues(p) ==
  /\ proc[p].at # "idle" /\ proc'[p].at # "fill"
  /\ proc'[p].lapsed = proc[p].lapsed /\ proc'[p].bare = proc[p].bare
  /\ proc'[p].key \in {proc[p].key, Key, "error"}
  /\ \A q \in Procs \ {p} : proc'[q] = proc[q]

(* It returns.                                                             *)
Returns(p) ==
  /\ proc'[p] = Idle
  /\ \A q \in Procs \ {p} : proc'[q] = proc[q]

(* A step by which a process goes on or returns, the settings stay or get  *)
(* a passphrase, and no file becomes readable.                             *)
LEMMA WaryMove ==
  ASSUME Typed, Wary, Typed', NEW p \in Procs, Continues(p) \/ Returns(p),
         Key' = "none" => Key = "none",
         \A d \in Folders : sealed[d] => sealed'[d],
         \A d \in Folders : \A f \in tmps'[d] : f.owner # Nobody => f \in tmps[d]
  PROVE  Wary'
<1>1. CASE Continues(p)
  <2>1. Knows(proc[p])'
    BY <1>1 DEF Wary, Knows, Continues
  <2>2. \A d \in Folders : \A f \in tmps'[d] : f.kind = "plain" =>
           \/ f.owner = Nobody
           \/ f.owner = p /\ proc'[p].lapsed /\ d \in proc'[p].bare
           \/ f.owner # p /\ f \in tmps[d]
    BY <1>1 DEF Wary, NeverDowngraded, Continues
  <2> QED
    BY <1>1, <2>1, <2>2, Learning DEF Continues
<1>2. CASE Returns(p)
  <2>1. proc'[p].at = "idle"
    BY <1>2 DEF Returns, Idle
  <2>2. \A d \in Folders : \A f \in tmps'[d] : f.owner # p
    BY <2>1, ConstantsAssumption DEF Typed, TypeOK
  <2>3. Knows(proc[p])'
    BY <2>1 DEF Knows
  <2>4. \A d \in Folders : \A f \in tmps'[d] : f.kind = "plain" =>
           \/ f.owner = Nobody
           \/ f.owner = p /\ proc'[p].lapsed /\ d \in proc'[p].bare
           \/ f.owner # p /\ f \in tmps[d]
    BY <2>2
  <2> QED
    BY <1>2, <2>3, <2>4, Learning DEF Returns
<1> QED
  BY <1>1, <1>2

(* The steps that go on or return.                                         *)
LEMMA Continuing ==
  ASSUME Typed, NEW p \in Procs,
         \/ Answer(p) \/ Clearing(p) \/ ClearFails(p) \/ HandsOff(p) \/ Purged(p)
         \/ Open(p) \/ Throttled(p) \/ Due(p) \/ Copy(p) \/ NoCopy(p)
         \/ List(p) \/ Drop(p) \/ Dropped(p) \/ Refuse(p) \/ PublishPlain(p)
         \/ PublishSealed(p) \/ MirrorFails(p) \/ SweepStale(p) \/ Kill(p)
  PROVE  Continues(p) \/ Returns(p)
<1>0. proc[p] \in Proc /\ proc \in [Procs -> Proc]
  BY DEF Typed, TypeOK
<1>1. CASE Answer(p)
  <2>1. proc[p].at = "ask" /\ \E u \in BOOLEAN :
          Becomes(p, [proc[p] EXCEPT !.at = "open", !.use = u])
    <3>1. [proc[p] EXCEPT !.at = "open"]
            = [proc[p] EXCEPT !.at = "open", !.use = proc[p].use]
      BY <1>0 DEF Proc
    <3>2. proc[p].use \in BOOLEAN
      BY <1>0 DEF Proc
    <3> QED
      BY <1>1, <3>1, <3>2 DEF Answer, Decline, Agree, GiveUp, Goto, At
  <2>2. PICK u \in BOOLEAN : Becomes(p, [proc[p] EXCEPT !.at = "open", !.use = u])
    BY <2>1
  <2> QED
    BY <1>0, <2>1, <2>2 DEF Becomes, Continues, Proc
<1>2. CASE Clearing(p) \/ ClearFails(p) \/ HandsOff(p)
  <2>1. CASE Remove(p)
    BY <1>0, <2>1 DEF Remove, At, Becomes, Continues, Proc
  <2>2. CASE ClearTmps(p)
    BY <1>0, <2>2 DEF ClearTmps, At, Becomes, Continues, Proc
  <2>3. CASE ClearFails(p)
    <3>1. PICK todo : Abandon(p, todo)
      BY <2>3 DEF ClearFails
    <3>2. proc[p].at # "idle"
      BY <2>3 DEF ClearFails, At
    <3> QED
      BY <1>0, <3>1, <3>2 DEF Abandon, Becomes, Continues, Proc
  <2>4. CASE HandsOff(p)
    BY <1>0, <2>4 DEF HandsOff, At, Becomes, Continues, Proc
  <2> QED
    BY <1>2, <2>1, <2>2, <2>3, <2>4 DEF Clearing
<1>3. CASE Purged(p)
  <2>1. Settle(p, "open") \/ Settle(p, "look") \/ Goto(p, "write") \/ Goto(p, "stale")
    BY <1>0, <1>3 DEF Purged, Proc
  <2>2. proc[p].at = "purge"
    BY <1>3 DEF Purged, At
  <2>3. ASSUME NEW at \in {"open", "look"}, Settle(p, at) PROVE Continues(p)
    BY <1>0, <2>2, <2>3 DEF Settle, Becomes, Continues, Proc
  <2>4. ASSUME NEW at \in {"write", "stale"}, Goto(p, at) PROVE Continues(p)
    BY <1>0, <2>2, <2>4 DEF Goto, Becomes, Continues, Proc
  <2> QED
    BY <2>1, <2>3, <2>4
<1>4. CASE Open(p)
  <2> DEFINE r == Purging(proc[p], "backstop")
  <2>1. r.at = "purge" /\ r.key = Key /\ r.lapsed = proc[p].lapsed /\ r.bare = proc[p].bare
    BY <1>0 DEF Purging, Proc
  <2> HIDE DEF r
  <2>2. CASE Becomes(p, r)
    BY <1>0, <1>4, <2>1, <2>2 DEF Open, At, Becomes, Continues
  <2>3. CASE Goto(p, "look")
    BY <1>0, <1>4, <2>3 DEF Open, At, Goto, Becomes, Continues, Proc
  <2> QED
    BY <1>4, <2>2, <2>3 DEF Open, r
<1>5. CASE Throttled(p) \/ NoCopy(p) \/ SweepStale(p) \/ Kill(p)
  BY <1>0, <1>5 DEF Throttled, NoCopy, SweepStale, Kill, Return, Becomes, Returns
<1>6. CASE Due(p)
  BY <1>0, <1>6 DEF Due, At, Becomes, Continues, Proc
<1>7. CASE Copy(p) \/ Refuse(p) \/ PublishPlain(p) \/ MirrorFails(p)
  <2>1. proc[p].at # "idle"
        /\ (Goto(p, "list") \/ Goto(p, "cleanup") \/ Goto(p, "stale"))
    BY <1>7 DEF Copy, Refuse, PublishPlain, MirrorFails, At
  <2>2. PICK at \in {"list", "cleanup", "stale"} : Goto(p, at)
    BY <2>1
  <2> QED
    BY <1>0, <2>1, <2>2 DEF Goto, Becomes, Continues, Proc
<1>8. CASE List(p)
  BY <1>0, <1>8 DEF List, At, Becomes, Continues, Proc
<1>9. CASE Drop(p)
  BY <1>0, <1>9 DEF Drop, At, Becomes, Continues, Proc
<1>10. CASE Dropped(p)
  <2> DEFINE own == Target(proc[p].env)
             r == [proc[p] EXCEPT !.at = "purge", !.phase = "write",
                    !.env = Unset, !.own = own, !.key = Key, !.todo = {own}]
  <2>1. Return(p) \/ Becomes(p, r)
    BY <1>10 DEF Dropped
  <2> HIDE DEF own
  <2>2. r.at = "purge" /\ r.key = Key /\ r.lapsed = proc[p].lapsed /\ r.bare = proc[p].bare
    BY <1>0 DEF Proc
  <2> HIDE DEF r
  <2>3. CASE Return(p)
    BY <1>0, <2>3 DEF Return, Becomes, Returns
  <2>4. CASE Becomes(p, r)
    BY <1>0, <1>10, <2>2, <2>4 DEF Dropped, At, Becomes, Continues
  <2> QED
    BY <2>1, <2>3, <2>4
<1>11. CASE PublishSealed(p)
  BY <1>0, <1>11 DEF PublishSealed, At, Becomes, Continues, Proc
<1> QED
  BY <1>1, <1>2, <1>3, <1>4, <1>5, <1>6, <1>7, <1>8, <1>9, <1>10, <1>11

(* Those steps keep processes wary.                                        *)
LEMMA WaryContinuing ==
  ASSUME Typed, Wary, Typed', NEW p \in Procs,
         \/ Answer(p) \/ Clearing(p) \/ ClearFails(p) \/ HandsOff(p) \/ Purged(p)
         \/ Open(p) \/ Throttled(p) \/ Due(p) \/ Copy(p) \/ NoCopy(p)
         \/ List(p) \/ Drop(p) \/ Dropped(p) \/ Refuse(p) \/ PublishPlain(p)
         \/ PublishSealed(p) \/ MirrorFails(p) \/ SweepStale(p) \/ Kill(p)
  PROVE  Wary'
<1>1. Continues(p) \/ Returns(p)
  BY Continuing
<1>2. Key' = "none" => Key = "none"
  <2>1. CASE Answer(p)
    BY <2>1 DEF Answer, Decline, Agree, GiveUp, Key, config
  <2>2. CASE ~Answer(p)
    <3>1. UNCHANGED config
      BY <2>2 DEF Clearing, Remove, ClearTmps, ClearFails, HandsOff, Purged, Open,
           Throttled, Due, Copy, NoCopy, List, Drop, Dropped, Refuse, PublishPlain,
           PublishSealed, MirrorFails, SweepStale, Kill
    <3> QED
      BY <3>1 DEF config, Key
  <2> QED
    BY <2>1, <2>2
<1>3. \A d \in Folders : sealed[d] => sealed'[d]
  <2>1. CASE PublishSealed(p)
    BY <2>1 DEF PublishSealed, Typed, TypeOK
  <2>2. CASE ~PublishSealed(p)
    BY <2>2 DEF Answer, Decline, Agree, GiveUp, Clearing, Remove, ClearTmps,
         ClearFails, HandsOff, Purged, Open, Throttled, Due, Copy, NoCopy, List,
         Drop, Dropped, Refuse, PublishPlain, MirrorFails, SweepStale, Kill, cloud
  <2> QED
    BY <2>1, <2>2
<1>4. \A d \in Folders : \A f \in tmps'[d] : f.owner # Nobody => f \in tmps[d]
  <2>1. CASE ClearTmps(p) \/ PublishPlain(p) \/ PublishSealed(p) \/ SweepStale(p)
    BY <2>1 DEF ClearTmps, PublishPlain, PublishSealed, SweepStale, Typed, TypeOK
  <2>2. CASE Kill(p)
    <3> DEFINE left(f) == IF f.owner = p THEN [f EXCEPT !.owner = Nobody] ELSE f
    <3>1. tmps' = [d \in Folders |-> {left(f) : f \in tmps[d]}]
      BY <2>2 DEF Kill
    <3>2. \A f \in Tmp : left(f) = f \/ left(f).owner = Nobody
      BY DEF Tmp
    <3> HIDE DEF left
    <3>3. \A d \in Folders : \A f \in tmps'[d] :
            \E g \in tmps[d] : f = left(g) /\ g \in Tmp
      BY <3>1 DEF Typed, TypeOK
    <3> QED
      BY <3>2, <3>3
  <2>3. CASE ~(ClearTmps(p) \/ PublishPlain(p) \/ PublishSealed(p) \/ SweepStale(p)
               \/ Kill(p))
    BY <2>3 DEF Answer, Decline, Agree, GiveUp, Clearing, Remove, ClearFails,
         HandsOff, Purged, Open, Throttled, Due, Copy, NoCopy, List, Drop,
         Dropped, Refuse, MirrorFails, cloud
  <2> QED
    BY <2>1, <2>2, <2>3
<1> QED
  BY <1>1, <1>2, <1>3, <1>4, WaryMove

(* A process that starts knows what there is to know.                      *)
LEMMA WaryStart ==
  ASSUME Typed, Wary, Typed', NEW p \in Procs,
         SessionEnd(p) \/ Backup(p) \/ Setup(p)
  PROVE  Wary'
<1>0. Idle \in Proc /\ Idle.key = "error" /\ proc \in [Procs -> Proc]
  BY IdleSound DEF Typed, TypeOK, Sound, Idle
<1>1. \E start : /\ Start(p, start) /\ start \in Proc /\ start.at # "fill"
                /\ start.key \in {"error", Key}
  <2>0. \A env \in Envs : /\ Key \in Keys /\ Target(env) \in Names
                         /\ AtRisk(env) \subseteq Folders
    BY ConstantsAssumption DEF Typed, TypeOK, Key, Keys, Config, Names, Target, AtRisk
  <2>1. CASE SessionEnd(p)
    <3>1. PICK env \in Envs :
            Start(p, Purging([Idle EXCEPT !.env = env, !.use = TRUE], "entry"))
      BY <2>1 DEF SessionEnd
    <3> DEFINE start == Purging([Idle EXCEPT !.env = env, !.use = TRUE], "entry")
    <3>2. start \in Proc /\ start.at = "purge" /\ start.key = Key
      BY <1>0, <2>0, ConstantsAssumption DEF Proc, Purging, Names
    <3> HIDE DEF start
    <3> QED
      BY <3>1, <3>2 DEF start
  <2>2. CASE Backup(p)
    <3>1. PICK env \in Envs, force \in BOOLEAN, use \in BOOLEAN, keep \in Keeps :
            LET asked == [Idle EXCEPT !.env = env, !.force = force, !.use = use,
                                      !.keep = keep]
            IN  Start(p, IF use THEN Purging(asked, "entry")
                         ELSE [asked EXCEPT !.at = "open"])
      BY <2>2 DEF Backup
    <3> DEFINE asked == [Idle EXCEPT !.env = env, !.force = force, !.use = use,
                                      !.keep = keep]
    <3>2. asked \in Proc /\ asked.env = env /\ asked.key = "error"
      BY <1>0, ConstantsAssumption DEF Proc, Names
    <3>3. Start(p, IF use THEN Purging(asked, "entry") ELSE [asked EXCEPT !.at = "open"])
      BY <3>1
    <3> HIDE DEF asked
    <3>4. CASE use
      <4> DEFINE start == Purging(asked, "entry")
      <4>1. start \in Proc /\ start.at = "purge" /\ start.key = Key
        BY <2>0, <3>2 DEF Proc, Purging
      <4>2. Start(p, start)
        BY <3>3, <3>4
      <4> HIDE DEF start
      <4> QED
        BY <4>1, <4>2
    <3>5. CASE ~use
      <4> DEFINE start == [asked EXCEPT !.at = "open"]
      <4>1. start \in Proc /\ start.at = "open" /\ start.key = "error"
        BY <3>2 DEF Proc
      <4>2. Start(p, start)
        BY <3>3, <3>5
      <4> HIDE DEF start
      <4> QED
        BY <4>1, <4>2
    <3> QED
      BY <3>4, <3>5
  <2>3. CASE Setup(p)
    <3>1. PICK env \in Envs :
            Start(p, [Idle EXCEPT !.env = env, !.force = TRUE, !.use = TRUE,
                        !.at = IF pass = "none" THEN "ask" ELSE "open"])
      BY <2>3 DEF Setup
    <3> DEFINE start == [Idle EXCEPT !.env = env, !.force = TRUE, !.use = TRUE,
                        !.at = IF pass = "none" THEN "ask" ELSE "open"]
    <3>2. start \in Proc /\ start.at # "fill" /\ start.key = "error"
      BY <1>0, ConstantsAssumption DEF Proc, Names
    <3> HIDE DEF start
    <3> QED
      BY <3>1, <3>2 DEF start
  <2> QED
    BY <2>1, <2>2, <2>3
<1>2. PICK start : /\ Start(p, start) /\ start \in Proc /\ start.at # "fill"
                   /\ start.key \in {"error", Key}
  BY <1>1
<1>3. UNCHANGED <<pass, broken, cloud>>
  BY DEF SessionEnd, Backup, Setup, config
<1>4. /\ proc[p].at = "idle" /\ \A q \in Procs \ {p} : proc'[q] = proc[q]
      /\ proc'[p] = [start EXCEPT !.lapsed = Key = "none",
                                  !.bare = {d \in Folders : ~sealed[d]}]
  BY <1>0, <1>2 DEF Start, Becomes, At
<1>5. /\ proc'[p].at # "fill" /\ proc'[p].key \in {"error", Key}
      /\ proc'[p].lapsed = (Key = "none")
      /\ proc'[p].bare = {d \in Folders : ~sealed[d]}
  BY <1>2, <1>4 DEF Proc
<1>6. Key' = Key /\ tmps' = tmps /\ sealed' = sealed
  BY <1>3 DEF Key, cloud
<1>7. Knows(proc[p])'
  BY <1>5, <1>6 DEF Knows
<1>8. \A d \in Folders : \A f \in tmps[d] : f.owner # p
  BY <1>4, ConstantsAssumption DEF Typed, TypeOK
<1> QED
  BY <1>4, <1>6, <1>7, <1>8, Learning

(* Only here does a process decide for the clear, and write it.            *)
LEMMA WaryWriting ==
  ASSUME Typed, Wary, Typed', NEW p \in Procs, Write(p) \/ Fill(p)
  PROVE  Wary'
<1> DEFINE own == proc[p].own
<1>0. proc[p] \in Proc /\ proc \in [Procs -> Proc] /\ Knows(proc[p]) /\ own \in Folders
  BY DEF Typed, TypeOK, Sound, Wary, Write, Fill, At
<1>1. Key' = Key /\ sealed' = sealed
  BY DEF Write, Fill, config, Key
<1>2. CASE Write(p)
  <2> DEFINE new == [owner |-> p, kind |-> "opaque", old |-> FALSE]
             at == IF proc[p].key = "none" THEN "fill" ELSE "publish"
  <2>1. /\ proc[p].at = "write" /\ ~Refused(p) /\ Goto(p, at)
        /\ tmps' = [tmps EXCEPT ![own] = @ \cup {new}]
    BY <1>2 DEF Write, At
  <2>2. /\ proc'[p] = [proc[p] EXCEPT !.at = at]
        /\ \A q \in Procs \ {p} : proc'[q] = proc[q]
    BY <1>0, <2>1 DEF Goto, Becomes
  <2>3. /\ proc'[p].at = at /\ proc'[p].key = proc[p].key /\ proc'[p].own = own
        /\ proc'[p].lapsed = proc[p].lapsed /\ proc'[p].bare = proc[p].bare
    BY <1>0, <2>2 DEF Proc
  <2>4. Knows(proc[p])'
    BY <1>0, <1>1, <2>1, <2>3 DEF Knows, Refused
  <2>5. \A d \in Folders : \A f \in tmps'[d] : f.kind = "plain" => f \in tmps[d]
    BY <1>0, <2>1 DEF Typed, TypeOK
  <2>6. \A d \in Folders : \A f \in tmps'[d] : f.kind = "plain" =>
           \/ f.owner = Nobody
           \/ f.owner = p /\ proc'[p].lapsed /\ d \in proc'[p].bare
           \/ f.owner # p /\ f \in tmps[d]
    BY <2>3, <2>5 DEF Wary, NeverDowngraded
  <2> QED
    BY <1>1, <2>2, <2>4, <2>6, Learning
<1>3. CASE Fill(p)
  <2> DEFINE filled == {[f EXCEPT !.kind = "plain"] : f \in Mine(p)}
  <2>1. /\ proc[p].at = "fill" /\ Goto(p, "publish")
        /\ tmps' = [tmps EXCEPT ![own] = (@ \ Mine(p)) \cup filled]
    BY <1>3 DEF Fill, At
  <2>2. /\ proc'[p] = [proc[p] EXCEPT !.at = "publish"]
        /\ \A q \in Procs \ {p} : proc'[q] = proc[q]
    BY <1>0, <2>1 DEF Goto, Becomes
  <2>3. /\ proc'[p].at = "publish" /\ proc'[p].key = proc[p].key
        /\ proc'[p].lapsed = proc[p].lapsed /\ proc'[p].bare = proc[p].bare
    BY <1>0, <2>2 DEF Proc
  <2>4. Knows(proc[p])' /\ proc[p].lapsed /\ own \in proc[p].bare
    BY <1>0, <1>1, <2>1, <2>3 DEF Knows
  <2>5. \A f \in filled : f.owner = p
    BY <1>0 DEF Mine, Typed, TypeOK, Tmp
  <2> HIDE DEF filled
  <2>6. \A d \in Folders : \A f \in tmps'[d] :
          f \in tmps[d] \/ (d = own /\ f \in filled)
    BY <1>0, <2>1 DEF Typed, TypeOK
  <2>7. \A d \in Folders : \A f \in tmps'[d] : f.kind = "plain" =>
           \/ f.owner = Nobody
           \/ f.owner = p /\ proc'[p].lapsed /\ d \in proc'[p].bare
           \/ f.owner # p /\ f \in tmps[d]
    BY <2>3, <2>4, <2>5, <2>6 DEF Wary, NeverDowngraded
  <2> QED
    BY <1>1, <2>2, <2>4, <2>7, Learning
<1> QED
  BY <1>2, <1>3

(* A change of the settings or of a sealed copy is noted by every process. *)
LEMMA WaryAround ==
  ASSUME Typed, Wary, Typed',
         \/ SetupNoMirror \/ Edit \/ DeleteSealed \/ Evict \/ Reappear
         \/ Tick \/ Day \/ Hour \/ UNCHANGED vars
  PROVE  Wary'
<1>1. CASE Edit \/ DeleteSealed
  <2>1. \A q \in Procs : proc'[q] = Noted(proc[q])
    BY <1>1 DEF Edit, DeleteSealed
  <2>2. tmps' = tmps
    BY <1>1 DEF Edit, DeleteSealed, cloud
  <2>3. \A q \in Procs : proc[q] \in Proc
    BY DEF Typed, TypeOK
  <2>4. ASSUME NEW q \in Procs, proc[q].at # "idle"
        PROVE  /\ proc'[q].at = proc[q].at /\ proc'[q].key = proc[q].key
               /\ proc'[q].own = proc[q].own
               /\ proc'[q].lapsed = (proc[q].lapsed \/ Key' = "none")
               /\ proc'[q].bare = proc[q].bare \cup {d \in Folders : ~sealed'[d]}
    <3> DEFINE lapsed == proc[q].lapsed \/ Key' = "none"
               bare == proc[q].bare \cup {d \in Folders : ~sealed'[d]}
    <3>1. proc'[q] = [proc[q] EXCEPT !.lapsed = lapsed, !.bare = bare]
      BY <2>1, <2>4 DEF Noted
    <3> HIDE DEF lapsed, bare
    <3>2. /\ proc'[q].at = proc[q].at /\ proc'[q].key = proc[q].key
          /\ proc'[q].own = proc[q].own
          /\ proc'[q].lapsed = lapsed /\ proc'[q].bare = bare
      BY <2>3, <3>1 DEF Proc
    <3> QED
      BY <3>2 DEF lapsed, bare
  <2>5. ASSUME NEW q \in Procs PROVE Knows(proc[q])'
    <3>1. CASE proc[q].at = "idle"
      <4>1. proc'[q].at = "idle"
        BY <2>1, <3>1 DEF Noted
      <4> QED
        BY <4>1 DEF Knows
    <3>2. CASE proc[q].at # "idle"
      BY <2>4, <3>2 DEF Wary, Knows
    <3> QED
      BY <3>1, <3>2
  <2>6. ASSUME NEW d \in Folders, NEW f \in tmps'[d], f.kind = "plain", f.owner # Nobody
        PROVE  proc'[f.owner].lapsed /\ d \in proc'[f.owner].bare
    <3>1. f \in tmps[d] /\ f.owner \in Procs
      BY <2>2, <2>6 DEF Typed, TypeOK, Tmp
    <3>2. proc[f.owner].lapsed /\ d \in proc[f.owner].bare /\ proc[f.owner].at # "idle"
      BY <2>6, <3>1 DEF Wary, NeverDowngraded, Typed, TypeOK
    <3> QED
      BY <2>4, <3>1, <3>2
  <2> QED
    BY <2>5, <2>6 DEF Wary, NeverDowngraded
<1>2. CASE ~(Edit \/ DeleteSealed)
  <2>1. UNCHANGED <<pass, broken, sealed, proc>>
    BY <1>2 DEF SetupNoMirror, Evict, Reappear, Tick, Day, Hour, vars, config, cloud
  <2>2. \A d \in Folders : \A f \in tmps'[d] :
          \E g \in tmps[d] : g.owner = f.owner /\ g.kind = f.kind
    <3>1. CASE Hour
      <4>1. PICK d \in Folders : \E f \in tmps[d] :
              tmps' = [tmps EXCEPT ![d] = (@ \ {f}) \cup {[f EXCEPT !.old = TRUE]}]
        BY <3>1 DEF Hour
      <4>2. PICK f \in tmps[d] :
              tmps' = [tmps EXCEPT ![d] = (@ \ {f}) \cup {[f EXCEPT !.old = TRUE]}]
        BY <4>1
      <4> DEFINE older == [f EXCEPT !.old = TRUE]
      <4>3. older.owner = f.owner /\ older.kind = f.kind
        <5>1. f \in Tmp
          BY DEF Typed, TypeOK
        <5> QED
          BY <5>1 DEF Tmp
      <4> HIDE DEF older
      <4> QED
        BY <4>2, <4>3 DEF Typed, TypeOK, older
    <3>2. CASE ~Hour
      BY <1>2, <3>2 DEF SetupNoMirror, Evict, Reappear, Tick, Day, vars, cloud
    <3> QED
      BY <3>1, <3>2
  <2>3. \A q \in Procs : Knows(proc[q])'
    BY <2>1 DEF Wary, Knows, Key
  <2> QED
    BY <2>1, <2>2, <2>3 DEF Wary, NeverDowngraded
<1> QED
  BY <1>1, <1>2

(* NeverDowngraded for any number of processes and folders: mirror_copy,   *)
(* which reads the passphrase once and looks for a sealed copy once, never *)
(* writes in the clear what was meant to be sealed all the time it ran.    *)
THEOREM DowngradesNever == Spec => []NeverDowngraded
<1>1. Init => Wary
  BY IdleSound DEF Init, Wary, NeverDowngraded, Knows, Idle
<1>2. Typed /\ Typed' /\ Wary /\ [Next]_vars => Wary'
  BY WaryContinuing, WaryStart, WaryWriting, WaryAround
  DEF Next, World, Process, Steps
<1>3. Wary => NeverDowngraded
  BY DEF Wary
<1> QED
  BY <1>1, <1>2, <1>3, TypedInit, TypedStep, PTL DEF Spec
-----------------------------------------------------------------------------
(***************************************************************************)
(* One restore.  What it decided is known by the place it has come to: a   *)
(* sealed file that opens, and a folder that is not risky or that the user *)
(* named.  The file it writes to is its own as long as it is partial.      *)
(***************************************************************************)
Begun == step \in {"create", "write", "done"} \/ target \in {"partial", "readable"}

RInv ==
  /\ Begun => Opened /\ (Risky => ask.explicit)
  /\ step = "write" => target = "partial"
  /\ foreign => target = "other"
  /\ target \in {"partial", "readable"} => ask.out # Unresolved

(* A folder that passed is below no folder that a sync client carries away *)
(* with the sealed file or with a mirror ever named.                       *)
LEMMA RiskCovers ==
  ASSUME ask.out # Unresolved, ~Risky, NEW root \in ask.roots \cup {ask.input}
  PROVE  ask.out \notin Synced(root)
<1>1. ~near(ask.out, root)
  BY Zenon DEF Risky, synced_folder_risk
<1> QED
  BY <1>1, Zenon DEF near, Synced

(* Every step of restore, of a kill and of another writer keeps it.        *)
LEMMA RestoreStep == RInv /\ [RestoreNext]_rvars => RInv'
<1> SUFFICES ASSUME RInv, [RestoreNext]_rvars PROVE RInv'
  OBVIOUS
<1>1. ask' = ask /\ Opened' = Opened /\ Risky' = Risky
  BY Zenon DEF RestoreNext, Decide, Turned, Create, Written, WriteFails, RestoreKilled,
     SlipsIn, rvars, Opened, Risky
<1>2. CASE Decide
  BY <1>1, <1>2 DEF RInv, Begun, Decide, Turned
<1>3. CASE Create
  BY <1>1, <1>3 DEF RInv, Begun, Create
<1>4. CASE Written \/ WriteFails \/ RestoreKilled
  BY <1>1, <1>4 DEF RInv, Begun, Written, WriteFails, RestoreKilled
<1>5. CASE SlipsIn
  BY <1>1, <1>5 DEF RInv, Begun, SlipsIn
<1>6. CASE UNCHANGED rvars
  BY <1>1, <1>6 DEF RInv, Begun, rvars
<1> QED
  BY <1>2, <1>3, <1>4, <1>5, <1>6 DEF RestoreNext

(* The readable copy stays out of every synced folder the user did not     *)
(* name, is written only for a file that opens, and never over another     *)
(* file, for any folders: the sealed file's, the mirrors' and the home.    *)
THEOREM CopyStaysOut == RestoreSpec => []ReadableStaysOut
<1>1. RestoreInit => RInv
  BY DEF RestoreInit, RInv, Begun
<1>2. RInv => ReadableStaysOut
  BY RiskCovers DEF RInv, Begun, ReadableStaysOut
<1> QED
  BY <1>1, <1>2, RestoreStep, PTL DEF RestoreSpec
=============================================================================
