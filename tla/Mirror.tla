------------------------------- MODULE Mirror -------------------------------
(***************************************************************************)
(* Backups: the local snapshots, their retention, and the copy of the      *)
(* latest in a synced folder (src/src/backup.rs), for processes that run   *)
(* at the same time: the end of a session, the backup command, and setup.  *)
(*                                                                         *)
(* A process removes readable copies from the folders at risk, takes a     *)
(* snapshot unless one is recent, drops the old ones, and writes the       *)
(* mirror: in the clear, or sealed when a passphrase is configured.  The   *)
(* folder may be named by the environment and by the config; "none" in     *)
(* either turns the mirror off.  A synced folder changes by itself: files  *)
(* are evicted, and removed ones come back.                                *)
(*                                                                         *)
(* Abstractions.  A snapshot is the second in its name.  The passphrase is *)
(* the config's: that of the environment would only outrank it.  A         *)
(* temporary file is opaque until SQLite's header is in it, and sealed     *)
(* files stay so.  Local temporary files, which nothing reads, and evicted *)
(* temporary files are left out, and so is the log.                        *)
(***************************************************************************)
EXTENDS Integers, FiniteSets

CONSTANTS
  Procs,
  Hooks,       \* those that are hooks; the others are the user's commands
  Nobody,      \* owner of a file whose process has died
  Folders,
  Unset, Off,  \* no folder is named; "none" is
  Envs,        \* what SUBROSA_MIRROR may be in a process
  Keeps,       \* how many snapshots a process may be asked to keep
  DefaultKeep, \* DEFAULT_KEEP, 7 in the code
  MaxClock     \* bound: seconds in which snapshots are taken

ASSUME ConstantsAssumption ==
  /\ Nobody \notin Procs /\ Hooks \subseteq Procs
  /\ Unset # Off /\ {Unset, Off} \cap Folders = {}
  /\ Envs \subseteq Folders \cup {Unset, Off}
  /\ Keeps \subseteq Nat \ {0} /\ DefaultKeep \in Keeps
  /\ MaxClock \in Nat \ {0}

VARIABLES
  clock,    \* the current second
  snaps,    \* the snapshots in the backups directory
  aged,     \* those last written 24 hours ago or more
  named,    \* mirror in the config
  pass,     \* mirror_passphrase in the config
  broken,   \* the config cannot be read
  plain,    \* readable copies in a folder: the file, its placeholder
  sealed,   \* a sealed copy, or its placeholder, is in a folder
  tmps,     \* temporary files in a folder
  proc      \* what each process is doing

local  == <<clock, snaps, aged>>
config == <<named, pass, broken>>
cloud  == <<plain, sealed, tmps>>
vars   == <<local, config, cloud, proc>>

Names == Folders \cup {Unset, Off}
Keys  == {"none", "set", "error"}
Tmp   == [owner : Procs \cup {Nobody}, kind : {"opaque", "plain"},
          old : BOOLEAN]

Proc == [at : {"idle", "ask", "purge", "tmps", "open", "look", "copy", "list",
               "drop", "write", "fill", "publish", "cleanup", "stale"},
         phase : {"entry", "backstop", "write", "after"},
         env : Names, force : BOOLEAN, use : BOOLEAN, keep : Keeps,
         own : Names, key : Keys, todo : SUBSET Folders, dir : Names,
         dest : 0 .. MaxClock, drop : SUBSET (1 .. MaxClock),
         lapsed : BOOLEAN, bare : SUBSET Folders]

Idle == [at |-> "idle", phase |-> "entry", env |-> Unset, force |-> FALSE,
         use |-> FALSE, keep |-> DefaultKeep, own |-> Unset, key |-> "error",
         todo |-> {}, dir |-> Unset, dest |-> 0, drop |-> {},
         lapsed |-> FALSE, bare |-> {}]

(* The types, and that a process has a temporary file only in the folder   *)
(* it writes to, and only while it writes.                                 *)
TypeOK ==
  /\ clock \in 1 .. MaxClock
  /\ snaps \subseteq 1 .. clock
  /\ aged \subseteq snaps
  /\ named \in Names
  /\ pass \in {"none", "set"}
  /\ broken \in BOOLEAN
  /\ plain \in [Folders -> SUBSET {"file", "evicted"}]
  /\ sealed \in [Folders -> BOOLEAN]
  /\ tmps \in [Folders -> SUBSET Tmp]
  /\ proc \in [Procs -> Proc]
  /\ \A d \in Folders : \A f \in tmps[d] : f.owner # Nobody =>
       /\ proc[f.owner].at \in {"fill", "publish", "cleanup"}
       /\ proc[f.owner].own = d

Init ==
  /\ clock = 1 /\ snaps = {} /\ aged = {}
  /\ named \in Names /\ pass \in {"none", "set"} /\ broken = FALSE
  /\ plain = [d \in Folders |-> {}]
  /\ sealed = [d \in Folders |-> FALSE]
  /\ tmps = [d \in Folders |-> {}]
  /\ proc = [p \in Procs |-> Idle]

-----------------------------------------------------------------------------
(* What the settings say.                                                  *)

Config == IF broken THEN Unset ELSE named
Key    == IF broken THEN "error" ELSE pass

AtRisk(env) == {env, Config} \cap Folders

Target(env) == IF Off \in {env, Config} THEN Off
               ELSE IF env = Unset THEN Config ELSE env

Intended(d, key) == key # "none" \/ sealed[d]

-----------------------------------------------------------------------------
(* How a process starts.  `lapsed` and `bare` are history: since it        *)
(* started there was a moment without passphrase, a moment without a       *)
(* sealed copy in the folder.                                              *)

At(p, at) == proc[p].at = at
Becomes(p, r) == proc' = [proc EXCEPT ![p] = r]
Goto(p, at) == Becomes(p, [proc[p] EXCEPT !.at = at])
Return(p) == Becomes(p, Idle)

Start(p, start) ==
  /\ At(p, "idle")
  /\ Becomes(p, [start EXCEPT !.lapsed = Key = "none",
                              !.bare = {d \in Folders : ~sealed[d]}])

Purging(r, phase) ==
  [r EXCEPT !.at = "purge", !.phase = phase, !.own = Target(r.env),
            !.key = Key, !.todo = AtRisk(r.env)]

SessionEnd(p) ==
  /\ p \in Hooks
  /\ \E env \in Envs :
       Start(p, Purging([Idle EXCEPT !.env = env, !.use = TRUE], "entry"))
  /\ UNCHANGED <<local, config, cloud>>

Backup(p) ==
  /\ p \notin Hooks
  /\ \E env \in Envs, force, use \in BOOLEAN, keep \in Keeps :
       LET asked == [Idle EXCEPT !.env = env, !.force = force, !.use = use,
                                 !.keep = keep]
       IN  Start(p, IF use THEN Purging(asked, "entry")
                    ELSE [asked EXCEPT !.at = "open"])
  /\ UNCHANGED <<local, config, cloud>>

(* Setup saves the folder, and asks for a passphrase if there is none.     *)
Setup(p) ==
  /\ p \notin Hooks /\ ~broken
  /\ \E env \in Envs, d \in Folders :
       /\ named' = d
       /\ Start(p, [Idle EXCEPT !.env = env, !.force = TRUE, !.use = TRUE,
                      !.at = IF pass = "none" THEN "ask" ELSE "open"])
  /\ UNCHANGED <<local, pass, broken, cloud>>

SetupNoMirror ==
  /\ ~broken
  /\ named' = Off
  /\ UNCHANGED <<local, pass, broken, cloud, proc>>

Decline(p) ==
  /\ At(p, "ask")
  /\ Goto(p, "open")
  /\ UNCHANGED <<local, config, cloud>>

Agree(p) ==
  /\ At(p, "ask")
  /\ ~broken
  /\ pass' = "set"
  /\ Goto(p, "open")
  /\ UNCHANGED <<local, named, broken, cloud>>

(* Asked for and not finished: the mirror goes off, if it can be saved.    *)
GiveUp(p) ==
  /\ At(p, "ask")
  /\ named' \in {named} \cup (IF broken THEN {} ELSE {Off})
  /\ Becomes(p, [proc[p] EXCEPT !.at = "open", !.use = FALSE])
  /\ UNCHANGED <<local, pass, broken, cloud>>

-----------------------------------------------------------------------------
(* Clearing a folder: the readable copy and its placeholder, then the      *)
(* temporary files that are readable or stale.                             *)

(* Mutant: only the folder that is written to is cleared.                  *)
ClearsOwn(r, d) == d = r.own /\ Intended(d, r.key)

Clears(r, d) == (d = r.own \/ sealed[d]) /\ Intended(d, r.key)

Remove(p) ==
  /\ At(p, "purge")
  /\ \E d \in proc[p].todo :
       /\ Clears(proc[p], d)
       /\ plain' = [plain EXCEPT ![d] = {}]
       /\ Becomes(p, [proc[p] EXCEPT !.at = "tmps", !.dir = d,
                                     !.todo = @ \ {d}])
  /\ UNCHANGED <<local, config, sealed, tmps>>

HandsOff(p) ==
  /\ At(p, "purge")
  /\ \E d \in proc[p].todo :
       /\ ~Clears(proc[p], d)
       /\ Becomes(p, [proc[p] EXCEPT !.todo = @ \ {d}])
  /\ UNCHANGED <<local, config, cloud>>

ClearTmps(p) ==
  /\ At(p, "tmps")
  /\ tmps' = [tmps EXCEPT ![proc[p].dir] =
                {f \in @ : f.kind = "opaque" /\ ~f.old}]
  /\ Becomes(p, [proc[p] EXCEPT !.at = "purge", !.dir = Unset])
  /\ UNCHANGED <<local, config, plain, sealed>>

(* A file that cannot be removed ends the clearing of its folder; while    *)
(* the mirror is written it ends that too.                                 *)
Abandon(p, todo) ==
  Becomes(p, [proc[p] EXCEPT
    !.at = IF proc[p].phase = "write" THEN "cleanup" ELSE "purge",
    !.dir = Unset, !.todo = todo])

ClearFails(p) ==
  /\ \/ /\ At(p, "tmps")
        /\ Abandon(p, proc[p].todo)
     \/ /\ At(p, "purge")
        /\ \E d \in proc[p].todo :
             Clears(proc[p], d) /\ Abandon(p, proc[p].todo \ {d})
  /\ UNCHANGED <<local, config, cloud>>

(* On to the next part; what was read for this one is dropped.             *)
Settle(p, at) ==
  Becomes(p, [proc[p] EXCEPT !.at = at, !.phase = "entry", !.own = Unset,
                             !.key = "error"])

Purged(p) ==
  /\ At(p, "purge")
  /\ proc[p].todo = {}
  /\ CASE proc[p].phase = "entry"    -> Settle(p, "open")
       [] proc[p].phase = "backstop" -> Settle(p, "look")
       [] proc[p].phase = "write"    -> Goto(p, "write")
       [] proc[p].phase = "after"    -> Goto(p, "stale")
  /\ UNCHANGED <<local, config, cloud>>

-----------------------------------------------------------------------------
(* Taking the snapshot, and dropping the old ones.                         *)

Open(p) ==
  /\ At(p, "open")
  /\ IF proc[p].use THEN Becomes(p, Purging(proc[p], "backstop"))
     ELSE Goto(p, "look")
  /\ UNCHANGED <<local, config, cloud>>

Recent == \E n \in snaps \ aged : \A m \in snaps : m <= n

Throttled(p) ==
  /\ At(p, "look")
  /\ ~proc[p].force /\ Recent
  /\ Return(p)
  /\ UNCHANGED <<local, config, cloud>>

Due(p) ==
  /\ At(p, "look")
  /\ proc[p].force \/ ~Recent
  /\ Becomes(p, [proc[p] EXCEPT !.at = "copy", !.force = FALSE,
                                !.dest = clock])
  /\ UNCHANGED <<local, config, cloud>>

Copy(p) ==
  /\ At(p, "copy")
  /\ snaps' = snaps \cup {proc[p].dest}
  /\ aged' = aged \ {proc[p].dest}
  /\ Goto(p, "list")
  /\ UNCHANGED <<clock, config, cloud>>

(* The archive does not open, or it stays locked for 30 seconds.           *)
NoCopy(p) ==
  /\ At(p, "open") \/ At(p, "copy")
  /\ Return(p)
  /\ UNCHANGED <<local, config, cloud>>

(* Mutant: one too many.                                                   *)
OlderByOne(keep) ==
  {n \in snaps : Cardinality({m \in snaps : m > n}) >= keep - 1}

(* All but the last `keep` of the sorted list.                             *)
Older(keep) == {n \in snaps : Cardinality({m \in snaps : m > n}) >= keep}

List(p) ==
  /\ At(p, "list")
  /\ Becomes(p, [proc[p] EXCEPT !.at = "drop", !.keep = DefaultKeep,
                                !.drop = Older(proc[p].keep)])
  /\ UNCHANGED <<local, config, cloud>>

(* The oldest first; a failure to remove one is ignored.                   *)
Drop(p) ==
  /\ At(p, "drop")
  /\ \E n \in proc[p].drop :
       /\ \A m \in proc[p].drop : n <= m
       /\ snaps' \in {snaps, snaps \ {n}}
       /\ Becomes(p, [proc[p] EXCEPT !.drop = @ \ {n}])
  /\ aged' = aged \cap snaps'
  /\ UNCHANGED <<clock, config, cloud>>

Dropped(p) ==
  /\ At(p, "drop")
  /\ proc[p].drop = {}
  /\ LET own == Target(proc[p].env)
     IN  IF proc[p].use /\ own \in Folders
         THEN Becomes(p, [proc[p] EXCEPT
                !.at = "purge", !.phase = "write", !.env = Unset,
                !.own = own, !.key = Key, !.todo = {own}])
         ELSE Return(p)
  /\ UNCHANGED <<local, config, cloud>>

-----------------------------------------------------------------------------
(* Writing the mirror: to a temporary file, which is renamed.              *)

Mine(p) == {f \in tmps[proc[p].own] : f.owner = p}

(* Mutant: a missing passphrase means a readable mirror.                   *)
RefusedUnreadable(p) == proc[p].key = "error"

(* An unusable passphrase, and a missing one beside a sealed copy, are no  *)
(* permission to publish in the clear.                                     *)
Refused(p) ==
  LET r == proc[p]
  IN  r.key = "error" \/ (r.key = "none" /\ sealed[r.own])

(* The snapshot may be gone: another process has dropped it.               *)
Refuse(p) ==
  /\ At(p, "write")
  /\ Refused(p) \/ proc[p].dest \notin snaps
  /\ Goto(p, "cleanup")
  /\ UNCHANGED <<local, config, cloud>>

Write(p) ==
  /\ At(p, "write")
  /\ ~Refused(p)
  /\ proc[p].dest \in snaps
  /\ tmps' = [tmps EXCEPT ![proc[p].own] =
                @ \cup {[owner |-> p, kind |-> "opaque", old |-> FALSE]}]
  /\ Goto(p, IF proc[p].key = "none" THEN "fill" ELSE "publish")
  /\ UNCHANGED <<local, config, plain, sealed>>

(* The copy in the clear gets its header; the file may have been removed   *)
(* under the process that writes it.                                       *)
Fill(p) ==
  /\ At(p, "fill")
  /\ tmps' = [tmps EXCEPT ![proc[p].own] =
                (@ \ Mine(p)) \cup
                {[f EXCEPT !.kind = "plain"] : f \in Mine(p)}]
  /\ Goto(p, "publish")
  /\ UNCHANGED <<local, config, plain, sealed>>

PublishPlain(p) ==
  /\ At(p, "publish")
  /\ proc[p].key = "none" /\ Mine(p) # {}
  /\ tmps' = [tmps EXCEPT ![proc[p].own] = @ \ Mine(p)]
  /\ plain' = [plain EXCEPT ![proc[p].own] = @ \cup {"file"}]
  /\ Goto(p, "stale")
  /\ UNCHANGED <<local, config, sealed>>

PublishSealed(p) ==
  /\ At(p, "publish")
  /\ proc[p].key = "set" /\ Mine(p) # {}
  /\ tmps' = [tmps EXCEPT ![proc[p].own] = @ \ Mine(p)]
  /\ sealed' = [sealed EXCEPT ![proc[p].own] = TRUE]
  /\ Becomes(p, [proc[p] EXCEPT !.at = "purge", !.phase = "after",
                                !.todo = {proc[p].own}])
  /\ UNCHANGED <<local, config, plain>>

(* A write or a rename fails: always when the file is gone, and the copy,  *)
(* the disk or the network may fail at any step.                           *)
MirrorFails(p) ==
  /\ At(p, "write") \/ At(p, "fill") \/ At(p, "publish")
  /\ Goto(p, "cleanup")
  /\ UNCHANGED <<local, config, cloud>>

(* Either way the stale temporary files go, and after a failure its own.   *)
SweepStale(p) ==
  /\ At(p, "cleanup") \/ At(p, "stale")
  /\ tmps' = [tmps EXCEPT ![proc[p].own] = {f \in @ \ Mine(p) : ~f.old}]
  /\ Return(p)
  /\ UNCHANGED <<local, config, plain, sealed>>

-----------------------------------------------------------------------------
(* The user, the sync client, and time.                                    *)

Noted(r) ==
  IF r.at = "idle" THEN r
  ELSE [r EXCEPT !.lapsed = @ \/ Key' = "none",
                 !.bare = @ \cup {d \in Folders : ~sealed'[d]}]

(* The user edits the config, or its permissions.                          *)
Edit ==
  /\ named' \in Names /\ pass' \in {"none", "set"} /\ broken' \in BOOLEAN
  /\ UNCHANGED <<local, cloud>>
  /\ proc' = [p \in Procs |-> Noted(proc[p])]

(* Disabling encryption: the user deletes the sealed copy.                 *)
DeleteSealed ==
  /\ \E d \in Folders : sealed' = [sealed EXCEPT ![d] = FALSE]
  /\ UNCHANGED <<local, config, plain, tmps>>
  /\ proc' = [p \in Procs |-> Noted(proc[p])]

Evict ==
  /\ \E d \in Folders :
       /\ "file" \in plain[d]
       /\ plain' = [plain EXCEPT ![d] = (@ \ {"file"}) \cup {"evicted"}]
  /\ UNCHANGED <<local, config, sealed, tmps, proc>>

Reappear ==
  /\ \E d \in Folders : plain' = [plain EXCEPT ![d] = @ \cup {"file"}]
  /\ UNCHANGED <<local, config, sealed, tmps, proc>>

Tick ==
  /\ clock < MaxClock
  /\ clock' = clock + 1
  /\ UNCHANGED <<snaps, aged, config, cloud, proc>>

Day ==
  /\ \E n \in snaps : aged' = aged \cup {m \in snaps : m <= n}
  /\ UNCHANGED <<clock, snaps, config, cloud, proc>>

(* An hour after a file was last written, its process alive or not.        *)
Hour ==
  /\ \E d \in Folders : \E f \in tmps[d] :
       tmps' = [tmps EXCEPT ![d] = (@ \ {f}) \cup {[f EXCEPT !.old = TRUE]}]
  /\ UNCHANGED <<local, config, plain, sealed, proc>>

(* A process dies; its temporary file stays.                               *)
Kill(p) ==
  /\ ~At(p, "idle")
  /\ tmps' = [d \in Folders |->
       {IF f.owner = p THEN [f EXCEPT !.owner = Nobody] ELSE f :
          f \in tmps[d]}]
  /\ Return(p)
  /\ UNCHANGED <<local, config, plain, sealed>>

-----------------------------------------------------------------------------

Answer(p) == Decline(p) \/ Agree(p) \/ GiveUp(p)

Clearing(p) == Remove(p) \/ ClearTmps(p)

Steps(p) ==
  \/ Answer(p) \/ HandsOff(p) \/ Purged(p) \/ Open(p) \/ Throttled(p)
  \/ Due(p) \/ Copy(p) \/ NoCopy(p) \/ List(p) \/ Drop(p) \/ Dropped(p)
  \/ Refuse(p) \/ Write(p) \/ Fill(p) \/ PublishPlain(p)
  \/ PublishSealed(p) \/ MirrorFails(p) \/ SweepStale(p)

Process(p) ==
  SessionEnd(p) \/ Clearing(p) \/ ClearFails(p) \/ Steps(p)

(* What does not happen by itself: commands of the user among it.          *)
World ==
  \/ \E p \in Procs : Backup(p) \/ Setup(p) \/ Kill(p)
  \/ SetupNoMirror \/ Edit \/ DeleteSealed \/ Evict \/ Reappear
  \/ Tick \/ Day \/ Hour

Next == World \/ \E p \in Procs : Process(p)

Spec == Init /\ [][Next]_vars

(* Sessions keep ending; a process that runs, runs on, and a prompt is     *)
(* answered; a file is not refused to be removed every time.               *)
Fairness ==
  \A p \in Procs :
    /\ p \in Hooks => WF_vars(SessionEnd(p))
    /\ WF_vars(Steps(p) \/ ClearFails(p) \/ Clearing(p))
    /\ SF_vars(Remove(p))
    /\ SF_vars(ClearTmps(p))

-----------------------------------------------------------------------------

(* The snapshot directory never goes back: each step leaves a snapshot at  *)
(* least as new as every one there was, although processes list and drop   *)
(* while others add (backup.rs 114-119).                                   *)
NewestKept ==
  [][\A n \in snaps : \E m \in snaps' : m >= n]_vars

(* "Never silently downgrade" (backup.rs 175): a process has a readable    *)
(* copy in a folder only if, since it started, there was a moment without  *)
(* passphrase and a moment without a sealed copy in that folder.           *)
NeverDowngraded ==
  \A d \in Folders : \A f \in tmps[d] :
    f.kind = "plain" /\ f.owner # Nobody =>
      proc[f.owner].lapsed /\ d \in proc[f.owner].bare

Readable(d) ==
  plain[d] # {} \/ \E f \in tmps[d] : f.kind = "plain"

(* "Nothing readable may sit in the synced folder" (backup.rs 198): beside *)
(* a sealed copy that stays, in a folder the config keeps naming, there is *)
(* in the end no readable one, whatever died, raced or came back before.   *)
FinallySealed ==
  \A d \in Folders :
    <>[](sealed[d] /\ named = d /\ ~broken) => <>[]~Readable(d)
=============================================================================
