--------------------------- MODULE ModelDownload ---------------------------
(***************************************************************************)
(* The download of the model's files (src/src/embed.rs), by processes that *)
(* may be killed at any point, from a network that fails, while a user     *)
(* may be saving one of the files by hand.                                 *)
(*                                                                         *)
(* A process lists the missing files under a lock that every process of    *)
(* the machine shares, sorts out what earlier runs left of each, resumes   *)
(* or restarts it, checks it, and renames it into place.  A staging file   *)
(* carries the process id of its writer; a process that is killed leaves   *)
(* it, and its id may be given to another.                                 *)
(*                                                                         *)
(* Abstractions.  A file is a sequence of pieces, each right or not; the   *)
(* right file is `Right`.  An absent and an empty staging file are the     *)
(* same.  What curl would still send after its parent's death goes to a    *)
(* closed pipe, so it is left out.                                         *)
(***************************************************************************)
EXTENDS Integers, Sequences

CONSTANTS
  Procs,
  Hand,      \* the plain name.part, saved by hand
  Free,    \* nobody holds the lock
  NFiles,    \* the files of FILES, in order
  Size,      \* pieces of a file
  MaxKills,  \* bound: processes that die
  MaxFaults, \* bound: failures of the network and of the disk
  MaxHand    \* bound: files the user saves

ASSUME DownloadAssumption ==
  /\ Hand \notin Procs /\ Free \notin Procs \cup {Hand}
  /\ {"gone", "final"} \cap (Procs \cup {Hand}) = {}
  /\ {NFiles, Size} \subseteq Nat \ {0}
  /\ {MaxKills, MaxFaults, MaxHand} \subseteq Nat

VARIABLES
  final,  \* each file at its final name
  parts,  \* the staging files of each, by the name they carry
  saving, \* the user's browser: the file, where it is now, how far it got
  dlock,  \* the holder of the download lock
  disabled, \* semantic=off
  proc,   \* what each process is doing
  resaved, \* history: files saved by hand after the check, before the rename
  kills, faults, hands

disk   == <<final, parts, saving>>
counts == <<kills, faults, hands, resaved>>
dvars  == <<disk, dlock, disabled, proc, counts>>

Files == 1 .. NFiles
Names == Procs \cup {Hand}
Text  == UNION {[1 .. n -> BOOLEAN] : n \in 0 .. Size + 1}
Right == [i \in 1 .. Size |-> TRUE]

Idle   == [at |-> "idle", todo |-> {}, part |-> Hand, pos |-> 0]
NoSave == [file |-> 1, at |-> "gone", off |-> Size]

Proc == [at : {"idle", "wait", "list", "stage", "check", "open", "curl",
               "verify", "promote"},
         todo : SUBSET Files, part : Names, pos : 0 .. Size]

(* The types; only the holder of the lock has work in hand.                *)
DTypeOK ==
  /\ final \in [Files -> Text]
  /\ parts \in [Files -> [Names -> Text]]
  /\ saving \in [file : Files, at : Names \cup {"gone", "final"},
                 off : 0 .. Size]
  /\ dlock \in Procs \cup {Free}
  /\ disabled \in BOOLEAN
  /\ proc \in [Procs -> Proc]
  /\ \A p \in Procs : (proc[p].at \in {"idle", "wait"}) <=> dlock # p
  /\ kills \in 0 .. MaxKills /\ faults \in 0 .. MaxFaults
  /\ hands \in 0 .. MaxHand /\ resaved \subseteq Files

DInit ==
  /\ final = [f \in Files |-> <<>>]
  /\ parts = [f \in Files |-> [n \in Names |-> <<>>]]
  /\ saving = NoSave
  /\ dlock = Free /\ disabled \in BOOLEAN
  /\ proc = [p \in Procs |-> Idle]
  /\ kills = 0 /\ faults = 0 /\ hands = 0 /\ resaved = {}

-----------------------------------------------------------------------------
(* The files.                                                              *)

Sized(f)      == Len(final[f]) = Size
Missing       == {f \in Files : ~Sized(f)}
ModelReady    == Missing = {}
Verified(txt) == txt = Right

At(p, at) == proc[p].at = at
Current(p) == CHOOSE f \in proc[p].todo : \A g \in proc[p].todo : f <= g
Own(p) == parts[Current(p)][p]

(* A file changes under one of its names; the browser writes on into the   *)
(* file it opened, whatever its name has become.                           *)
SetParts(f, names) == parts' = [parts EXCEPT ![f] = names]
Write(f, n, txt)   == SetParts(f, [parts[f] EXCEPT ![n] = txt])
Moves(f, from, to) ==
  saving' = IF saving.file = f /\ saving.at \in from
            THEN [saving EXCEPT !.at = to] ELSE saving
Unlink(f, n) == Write(f, n, <<>>) /\ Moves(f, {n}, "gone")

Step(p, r) == proc' = [proc EXCEPT ![p] = r]
Goto(p, at) == Step(p, [proc[p] EXCEPT !.at = at])
Return(p) == Step(p, Idle) /\ dlock' = Free
NextFile(p) ==
  LET rest == proc[p].todo \ {Current(p)}
  IN  IF rest = {} THEN Return(p)
      ELSE Step(p, [proc[p] EXCEPT !.at = "stage", !.todo = rest])
           /\ UNCHANGED dlock
Fault == /\ faults < MaxFaults /\ faults' = faults + 1
         /\ UNCHANGED <<kills, hands, resaved>>

-----------------------------------------------------------------------------
(* The lock, and what is missing once it is held.                          *)

EnsureModel(p) ==
  /\ At(p, "idle") /\ Missing # {} /\ ~disabled
  /\ Goto(p, "wait")
  /\ UNCHANGED <<disk, dlock, disabled, counts>>

DownloadLock(p) ==
  /\ At(p, "wait") /\ dlock = Free
  /\ dlock' = p
  /\ Goto(p, "list")
  /\ UNCHANGED <<disk, disabled, counts>>

LockTimesOut(p) ==
  /\ At(p, "wait") /\ dlock # Free
  /\ Step(p, Idle)
  /\ UNCHANGED <<disk, dlock, disabled, counts>>

List(p) ==
  /\ At(p, "list")
  /\ IF Missing = {} THEN Return(p)
     ELSE Step(p, [proc[p] EXCEPT !.at = "stage", !.todo = Missing])
          /\ UNCHANGED dlock
  /\ UNCHANGED <<disk, disabled, counts>>

-----------------------------------------------------------------------------
(* One file: the leftovers, the transfer, the checksum, the rename.        *)

Leftovers(f) == {n \in Names : parts[f][n] # <<>>}

(* Mutant: a leftover longer than the file is kept too.                    *)
ResumableAny(f) == Leftovers(f)

Resumable(f) == {n \in Leftovers(f) : Len(parts[f][n]) <= Size}
Biggest(f) == {n \in Resumable(f) :
                 \A m \in Resumable(f) : Len(parts[f][m]) <= Len(parts[f][n])}

OnlyPart(f, n, txt) ==
  SetParts(f, [m \in Names |-> IF m = n THEN txt ELSE <<>>])

StageLeftover(p, f) ==
  \E n \in Biggest(f) :
    LET txt == parts[f][n]
    IN  IF Len(txt) = Size
        THEN /\ OnlyPart(f, n, txt) /\ Moves(f, Names \ {n}, "gone")
             /\ Step(p, [proc[p] EXCEPT !.at = "check", !.part = n])
             /\ UNCHANGED counts
        ELSE /\ \/ /\ OnlyPart(f, p, txt)
                   /\ saving' = CASE saving.file # f \/ saving.at \notin Names -> saving
                                  [] saving.at = n -> [saving EXCEPT !.at = p]
                                  [] OTHER -> [saving EXCEPT !.at = "gone"]
                   /\ UNCHANGED counts
                \/ /\ n # p /\ Fault
                   /\ OnlyPart(f, p, <<>>) /\ Moves(f, Names, "gone")
             /\ Step(p, [proc[p] EXCEPT !.at = "open", !.part = p])

Stage(p) ==
  /\ At(p, "stage")
  /\ LET f == Current(p)
     IN  \/ /\ Sized(f)
            /\ NextFile(p) /\ UNCHANGED <<parts, saving, counts>>
         \/ /\ ~Sized(f) /\ Biggest(f) = {}
            /\ OnlyPart(f, p, <<>>) /\ Moves(f, Names, "gone")
            /\ Step(p, [proc[p] EXCEPT !.at = "open", !.part = p])
            /\ UNCHANGED <<dlock, counts>>
         \/ /\ ~Sized(f) /\ StageLeftover(p, f) /\ UNCHANGED dlock
  /\ UNCHANGED <<final, disabled>>

(* Mutant: a leftover of full length is taken as it is.                    *)
CheckLeftoverNot(p) ==
  /\ At(p, "check")
  /\ Goto(p, "promote")
  /\ UNCHANGED <<disk, dlock, disabled, counts>>

(* A leftover of full length is checked before anything is fetched.        *)
CheckLeftover(p) ==
  /\ At(p, "check")
  /\ LET f == Current(p)
         n == proc[p].part
     IN  IF Verified(parts[f][n])
         THEN Goto(p, "promote") /\ UNCHANGED <<parts, saving>>
         ELSE /\ Unlink(f, n)
              /\ Step(p, [proc[p] EXCEPT !.at = "open", !.part = p])
  /\ UNCHANGED <<final, dlock, disabled, counts>>

(* The transfer resumes at the staging file's length; a request past the   *)
(* end of the file is refused.                                             *)
Connect(p) ==
  /\ At(p, "open")
  /\ IF Len(Own(p)) < Size
     THEN Step(p, [proc[p] EXCEPT !.at = "curl", !.pos = Len(Own(p))])
          /\ UNCHANGED dlock
     ELSE Return(p)
  /\ UNCHANGED <<disk, disabled, counts>>

Append1(f, n, ok) == Write(f, n, Append(parts[f][n], ok))

Receive(p) ==
  /\ At(p, "curl") /\ proc[p].pos < Size
  /\ LET k == Len(Own(p)) + 1
     IN  /\ k <= Size + 1
         /\ \/ Append1(Current(p), p, k = proc[p].pos + 1) /\ UNCHANGED counts
            \/ Append1(Current(p), p, FALSE) /\ Fault
  /\ Step(p, [proc[p] EXCEPT !.pos = @ + 1])
  /\ UNCHANGED <<final, saving, dlock, disabled>>

Overrun(p) ==
  /\ At(p, "curl") /\ proc[p].pos = Size /\ Fault
  /\ Unlink(Current(p), p)
  /\ Return(p)
  /\ UNCHANGED <<final, disabled>>

(* The curl command fails, the disk is full, or the file cannot be opened: *)
(* the part stays.                                                         *)
Breaks(p) ==
  /\ proc[p].at \in {"open", "curl", "promote"} /\ Fault
  /\ Return(p)
  /\ UNCHANGED <<disk, disabled>>

CurlEnds(p) ==
  /\ At(p, "curl")
  /\ \/ proc[p].pos = Size /\ UNCHANGED counts
     \/ proc[p].pos < Size /\ Fault
  /\ Goto(p, "verify")
  /\ UNCHANGED <<disk, dlock, disabled>>

Verify(p) ==
  /\ At(p, "verify")
  /\ IF Verified(Own(p)) THEN Goto(p, "promote") /\ UNCHANGED <<parts, saving, dlock>>
     ELSE Unlink(Current(p), p) /\ Return(p)
  /\ UNCHANGED <<final, disabled, counts>>

Promote(p) ==
  /\ At(p, "promote")
  /\ LET f == Current(p)
         n == proc[p].part
     IN  /\ final' = [final EXCEPT ![f] = parts[f][n]]
         /\ Write(f, n, <<>>) /\ Moves(f, {n}, "final")
         /\ NextFile(p)
  /\ UNCHANGED <<disabled, counts>>

Dies(p) ==
  /\ ~At(p, "idle") /\ kills < MaxKills
  /\ kills' = kills + 1
  /\ Step(p, Idle)
  /\ dlock' = IF dlock = p THEN Free ELSE dlock
  /\ UNCHANGED <<disk, disabled, faults, hands, resaved>>

-----------------------------------------------------------------------------
(* The user.                                                               *)

Toggle ==
  /\ disabled' = ~disabled
  /\ UNCHANGED <<disk, dlock, proc, counts>>

(* The name is checked and will be renamed next.                           *)
JustChecked(f) == \E p \in Procs : At(p, "promote") /\ Current(p) = f /\ proc[p].part = Hand

Used(f) ==
  /\ hands < MaxHand /\ hands' = hands + 1
  /\ resaved' = resaved \cup {g \in {f} : JustChecked(g)}
  /\ UNCHANGED <<kills, faults>>

(* A file, the right one or not, is saved under the .part name at once.    *)
DropPart(f) ==
  /\ Used(f)
  /\ \E txt \in Text \ {<<>>} : Write(f, Hand, txt)
  /\ Moves(f, {Hand}, "gone")
  /\ UNCHANGED <<final, dlock, disabled, proc>>

(* A browser starts to save the file there, and goes on piece by piece.    *)
StartSaving(f) ==
  /\ Used(f)
  /\ Write(f, Hand, <<>>)
  /\ saving' = [file |-> f, at |-> Hand, off |-> 0]
  /\ UNCHANGED <<final, dlock, disabled, proc>>

PutPiece(txt, k) == IF k <= Len(txt) THEN [txt EXCEPT ![k] = TRUE]
                    ELSE Append(txt, TRUE)

KeepSaving ==
  LET f == saving.file
      k == saving.off + 1
  IN  /\ k <= Size
      /\ saving' = [saving EXCEPT !.off = k]
      /\ parts' = IF saving.at \in Names
                  THEN [parts EXCEPT ![f][saving.at] = PutPiece(@, k)] ELSE parts
      /\ final' = IF saving.at = "final"
                  THEN [final EXCEPT ![f] = PutPiece(@, k)] ELSE final
      /\ UNCHANGED <<dlock, disabled, proc, counts>>

Advance(p) == \/ DownloadLock(p) \/ List(p) \/ Stage(p) \/ CheckLeftover(p)
              \/ Connect(p) \/ Receive(p) \/ CurlEnds(p) \/ Verify(p) \/ Promote(p)

DNext ==
  \/ \E p \in Procs : \/ EnsureModel(p) \/ LockTimesOut(p) \/ Advance(p)
                      \/ Overrun(p) \/ Breaks(p) \/ Dies(p)
  \/ \E f \in Files : DropPart(f) \/ StartSaving(f)
  \/ KeepSaving \/ Toggle

(* Someone asks for the model again and again, and a process that is not   *)
(* killed goes on; the user and the faults owe nothing.                    *)
DFairness == \A p \in Procs : WF_dvars(EnsureModel(p)) /\ WF_dvars(Advance(p))

DSpec == DInit /\ [][DNext]_dvars
FairDSpec == DSpec /\ DFairness

-----------------------------------------------------------------------------
(* What is at a final name has been checked and is the right file, whoever *)
(* wrote to it on the way: a killed run, a recycled id, the user's browser *)
(* ("everything renamed into place is checksummed", embed.rs:534); unless  *)
(* the user saved another between the check and the rename.                *)
LoadedIsRight == \A f \in Files \ resaved : final[f] # <<>> => final[f] = Right

(* With indexing left on, the model arrives: no leftover, short, overlong  *)
(* or wrong, whoever left it, blocks the runs that follow for good.        *)
ModelArrives == <>[]~disabled => <>[]ModelReady
=============================================================================
