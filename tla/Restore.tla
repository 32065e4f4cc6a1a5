------------------------------- MODULE Restore -------------------------------
(***************************************************************************)
(* Opening a sealed snapshot of the mirror (restore in src/src/crypt.rs):  *)
(* the sealed file is read and opened, the folder the readable copy would  *)
(* land in is compared with the folders that are synced, and the copy is   *)
(* written to a file that must not exist yet.                              *)
(*                                                                         *)
(* Abstractions.  A folder is its resolved path, a sequence of names.  The *)
(* header checks, the key derivation and the cipher are one question: does *)
(* this passphrase open this file.                                         *)
(***************************************************************************)
EXTENDS Integers, Sequences
LOCAL Seqs == INSTANCE SequencesExt

CONSTANTS
  Dirs,        \* resolved paths
  Home,        \* the home folder
  Subrosa,     \* the name setup gives a mirror folder
  Unresolved

VARIABLES
  ask,     \* what was asked: folders, passphrase, what the file is
  target,  \* the file the copy is written to
  step,    \* where restore is
  foreign  \* history: somebody else wrote the target

rvars == <<ask, target, step, foreign>>

RestoreInit ==
  /\ ask \in [input : Dirs, out : Dirs \cup {Unresolved}, explicit : BOOLEAN,
              roots : {{}} \cup {{f} : f \in Dirs} \cup {{f, Home} : f \in Dirs},
              blob : {"sealed", "damaged", "nodatabase"}, opens : BOOLEAN]
  /\ ask.blob # "sealed" => ask.opens
  /\ target \in {"absent", "other"}
  /\ foreign = (target = "other")
  /\ step = "decide"

Parent(f) == SubSeq(f, 1, Len(f) - 1)
Inside(f, root) == Seqs!IsPrefix(root, f)

(* Mutant: only the mirror folder itself counts, not its cloud folder.     *)
near_folder(dir, root) == Inside(dir, root) \/ (root # <<>> /\ Parent(root) = dir)

near(dir, root) ==
  IF root # <<>> /\ root[Len(root)] = Subrosa /\ Parent(root) # Home
  THEN Inside(dir, Parent(root))
  ELSE Inside(dir, root) \/ (root # <<>> /\ Parent(root) = dir)

(* A folder that cannot be resolved counts as risky.                       *)
synced_folder_risk(dir, input, roots) ==
  dir # Unresolved =>
    \/ dir = input \/ near(dir, input)
    \/ \E m \in roots : dir = m \/ near(dir, m)

Opened == ask.blob = "sealed" /\ ask.opens

Turned(why) ==
  /\ step = "decide" /\ why
  /\ step' = "refused"
  /\ UNCHANGED <<ask, target, foreign>>

Risky == synced_folder_risk(ask.out, ask.input, ask.roots)

Decide ==
  \/ Turned(~Opened)
  \/ Turned(Opened /\ Risky /\ ~ask.explicit)
  \/ /\ step = "decide" /\ Opened
     /\ Risky => ask.explicit
     /\ step' = "create"
     /\ UNCHANGED <<ask, target, foreign>>

(* An explicit folder that is not there fails here.                        *)
Create ==
  /\ step = "create"
  /\ IF target # "absent" \/ ask.out = Unresolved
     THEN step' = "refused" /\ UNCHANGED target
     ELSE step' = "write" /\ target' = "partial"
  /\ UNCHANGED <<ask, foreign>>

Written ==
  /\ step = "write"
  /\ target' = "readable" /\ step' = "done"
  /\ UNCHANGED <<ask, foreign>>

WriteFails ==
  /\ step = "write"
  /\ target' = "absent" /\ step' = "refused"
  /\ UNCHANGED <<ask, foreign>>

RestoreKilled ==
  /\ step \in {"decide", "create", "write"}
  /\ step' = "killed"
  /\ UNCHANGED <<ask, target, foreign>>

(* Somebody else creates the file meanwhile.                               *)
SlipsIn ==
  /\ target = "absent"
  /\ target' = "other" /\ foreign' = TRUE
  /\ UNCHANGED <<ask, step>>

RestoreNext == Decide \/ Create \/ Written \/ WriteFails \/ RestoreKilled \/ SlipsIn
RestoreSpec == RestoreInit /\ [][RestoreNext]_rvars

-----------------------------------------------------------------------------
(* The folders a sync client carries away with a mirror folder: below the  *)
(* cloud root setup put it in, or else below the folder itself.            *)
Synced(root) ==
  {f \in Dirs :
     Inside(f, IF root # <<>> /\ root[Len(root)] = Subrosa /\ Parent(root) # Home
               THEN Parent(root) ELSE root)}

(* Unless the user named the place, no readable byte lands in a folder     *)
(* that is synced with the sealed copy or with any mirror that was ever    *)
(* named (crypt.rs:217); nothing is written for a file that does not open; *)
(* and a file that is there, or slips in meanwhile, is never written over  *)
(* or removed.                                                             *)
ReadableStaysOut ==
  /\ target \in {"partial", "readable"} =>
       /\ Opened
       /\ ~ask.explicit =>
            \A root \in ask.roots \cup {ask.input} : ask.out \notin Synced(root)
  /\ foreign => target = "other"
=============================================================================
