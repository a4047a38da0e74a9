----------------------------- MODULE ConfigWrite -----------------------------
(***************************************************************************)
(* Writing a reviewed proposal into the configuration file (write_proposal *)
(* and durable_write in src/src/configurator.rs), by several processes and *)
(* beside people who edit the file without taking its lock.                *)
(*                                                                         *)
(* A proposal carries the contents it was made from (base), the contents   *)
(* it will write (result) and the inventory it was shown with.  Comparing  *)
(* hashes is comparing contents.  A missing file and an empty one are the  *)
(* same to the writer; permissions and directory creation are part of the  *)
(* failures a step may have.                                               *)
(***************************************************************************)
EXTENDS Naturals

CONSTANTS
  Writers,     \* processes that write proposals
  Proposals,   \* the proposals there can be
  NoOne,       \* no process, no proposal
  Missing,     \* there is no configuration file
  Torn,        \* a backup that is being copied, or whose copy was cut off
  HandEdits    \* contents people save with an editor of their own

ASSUME WriterAssumption == NoOne \notin Writers \cup Proposals

VARIABLES
  file,       \* contents of the configuration file, or Missing
  backup,     \* contents of the .bak file beside it, or Missing
  fileLock,   \* the writer holding the .lock file, or NoOne
  stage,      \* [Writers -> where write_proposal stands]
  job,        \* [Writers -> the proposal being written, or NoOne]
  raced       \* history: somebody edited the file while the lock was held

writeVars == <<file, backup, fileLock, stage, job, raced>>

Stages == {"rest", "checked", "compared", "copying", "copied", "replaced"}
Locked == Stages \ {"rest", "checked"}

WriteInit ==
  /\ file \in HandEdits \cup {Missing}
  /\ backup = Missing
  /\ fileLock = NoOne
  /\ stage = [w \in Writers |-> "rest"]
  /\ job = [w \in Writers |-> NoOne]
  /\ raced = FALSE

\* Mutant: the lock is not given back.
EndsLocked(w) ==
  /\ stage' = [stage EXCEPT ![w] = "rest"]
  /\ job' = [job EXCEPT ![w] = NoOne]
  /\ UNCHANGED <<fileLock, raced>>

\* The writer returns, with or without an error, and drops the lock if it had it.
Ends(w) ==
  /\ stage' = [stage EXCEPT ![w] = "rest"]
  /\ job' = [job EXCEPT ![w] = NoOne]
  /\ fileLock' = IF fileLock = w THEN NoOne ELSE fileLock
  /\ raced' = (raced /\ fileLock # w)

\* The first comparisons, before any lock: the inventory and the source.
BeginWrite(w, proposal, inventory) ==
  /\ stage[w] = "rest"
  /\ IF inventory = proposal.inventory /\ file = proposal.base
     THEN /\ stage' = [stage EXCEPT ![w] = "checked"]
          /\ job' = [job EXCEPT ![w] = proposal]
     ELSE UNCHANGED <<stage, job>>
  /\ UNCHANGED <<file, backup, fileLock, raced>>

\* Mutant: the source is not read again under the lock.
LockAndTrust(w) ==
  /\ stage[w] = "checked"
  /\ fileLock = NoOne
  /\ fileLock' = w
  /\ stage' = [stage EXCEPT ![w] = "compared"]
  /\ UNCHANGED <<file, backup, job, raced>>

\* lock_exclusive, then the source is read and compared once more.
LockAndCompare(w) ==
  /\ stage[w] = "checked"
  /\ fileLock = NoOne
  /\ IF file = job[w].base
     THEN /\ fileLock' = w
          /\ stage' = [stage EXCEPT ![w] = "compared"]
          /\ UNCHANGED <<job, raced>>
     ELSE Ends(w)
  /\ UNCHANGED <<file, backup>>

\* fs::copy opens the file and empties the old backup.  A file that did not
\* exist has none; one that has gone since the comparison is an error.
StartCopy(w) ==
  /\ stage[w] = "compared"
  /\ \/ /\ job[w].base = Missing
        /\ stage' = [stage EXCEPT ![w] = "copied"]
        /\ UNCHANGED <<backup, fileLock, job, raced>>
     \/ /\ job[w].base # Missing
        /\ file # Missing
        /\ stage' = [stage EXCEPT ![w] = "copying"]
        /\ backup' = Torn
        /\ UNCHANGED <<fileLock, job, raced>>
     \/ /\ job[w].base # Missing
        /\ file = Missing
        /\ Ends(w)
        /\ UNCHANGED backup
  /\ UNCHANGED file

\* What is copied is the file that was opened, or what an edit in place has made
\* of it since.
FinishCopy(w) ==
  /\ stage[w] = "copying"
  /\ backup' \in {file, job[w].base} \ {Missing}
  /\ stage' = [stage EXCEPT ![w] = "copied"]
  /\ UNCHANGED <<file, fileLock, job, raced>>

\* The complete temporary file takes the place of the old one.
Replace(w) ==
  /\ stage[w] = "copied"
  /\ file' = job[w].result
  /\ stage' = [stage EXCEPT ![w] = "replaced"]
  /\ UNCHANGED <<backup, fileLock, job, raced>>

FinishWrite(w) ==
  /\ stage[w] = "replaced"
  /\ Ends(w)
  /\ UNCHANGED <<file, backup>>

\* An input or output error, or the death of the process: the kernel drops the
\* lock.  Permissions and directory are synced after the rename, so a write can
\* be reported as failed although the file has been replaced.
BreakWrite(w) ==
  /\ stage[w] # "rest"
  /\ Ends(w)
  /\ UNCHANGED <<file, backup>>

\* People do not take the lock, and may remove the file.
HandEdit ==
  /\ file' \in HandEdits
  /\ raced' = (fileLock # NoOne)
  /\ UNCHANGED <<backup, fileLock, stage, job>>

WriterStep(w) ==
  LockAndCompare(w) \/ StartCopy(w) \/ FinishCopy(w) \/ Replace(w) \/ FinishWrite(w)

WriteNext ==
  \/ \E w \in Writers :
       \/ \E p \in Proposals, q \in Proposals : BeginWrite(w, p, q.inventory)
       \/ WriterStep(w)
       \/ BreakWrite(w)
  \/ HandEdit

WriteSpec == WriteInit /\ [][WriteNext]_writeVars

-----------------------------------------------------------------------------
(* Properties *)

WriteTypeOK ==
  /\ fileLock \in Writers \cup {NoOne}
  /\ stage \in [Writers -> Stages]
  /\ job \in [Writers -> Proposals \cup {NoOne}]
  /\ raced \in BOOLEAN

\* What makes the write safe: whoever is past the comparison holds the lock, and
\* until somebody edits the file by hand it is what was compared and, once
\* copied, what the backup holds.
WriteInv ==
  /\ fileLock = NoOne => ~raced
  /\ fileLock # NoOne => stage[fileLock] \in Locked
  /\ \A w \in Writers :
    /\ stage[w] # "rest" => job[w] \in Proposals
    /\ stage[w] \in Locked => fileLock = w
    /\ stage[w] \in {"compared", "copying", "copied"} /\ ~raced => file = job[w].base
    /\ stage[w] = "copied" /\ ~raced => backup = file \/ file = Missing

\* A rename replaces exactly the source the proposal was reviewed against, and
\* leaves that source in the backup: two writers with proposals from the same
\* source cannot both succeed, and a crash loses nothing.  The only change that
\* can be lost is one made without the lock, after the locked comparison
\* (durable_write: "configuration changed while waiting for its write lock").
ReplacesReviewed ==
  [][\A w \in Writers :
       stage[w] = "copied" /\ stage'[w] = "replaced" =>
         /\ file' = job[w].result
         /\ ~raced => file = job[w].base /\ (backup = file \/ file = Missing)]_writeVars

=============================================================================
