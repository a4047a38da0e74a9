--------------------------- MODULE ProtectionStore ---------------------------
(***************************************************************************)
(* The machine-managed protection file and the advisory lock beside it     *)
(* (ProtectionStore in src/src/state.rs).  Editors are the processes that  *)
(* run protect, unprotect or the TUI's space key: each one runs a          *)
(* read-modify-replace transaction under the exclusive lock.  Readers are  *)
(* the processes that hold the shared lock while they delete.              *)
(*                                                                         *)
(* The file holds a set of entries (the code keeps the list sorted and     *)
(* without duplicates) or is Unreadable: damaged, or rewritten by a newer  *)
(* release at a schema this one does not read.                             *)
(***************************************************************************)
EXTENDS Naturals

CONSTANTS
  Editors,      \* processes that change the file
  Readers,      \* processes that hold the shared lock
  Updates,      \* the transactions editors may run, records [op, entries]
  InitEntries,  \* the contents the file may start with
  Nobody,       \* no process, no draft
  Unreadable    \* contents read_state refuses

ASSUME ProcessAssumption ==
  /\ Nobody \notin Editors \cup Readers
  /\ Editors \cap Readers = {}

VARIABLES
  protection,   \* contents of protection.toml
  shared,       \* readers holding the lock in shared mode
  exclusive,    \* the editor holding the lock in exclusive mode, or Nobody
  draft         \* [Editors -> what update() is about to write, or Nobody]

storeVars == <<protection, shared, exclusive, draft>>

\* The operation update() runs on what it read.  "upgrade" stands for a newer
\* release saving the file at its own schema version.
Applied(update, entries) ==
  CASE update.op = "add"    -> entries \cup update.entries
    [] update.op = "remove" -> entries \ update.entries
    [] OTHER                -> Unreadable

StoreInit ==
  /\ protection \in InitEntries
  /\ shared = {}
  /\ exclusive = Nobody
  /\ draft = [e \in Editors |-> Nobody]

\* Mutant: the writer does not wait for the readers.
BeginUpdateBarging(e, update) ==
  /\ exclusive = Nobody
  /\ protection # Unreadable
  /\ exclusive' = e
  /\ draft' = [draft EXCEPT ![e] = Applied(update, protection)]
  /\ UNCHANGED <<protection, shared>>

\* update(): lock_exclusive, read_state, apply the operation in memory.  A file
\* read_state refuses ends the transaction before it changed anything.
BeginUpdate(e, update) ==
  /\ exclusive = Nobody
  /\ shared = {}
  /\ protection # Unreadable
  /\ exclusive' = e
  /\ draft' = [draft EXCEPT ![e] = Applied(update, protection)]
  /\ UNCHANGED <<protection, shared>>

\* write_state_atomic(): the rename replaces the file, then the lock is dropped.
CommitUpdate(e) ==
  /\ exclusive = e
  /\ protection' = draft[e]
  /\ draft' = [draft EXCEPT ![e] = Nobody]
  /\ exclusive' = Nobody
  /\ UNCHANGED shared

\* The temporary file could not be written, or the process died: the kernel
\* drops the lock and the file keeps its old contents.
AbandonUpdate(e) ==
  /\ exclusive = e
  /\ draft' = [draft EXCEPT ![e] = Nobody]
  /\ exclusive' = Nobody
  /\ UNCHANGED <<protection, shared>>

\* locked_snapshot(): lock_shared blocks while an editor holds the lock; a
\* file read_state refuses is an error and the lock is dropped again.
LockShared(r) ==
  /\ exclusive = Nobody
  /\ protection # Unreadable
  /\ shared' = shared \cup {r}
  /\ UNCHANGED <<protection, exclusive, draft>>

\* Mutant: the guard is never dropped.
UnlockForgotten(r) == r \in Readers /\ UNCHANGED storeVars

\* Dropping the ProtectionReadGuard, or the death of its process.
Unlock(r) ==
  /\ shared' = shared \ {r}
  /\ UNCHANGED <<protection, exclusive, draft>>

EditorStep(e) ==
  \/ \E update \in Updates : BeginUpdate(e, update)
  \/ CommitUpdate(e)
  \/ AbandonUpdate(e)

StoreNext ==
  \/ \E e \in Editors : EditorStep(e)
  \/ \E r \in Readers : LockShared(r) \/ Unlock(r)

StoreSpec == StoreInit /\ [][StoreNext]_storeVars

-----------------------------------------------------------------------------
(* Properties *)

\* The lock does what flock promises, and a transaction in progress belongs to
\* the editor holding it and starts from the contents still in the file.
StoreInv ==
  /\ exclusive \in Editors \cup {Nobody}
  /\ shared \subseteq Readers
  /\ exclusive # Nobody => shared = {}
  /\ exclusive # Nobody =>
       \E update \in Updates : draft[exclusive] = Applied(update, protection)
  /\ DOMAIN draft = Editors

\* A transaction is one indivisible change of the current contents: no
\* completed update is lost to another editor's, and none happens while a
\* reader relies on what it read (lock_exclusive around the whole of update()).
Atomic == INSTANCE AtomicProtection WITH guarded <- shared, Apply <- Applied

ImplementsAtomic == Atomic!Spec

=============================================================================
