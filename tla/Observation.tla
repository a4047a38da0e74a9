----------------------------- MODULE Observation -----------------------------
(***************************************************************************)
(* The record of how long volumes, images and networks have been observed  *)
(* unreferenced (src/src/observation.rs), as the passes that share it use  *)
(* it: prepare_cleanup, run_status and the TUI list the engine, stamp the  *)
(* time, fold the lists into the record under an exclusive lock and decide *)
(* with the folded record.                                                 *)
(*                                                                         *)
(* One volume stands for all resources, because no two entries of the      *)
(* record interact.  The engine is external: the volume is attached,       *)
(* detached, removed and created again under its old name.  The lists of   *)
(* one pass are separate requests, and any number of passes overlap.       *)
(***************************************************************************)
EXTENDS Policy

CONSTANTS
  Recorders,   \* processes that run passes
  NoRecorder,  \* the lock is free
  Floor,       \* the orphan_for of the volume's rule, in milliseconds
  MaxClock,    \* bound on the clock
  MaxPasses    \* bound on the passes of one recorder

ASSUME ObservationAssumption ==
  /\ NoRecorder \notin Recorders
  /\ Floor \in Nat \ {0}
  /\ MaxClock \in Nat
  /\ MaxPasses \in Nat

VARIABLES
  created,    \* when the volume was created, or None while there is none
  attached,   \* does a container mount it
  clock,
  record,     \* the entries of observation.toml
  locked,     \* who holds observation.lock exclusively
  pc,         \* [Recorders -> "idle", "listing", "listed", "stamped", "folding"]
  passes,     \* [Recorders -> the number of passes begun]
  view,       \* [Recorders -> [attached, volume], None until listed]
  now,        \* [Recorders -> the time the pass works with]
  draft,      \* [Recorders -> the folded record]
  planned,    \* history: the removals planned, as [by, created, now]
  sightings,  \* history: [by, created, at] when a pass had listed the volume unattached
  attachments \* history: [created, now] of the passes that recorded it as attached

engineVars  == <<created, attached, clock>>
passVars    == <<pc, passes, view, now, draft>>
historyVars == <<planned, sightings, attachments>>
vars == <<engineVars, record, locked, passVars, historyVars>>

-----------------------------------------------------------------------------
(* The engine *)

AttachOrDetach ==
  /\ created # None
  /\ attached' = ~attached
  /\ UNCHANGED <<created, clock, record, locked, passVars, historyVars>>

RemoveVolume ==
  /\ created # None
  /\ ~attached
  /\ created' = None
  /\ UNCHANGED <<attached, clock, record, locked, passVars, historyVars>>

CreateVolume ==
  /\ created = None
  /\ created' = clock
  /\ UNCHANGED <<attached, clock, record, locked, passVars, historyVars>>

Tick ==
  /\ clock < MaxClock
  /\ clock' = clock + 1
  /\ UNCHANGED <<created, attached, record, locked, passVars, historyVars>>

-----------------------------------------------------------------------------
(* A pass *)

NoView == [attached |-> None, volume |-> None]

\* The pass is over: its lists, its time and its copy of the record go.
Forget(r) ==
  /\ pc' = [pc EXCEPT ![r] = "idle"]
  /\ view' = [view EXCEPT ![r] = NoView]
  /\ now' = [now EXCEPT ![r] = 0]
  /\ draft' = [draft EXCEPT ![r] = {}]
  /\ UNCHANGED passes

This(r) == <<r, passes[r]>>

Begin(r) ==
  /\ pc[r] = "idle"
  /\ passes[r] < MaxPasses
  /\ passes' = [passes EXCEPT ![r] = @ + 1]
  /\ pc' = [pc EXCEPT ![r] = "listing"]
  /\ UNCHANGED <<engineVars, record, locked, view, now, draft, historyVars>>

\* The two lists are requested together; either answer may come first.
ListContainers(r) ==
  /\ pc[r] = "listing"
  /\ view[r].attached = None
  /\ view' = [view EXCEPT ![r].attached = IF attached THEN {"volume"} ELSE {}]
  /\ UNCHANGED <<engineVars, record, locked, pc, passes, now, draft, historyVars>>

ListVolumes(r) ==
  /\ pc[r] = "listing"
  /\ view[r].volume = None
  /\ view' = [view EXCEPT ![r].volume = {created} \ {None}]
  /\ UNCHANGED <<engineVars, record, locked, pc, passes, now, draft, historyVars>>

Seen(r) ==
  {[kind |-> "volume", id |-> "v1", created |-> c, referenced |-> view[r].attached # {}] :
     c \in view[r].volume}

\* Both lists have arrived; the history notes what they showed.
Listed(r) ==
  /\ pc[r] = "listing"
  /\ view[r].attached # None /\ view[r].volume # None
  /\ pc' = [pc EXCEPT ![r] = "listed"]
  /\ sightings' = sightings \cup
       {[by |-> This(r), created |-> i.created, at |-> clock] : i \in {j \in Seen(r) : ~j.referenced}}
  /\ UNCHANGED <<engineVars, record, locked, passes, view, now, draft, planned, attachments>>

ListFails(r) ==
  /\ pc[r] = "listing"
  /\ Forget(r)
  /\ UNCHANGED <<engineVars, record, locked, historyVars>>

\* Mutant: the pass works with a time taken a second before its lists.
StampEarly(r) ==
  /\ pc[r] = "listed"
  /\ \E t \in {clock, clock - 1} : now' = [now EXCEPT ![r] = t]
  /\ pc' = [pc EXCEPT ![r] = "stamped"]
  /\ UNCHANGED <<engineVars, record, locked, passes, view, draft, historyVars>>

\* prepare_cleanup(): epoch_seconds() is read once, after the inventory.
Stamp(r) ==
  /\ pc[r] = "listed"
  /\ now' = [now EXCEPT ![r] = clock]
  /\ pc' = [pc EXCEPT ![r] = "stamped"]
  /\ UNCHANGED <<engineVars, record, locked, passes, view, draft, historyVars>>

\* Mutant: the record is read before the lock is taken.
FoldUnlocked(r) ==
  /\ pc[r] = "stamped"
  /\ draft' = [draft EXCEPT ![r] = Folded(record, Seen(r), now[r])]
  /\ pc' = [pc EXCEPT ![r] = "folding"]
  /\ UNCHANGED <<engineVars, record, locked, passes, view, now, historyVars>>

\* record(): the lists are folded into the record under the exclusive lock.
Fold(r) ==
  /\ pc[r] = "stamped"
  /\ locked = NoRecorder
  /\ locked' = r
  /\ draft' = [draft EXCEPT ![r] = Folded(record, Seen(r), now[r])]
  /\ pc' = [pc EXCEPT ![r] = "folding"]
  /\ UNCHANGED <<engineVars, record, passes, view, now, historyVars>>

VolumeRule == [orphan_for |-> Floor]

\* The folded record replaces the file, and the same record decides.
Commit(r) ==
  /\ pc[r] = "folding"
  /\ record' = draft[r]
  /\ locked' = NoRecorder
  /\ Forget(r)
  /\ planned' = planned \cup
       {[by |-> This(r), created |-> i.created, now |-> now[r]] :
          i \in {j \in Seen(r) : VolumeEligible(VolumeRule, j, UnreferencedAge(draft[r], j, now[r]))}}
  /\ attachments' = attachments \cup
       {[created |-> i.created, now |-> now[r]] : i \in {j \in Seen(r) : j.referenced}}
  /\ UNCHANGED <<engineVars, sightings>>

\* The write fails or the process dies: the file stays and nothing is planned.
Abandon(r) ==
  /\ pc[r] = "folding"
  /\ locked' = NoRecorder
  /\ Forget(r)
  /\ UNCHANGED <<engineVars, record, historyVars>>

Init ==
  /\ created \in {0, None}
  /\ attached \in (IF created = None THEN {FALSE} ELSE BOOLEAN)
  /\ clock = 0
  /\ record = {}
  /\ locked = NoRecorder
  /\ pc = [r \in Recorders |-> "idle"]
  /\ passes = [r \in Recorders |-> 0]
  /\ view = [r \in Recorders |-> NoView]
  /\ now = [r \in Recorders |-> 0]
  /\ draft = [r \in Recorders |-> {}]
  /\ planned = {}
  /\ sightings = {}
  /\ attachments = {}

Next ==
  \/ \E r \in Recorders :
       \/ Begin(r) \/ ListContainers(r) \/ ListVolumes(r) \/ Listed(r) \/ ListFails(r)
       \/ Stamp(r) \/ Fold(r) \/ Commit(r) \/ Abandon(r)
  \/ AttachOrDetach \/ RemoveVolume \/ CreateVolume \/ Tick

Spec == Init /\ [][Next]_vars

-----------------------------------------------------------------------------
(* Properties *)

\* A pass plans the removal of a volume only when an earlier pass had listed
\* this very volume unattached and the whole floor has gone by since then, so
\* the first pass that observes it never removes it.
FloorObserved ==
  \A p \in planned : \E s \in sightings :
    /\ s.by # p.by
    /\ s.created = p.created
    /\ p.now - s.at >= AsSecs(Floor)

\* A clock is never restarted nor set back while the volume stays recorded:
\* a commit carries it over or drops it.
ClockCarried ==
  [][\A e \in record : \A f \in record' : e.created = f.created => e.first = f.first]_vars

\* What observation.rs and README.md say of the clock: it measures time without
\* an observed interruption, so it starts after the last pass that recorded
\* the volume as attached.
ContinuousClock ==
  \A e \in record : \A a \in attachments : a.created = e.created => a.now <= e.first

=============================================================================
