--------------------------- MODULE ObservationProofs ---------------------------
(***************************************************************************)
(* For any number of overlapping passes, stalls, failures and changes of   *)
(* the volume: a removal was preceded by an observation of another pass, a *)
(* whole floor earlier, and a commit never sets a clock back or forward.   *)
(***************************************************************************)
EXTENDS Observation, TLAPS

Steps == {"idle", "listing", "listed", "stamped", "folding"}

Entries == [kind : {"volume"}, id : {"v1"}, created : Nat, first : Nat]

Views == [attached : (SUBSET {"volume"}) \cup {None}, volume : (SUBSET Nat) \cup {None}]

Sightings == [by : Recorders \X Nat, created : Nat, at : Nat]

PassTypes ==
  /\ created \in Nat \cup {None}
  /\ clock \in Nat
  /\ pc \in [Recorders -> Steps]
  /\ passes \in [Recorders -> Nat]
  /\ now \in [Recorders -> Nat]
  /\ view \in [Recorders -> Views]
  /\ record \in SUBSET Entries
  /\ draft \in [Recorders -> SUBSET Entries]
  /\ sightings \in SUBSET Sightings
  /\ \A r \in Recorders :
       pc[r] \in {"listed", "stamped", "folding"} => view[r].volume \in SUBSET Nat

-----------------------------------------------------------------------------
(* Folding *)

\* An item of a pass is the volume, as of some creation.
LEMMA SeenIsVolume ==
  ASSUME NEW r \in Recorders, view[r].volume \in SUBSET Nat, NEW i \in Seen(r)
  PROVE  i.kind = "volume" /\ i.id = "v1" /\ i.created \in Nat
BY DEF Seen

\* An entry of the folded record belongs to an unreferenced item; it is carried
\* over, or its clock starts now.
LEMMA FoldedEntry ==
  ASSUME NEW r \in Recorders, view[r].volume \in SUBSET Nat,
         NEW obs \in SUBSET Entries, NEW t \in Nat, NEW e \in Folded(obs, Seen(r), t)
  PROVE  /\ e \in Entries
         /\ \E i \in Seen(r) : ~i.referenced /\ i.created = e.created
         /\ IF \E f \in obs : f.created = e.created
            THEN \E f \in obs : f.created = e.created /\ e.first = f.first
            ELSE e.first = t
<1>1. PICK i \in Seen(r) :
        /\ ~i.referenced
        /\ e = [kind |-> i.kind, id |-> i.id, created |-> i.created,
                first |-> FirstUnreferenced(obs, i, t)]
  BY DEF Folded
<1>2. i.kind = "volume" /\ i.id = "v1" /\ i.created \in Nat
  BY SeenIsVolume
<1>3. ClockOf(obs, i) = {f \in obs : f.created = i.created}
  BY <1>2 DEF ClockOf, Entries
<1>4. IF \E f \in obs : f.created = i.created
      THEN \E f \in obs : f.created = i.created /\ FirstUnreferenced(obs, i, t) = f.first
      ELSE FirstUnreferenced(obs, i, t) = t
  BY <1>3 DEF FirstUnreferenced
<1>5. FirstUnreferenced(obs, i, t) \in Nat
  BY <1>4 DEF Entries
<1>6. QED
  BY <1>1, <1>2, <1>4, <1>5 DEF Entries

\* The items of one pass are all referenced or none is, so that two entries of
\* one creation are one entry.
LEMMA FoldedOnce ==
  ASSUME NEW r \in Recorders, NEW obs, NEW t,
         NEW e \in Folded(obs, Seen(r), t), NEW f \in Folded(obs, Seen(r), t),
         e.created = f.created
  PROVE  e.first = f.first
<1>1. PICK i \in Seen(r) : e = [kind |-> i.kind, id |-> i.id, created |-> i.created,
                                first |-> FirstUnreferenced(obs, i, t)]
  BY DEF Folded
<1>2. PICK j \in Seen(r) : f = [kind |-> j.kind, id |-> j.id, created |-> j.created,
                                first |-> FirstUnreferenced(obs, j, t)]
  BY DEF Folded
<1>3. i = j
  BY <1>1, <1>2 DEF Seen
<1>4. QED
  BY <1>1, <1>2, <1>3

-----------------------------------------------------------------------------
(* Types *)

LEMMA TypesInit == Init => PassTypes
  BY NoneAssumption DEF Init, PassTypes, Steps, Views, NoView

LEMMA TypesKept == PassTypes /\ [Next]_vars => PassTypes'
<1> SUFFICES ASSUME PassTypes, [Next]_vars PROVE PassTypes'
  OBVIOUS
<1> USE DEF Steps
<1>1. ASSUME NEW r \in Recorders, Forget(r)
      PROVE  /\ pc' \in [Recorders -> Steps] /\ now' \in [Recorders -> Nat]
             /\ view' \in [Recorders -> Views] /\ draft' \in [Recorders -> SUBSET Entries]
             /\ passes' \in [Recorders -> Nat]
             /\ \A q \in Recorders :
                  pc'[q] \in {"listed", "stamped", "folding"} => view'[q].volume \in SUBSET Nat
  BY <1>1 DEF Forget, PassTypes, Views, NoView
<1>2. ASSUME NEW r \in Recorders, Begin(r)
      PROVE  PassTypes'
  BY <1>2 DEF Begin, engineVars, historyVars, PassTypes
<1>3. ASSUME NEW r \in Recorders, ListContainers(r) \/ ListVolumes(r)
      PROVE  PassTypes'
  <2> DEFINE mounts  == IF attached THEN {"volume"} ELSE {}
             volumes == {created} \ {None}
  <2>1. mounts \in SUBSET {"volume"} /\ volumes \in SUBSET Nat /\ view[r] \in Views
    BY DEF PassTypes
  <2> HIDE DEF mounts, volumes
  <2>2. /\ [view[r] EXCEPT !.attached = mounts] \in Views
        /\ [view[r] EXCEPT !.volume = volumes] \in Views
    BY <2>1 DEF Views
  <2>3. \/ view' = [view EXCEPT ![r] = [@ EXCEPT !.attached = mounts]]
        \/ view' = [view EXCEPT ![r] = [@ EXCEPT !.volume = volumes]]
    BY <1>3 DEF ListContainers, ListVolumes, PassTypes, mounts, volumes
  <2>4. view' \in [Recorders -> Views]
    BY <2>2, <2>3 DEF PassTypes
  <2>5. QED
    BY <1>3, <2>4 DEF ListContainers, ListVolumes, engineVars, historyVars, PassTypes
<1>4. ASSUME NEW r \in Recorders, Listed(r)
      PROVE  PassTypes'
  <2>1. view[r].volume \in SUBSET Nat
    BY <1>4 DEF Listed, PassTypes, Views
  <2>2. ASSUME NEW i \in Seen(r)
        PROVE  [by |-> This(r), created |-> i.created, at |-> clock] \in Sightings
    <3>1. i.created \in Nat
      BY <2>1, <2>2, SeenIsVolume
    <3>2. This(r) \in Recorders \X Nat /\ clock \in Nat
      BY DEF This, PassTypes
    <3>3. QED
      BY <3>1, <3>2 DEF Sightings
  <2>3. sightings' \in SUBSET Sightings
    BY <1>4, <2>2 DEF Listed, PassTypes
  <2>4. QED
    BY <1>4, <2>1, <2>3 DEF Listed, engineVars, PassTypes
<1>5. ASSUME NEW r \in Recorders, Stamp(r)
      PROVE  PassTypes'
  BY <1>5 DEF Stamp, engineVars, historyVars, PassTypes
<1>6. ASSUME NEW r \in Recorders, Fold(r)
      PROVE  PassTypes'
  <2>1. Folded(record, Seen(r), now[r]) \in SUBSET Entries
    BY <1>6, FoldedEntry DEF Fold, PassTypes
  <2>2. QED
    BY <1>6, <2>1 DEF Fold, engineVars, historyVars, PassTypes
<1>7. ASSUME NEW r \in Recorders, Commit(r) \/ Abandon(r) \/ ListFails(r)
      PROVE  PassTypes'
  BY <1>1, <1>7 DEF Commit, Abandon, ListFails, engineVars, historyVars, PassTypes
<1>8. CASE AttachOrDetach \/ RemoveVolume \/ CreateVolume \/ Tick
  BY <1>8 DEF AttachOrDetach, RemoveVolume, CreateVolume, Tick, passVars, historyVars, PassTypes
<1>9. CASE UNCHANGED vars
  BY <1>9 DEF vars, engineVars, passVars, historyVars, PassTypes
<1>10. QED
  BY <1>2, <1>3, <1>4, <1>5, <1>6, <1>7, <1>8, <1>9 DEF Next

-----------------------------------------------------------------------------
(* The record and its lock *)

\* No two entries of the record are of one creation.
OneClock(entries) == \A e, f \in entries : e.created = f.created => e.first = f.first

\* Whoever folds holds the lock, so its draft is made of the record still there.
LockInv ==
  /\ OneClock(record)
  /\ \A r \in Recorders : pc[r] = "folding" =>
       locked = r /\ draft[r] = Folded(record, Seen(r), now[r])

\* Steps that leave the record, the lock and what folding passes have alone.
LEMMA LockUndisturbed ==
  ASSUME LockInv, record' = record,
         \A r \in Recorders : pc'[r] = "folding" =>
           /\ pc[r] = "folding" /\ locked' = locked
           /\ draft'[r] = draft[r] /\ view'[r] = view[r] /\ now'[r] = now[r]
  PROVE  LockInv'
<1>1. ASSUME NEW r \in Recorders, pc'[r] = "folding"
      PROVE  Seen(r)' = Seen(r) /\ pc[r] = "folding" /\ locked' = locked
             /\ draft'[r] = draft[r] /\ now'[r] = now[r]
  BY <1>1 DEF Seen
<1>2. QED
  BY <1>1 DEF LockInv, OneClock

LEMMA FoldLocks ==
  ASSUME PassTypes, LockInv, NEW r \in Recorders, Fold(r)
  PROVE  LockInv'
<1>1. /\ record' = record /\ locked' = r /\ Seen(r)' = Seen(r) /\ now' = now
      /\ draft'[r] = Folded(record, Seen(r), now[r])
  BY DEF Fold, engineVars, historyVars, Seen, PassTypes
<1>2. ASSUME NEW q \in Recorders, q # r  PROVE pc'[q] # "folding"
  BY <1>2, ObservationAssumption DEF Fold, LockInv, PassTypes
<1>3. QED
  BY <1>1, <1>2 DEF LockInv, OneClock

LEMMA CommitUnlocks ==
  ASSUME PassTypes, LockInv, NEW r \in Recorders, Commit(r)
  PROVE  /\ LockInv'
         /\ \A e \in record : \A f \in record' : e.created = f.created => e.first = f.first
<1>1. record' = Folded(record, Seen(r), now[r]) /\ view[r].volume \in SUBSET Nat
  BY DEF Commit, LockInv, PassTypes
<1>2. OneClock(record')
  BY <1>1, FoldedOnce DEF OneClock
<1>3. ASSUME NEW e \in record, NEW f \in record', e.created = f.created
      PROVE  e.first = f.first
  <2>1. PICK g \in record : g.created = f.created /\ f.first = g.first
    BY <1>1, <1>3, FoldedEntry DEF PassTypes
  <2>2. QED
    BY <1>3, <2>1 DEF LockInv, OneClock
<1>4. ASSUME NEW q \in Recorders  PROVE pc'[q] # "folding"
  BY DEF Commit, Forget, LockInv, PassTypes
<1>5. QED
  BY <1>2, <1>3, <1>4 DEF LockInv, OneClock

LEMMA LockKept == PassTypes /\ LockInv /\ [Next]_vars => LockInv'
<1> SUFFICES ASSUME PassTypes, LockInv, [Next]_vars PROVE LockInv'
  OBVIOUS
<1>1. ASSUME NEW r \in Recorders,
             Begin(r) \/ ListContainers(r) \/ ListVolumes(r) \/ Listed(r) \/ ListFails(r) \/ Stamp(r)
      PROVE  LockInv'
  BY <1>1, LockUndisturbed
     DEF Begin, ListContainers, ListVolumes, Listed, ListFails, Stamp, Forget, PassTypes
<1>2. ASSUME NEW r \in Recorders, Abandon(r)
      PROVE  LockInv'
  BY <1>2 DEF Abandon, Forget, LockInv, OneClock, PassTypes
<1>3. CASE AttachOrDetach \/ RemoveVolume \/ CreateVolume \/ Tick \/ UNCHANGED vars
  BY <1>3, LockUndisturbed
     DEF AttachOrDetach, RemoveVolume, CreateVolume, Tick, vars, passVars, historyVars
<1>4. QED
  BY <1>1, <1>2, <1>3, FoldLocks, CommitUnlocks DEF Next

LEMMA LockInit == Init => LockInv
  BY DEF Init, LockInv, OneClock

\* A commit carries a clock over or drops it, however many passes overlap: the
\* lock makes fold and commit one step for the others.
THEOREM ClocksCarried == Spec => ClockCarried
<1> DEFINE Carried ==
      \A e \in record : \A f \in record' : e.created = f.created => e.first = f.first
<1>1. PassTypes /\ LockInv /\ [Next]_vars => [Carried]_vars
  <2> SUFFICES ASSUME PassTypes, LockInv, Next PROVE Carried
    OBVIOUS
  <2>1. CASE record' = record
    BY <2>1 DEF LockInv, OneClock
  <2>2. ASSUME NEW r \in Recorders, Commit(r)  PROVE Carried
    BY <2>2, CommitUnlocks
  <2>3. QED
    BY <2>1, <2>2
       DEF Next, Begin, ListContainers, ListVolumes, Listed, ListFails, Stamp, Fold, Abandon,
           AttachOrDetach, RemoveVolume, CreateVolume, Tick
<1>2. QED
  BY <1>1, TypesInit, TypesKept, LockInit, LockKept, PTL DEF Spec, ClockCarried

-----------------------------------------------------------------------------
(* What the clocks stand for *)

\* A pass that is over: a later one of its recorder has begun, or none is running.
Over(by) ==
  \/ by[2] < passes[by[1]]
  \/ by[2] <= passes[by[1]] /\ pc[by[1]] = "idle"

\* An entry of the record was observed: a pass that is over had seen the volume
\* unattached when its clock was started, or before.
Backed(e) ==
  \E s \in sightings : s.created = e.created /\ s.at <= e.first /\ Over(s.by)

\* What a pass saw itself, by a time.
OwnSighting(r, c, t) ==
  \E s \in sightings : s.created = c /\ s.at <= t /\ s.by = This(r)

\* What a pass has seen of the items it works with, and what its draft stands for.
Observes(r) ==
  /\ pc[r] = "listed" => \A i \in Seen(r) : ~i.referenced => OwnSighting(r, i.created, clock)
  /\ pc[r] \in {"stamped", "folding"} =>
       \A i \in Seen(r) : ~i.referenced => OwnSighting(r, i.created, now[r])
  /\ pc[r] = "folding" =>
       \A e \in draft[r] : Backed(e) \/ (e.first = now[r] /\ OwnSighting(r, e.created, now[r]))

\* Removals were planned by passes that had not seen the volume first.
ObservedInv ==
  /\ \A e \in record : Backed(e)
  /\ \A r \in Recorders : Observes(r)
  /\ FloorObserved

\* A pass that is over stays so: its number is never given out again.
LEMMA OverStays ==
  ASSUME PassTypes, NEW by \in Recorders \X Nat, Over(by),
         \A r \in Recorders :
           \/ passes'[r] = passes[r] /\ (pc[r] = "idle" => pc'[r] = "idle")
           \/ passes'[r] = passes[r] + 1
  PROVE  Over(by)'
<1>1. by[1] \in Recorders /\ by[2] \in Nat
  OBVIOUS
<1>2. QED
  BY <1>1 DEF Over, PassTypes

\* Every step keeps the sightings, and a pass that begins has the next number.
LEMMA PassesGo ==
  ASSUME PassTypes, [Next]_vars
  PROVE  /\ sightings \subseteq sightings' /\ clock' \in Nat /\ clock <= clock'
         /\ \A r \in Recorders :
              \/ passes'[r] = passes[r] /\ (pc[r] = "idle" => pc'[r] = "idle")
              \/ passes'[r] = passes[r] + 1
<1>1. ASSUME NEW r \in Recorders,
             Begin(r) \/ ListContainers(r) \/ ListVolumes(r) \/ Listed(r) \/ ListFails(r)
             \/ Stamp(r) \/ Fold(r) \/ Commit(r) \/ Abandon(r)
      PROVE  /\ sightings \subseteq sightings' /\ clock' = clock
             /\ \A q \in Recorders :
                  \/ passes'[q] = passes[q] /\ (pc[q] = "idle" => pc'[q] = "idle")
                  \/ passes'[q] = passes[q] + 1
  BY <1>1 DEF Begin, ListContainers, ListVolumes, Listed, ListFails, Stamp, Fold, Commit, Abandon,
              Forget, engineVars, historyVars, PassTypes
<1>2. CASE AttachOrDetach \/ RemoveVolume \/ CreateVolume \/ Tick \/ UNCHANGED vars
  BY <1>2 DEF AttachOrDetach, RemoveVolume, CreateVolume, Tick, vars, engineVars, passVars,
              historyVars, PassTypes
<1>3. QED
  BY <1>1, <1>2 DEF Next, PassTypes

\* So what is backed stays backed.
LEMMA BackedStays ==
  ASSUME PassTypes, [Next]_vars, NEW e, Backed(e)
  PROVE  Backed(e)'
<1>1. PICK s \in sightings : s.created = e.created /\ s.at <= e.first /\ Over(s.by)
  BY DEF Backed
<1>2. s.by \in Recorders \X Nat
  BY DEF PassTypes, Sightings
<1>3. Over(s.by)'
  BY <1>1, <1>2, PassesGo, OverStays
<1>4. QED
  BY <1>1, <1>3, PassesGo DEF Backed

\* A pass that does not move has seen what it had seen.
LEMMA StillObserves ==
  ASSUME PassTypes, [Next]_vars, NEW r \in Recorders, Observes(r),
         \/ pc'[r] \in {"idle", "listing"}
         \/ /\ pc'[r] = pc[r] /\ passes'[r] = passes[r]
            /\ view'[r] = view[r] /\ now'[r] = now[r] /\ draft'[r] = draft[r]
  PROVE  Observes(r)'
<1>1. CASE pc'[r] \in {"idle", "listing"}
  BY <1>1 DEF Observes
<1>2. CASE /\ pc'[r] \in {"listed", "stamped", "folding"}
           /\ pc'[r] = pc[r] /\ passes'[r] = passes[r]
           /\ view'[r] = view[r] /\ now'[r] = now[r] /\ draft'[r] = draft[r]
  <2>1. Seen(r)' = Seen(r) /\ This(r)' = This(r)
    BY <1>2 DEF Seen, This
  <2>2. \A i \in Seen(r) : i.created \in Nat
    BY <1>2, SeenIsVolume DEF PassTypes
  <2>3. clock \in Nat /\ clock' \in Nat /\ clock <= clock' /\ now[r] \in Nat
    BY PassesGo DEF PassTypes
  <2>4. \A c \in Nat : /\ OwnSighting(r, c, clock) => OwnSighting(r, c, clock)'
                       /\ OwnSighting(r, c, now[r]) => OwnSighting(r, c, now[r])'
    <3>1. ASSUME NEW c \in Nat
          PROVE  /\ OwnSighting(r, c, clock) => \E s \in sightings' :
                      s.created = c /\ s.at <= clock' /\ s.by = This(r)'
                 /\ OwnSighting(r, c, now[r]) => \E s \in sightings' :
                      s.created = c /\ s.at <= now'[r] /\ s.by = This(r)'
      BY <1>2, <2>1, <2>3, PassesGo DEF OwnSighting, PassTypes, Sightings
    <3>2. QED
      BY <3>1 DEF OwnSighting
  <2>5. \A e \in draft[r] : e.created \in Nat
    BY DEF PassTypes, Entries
  <2>6. \A e : Backed(e) => Backed(e)'
    BY BackedStays
  <2>7. QED
    BY <1>2, <2>1, <2>2, <2>4, <2>5, <2>6 DEF Observes
<1>3. QED
  BY <1>1, <1>2 DEF PassTypes, Steps

\* A pass whose lists have arrived has seen what they showed, and takes its time
\* after that.
LEMMA ListedObserves ==
  ASSUME PassTypes, Next, NEW r \in Recorders, Observes(r), Listed(r) \/ Stamp(r)
  PROVE  Observes(r)'
<1>1. Seen(r)' = Seen(r) /\ This(r)' = This(r) /\ clock' = clock
  BY DEF Listed, Stamp, engineVars, Seen, This
<1>2. CASE Listed(r)
  <2>1. pc'[r] = "listed"
    BY <1>2 DEF Listed, PassTypes
  <2>2. ASSUME NEW i \in Seen(r), ~i.referenced
        PROVE  OwnSighting(r, i.created, clock)'
    <3>1. [by |-> This(r), created |-> i.created, at |-> clock] \in sightings'
      BY <1>2, <2>2 DEF Listed
    <3>2. QED
      BY <1>1, <3>1 DEF OwnSighting, PassTypes
  <2>3. QED
    BY <1>1, <2>1, <2>2 DEF Observes
<1>3. CASE Stamp(r)
  BY <1>1, <1>3 DEF Stamp, historyVars, Observes, OwnSighting, PassTypes
<1>4. QED
  BY <1>2, <1>3

\* A draft has entries of the record, and new ones for what this pass has seen.
LEMMA FoldObserves ==
  ASSUME PassTypes, Next, \A e \in record : Backed(e),
         NEW r \in Recorders, Observes(r), Fold(r)
  PROVE  Observes(r)'
<1>1. /\ Seen(r)' = Seen(r) /\ This(r)' = This(r) /\ now' = now /\ UNCHANGED historyVars
      /\ pc[r] = "stamped" /\ pc'[r] = "folding" /\ draft'[r] = Folded(record, Seen(r), now[r])
      /\ view[r].volume \in SUBSET Nat /\ now[r] \in Nat
  BY DEF Fold, engineVars, historyVars, Seen, This, PassTypes
<1>2. \A i \in Seen(r) : ~i.referenced => OwnSighting(r, i.created, now[r])
  BY <1>1 DEF Observes
<1>3. ASSUME NEW c, OwnSighting(r, c, now[r])  PROVE OwnSighting(r, c, now[r])'
  BY <1>1, <1>3 DEF OwnSighting, historyVars
<1>4. ASSUME NEW e \in draft'[r]
      PROVE  Backed(e)' \/ (e.first = now'[r] /\ OwnSighting(r, e.created, now[r])')
  <2>1. PICK i \in Seen(r) : ~i.referenced /\ i.created = e.created
    BY <1>1, <1>4, FoldedEntry DEF PassTypes
  <2>2. \/ \E f \in record : f.created = e.created /\ f.first = e.first
        \/ e.first = now[r]
    BY <1>1, <1>4, FoldedEntry DEF PassTypes
  <2>3. CASE \E f \in record : f.created = e.created /\ f.first = e.first
    <3>1. PICK f \in record : f.created = e.created /\ f.first = e.first
      BY <2>3
    <3>2. Backed(e)
      BY <3>1 DEF Backed
    <3>3. QED
      BY <3>2, BackedStays
  <2>4. CASE e.first = now[r]
    BY <1>1, <1>2, <1>3, <2>1, <2>4
  <2>5. QED
    BY <2>2, <2>3, <2>4
<1>5. QED
  BY <1>1, <1>2, <1>3, <1>4 DEF Observes

\* When a pass commits it is over, and what it saw backs its new entries.
LEMMA CommitBacks ==
  ASSUME PassTypes, Next, NEW r \in Recorders, Observes(r), Commit(r)
  PROVE  \A e \in record' : Backed(e)'
<1>1. /\ pc[r] = "folding" /\ record' = draft[r] /\ pc'[r] = "idle" /\ passes' = passes
      /\ sightings' = sightings
  BY DEF Commit, Forget, PassTypes
<1>2. ASSUME NEW e \in draft[r], e.first = now[r], OwnSighting(r, e.created, now[r])
      PROVE  Backed(e)'
  <2>1. PICK s \in sightings : s.created = e.created /\ s.at <= e.first /\ s.by = This(r)
    BY <1>2 DEF OwnSighting
  <2>2. Over(s.by)'
    BY <1>1, <2>1 DEF Over, This, PassTypes
  <2>3. QED
    BY <1>1, <2>1, <2>2 DEF Backed
<1>3. QED
  BY <1>1, <1>2, BackedStays DEF Observes

\* A clock that meets a floor of a second was not started by the pass that reads it.
LEMMA CommitObserves ==
  ASSUME PassTypes, Next, NEW r \in Recorders, Observes(r), FloorObserved, Commit(r),
         Floor >= 1000
  PROVE  FloorObserved'
<1>1. AsSecs(Floor) \in Nat /\ AsSecs(Floor) >= 1
  BY ObservationAssumption DEF AsSecs
<1>2. /\ pc[r] = "folding" /\ sightings' = sightings /\ view[r].volume \in SUBSET Nat
      /\ now[r] \in Nat /\ draft[r] \in SUBSET Entries
  BY DEF Commit, PassTypes
<1>3. ASSUME NEW i \in Seen(r), VolumeEligible(VolumeRule, i, UnreferencedAge(draft[r], i, now[r]))
      PROVE  \E s \in sightings :
               s.by # This(r) /\ s.created = i.created /\ now[r] - s.at >= AsSecs(Floor)
  <2> DEFINE age == UnreferencedAge(draft[r], i, now[r])
  <2>1. age # None /\ age >= AsSecs(Floor)
    BY <1>3 DEF VolumeEligible, VolumeRule, MeetsFloor
  <2>2. i.kind = "volume" /\ i.id = "v1"
    BY <1>2, SeenIsVolume
  <2>3. PICK e \in ClockOf(draft[r], i) : age = AgeSeconds(now[r], e.first)
    BY <2>1 DEF UnreferencedAge
  <2>4. e \in draft[r] /\ e.created = i.created /\ e.first \in Nat
    BY <1>2, <2>3 DEF ClockOf, Entries
  <2>5. age = now[r] - e.first
    BY <2>1, <2>3 DEF AgeSeconds
  <2>6. e.first # now[r]
    BY <1>1, <1>2, <2>1, <2>4, <2>5
  <2>7. PICK s \in sightings : s.created = e.created /\ s.at <= e.first /\ Over(s.by)
    BY <1>2, <2>4, <2>6 DEF Observes, Backed
  <2>8. s.by # This(r)
    BY <1>2, <2>7 DEF Over, This, PassTypes
  <2>9. s.at \in Nat
    BY DEF PassTypes, Sightings
  <2>10. QED
    BY <1>1, <1>2, <2>1, <2>4, <2>5, <2>7, <2>8, <2>9
<1>4. QED
  BY <1>2, <1>3 DEF Commit, FloorObserved

LEMMA ObservedInit == Init => ObservedInv
  BY DEF Init, ObservedInv, Observes, FloorObserved

LEMMA ObservedKept ==
  ASSUME PassTypes, ObservedInv, [Next]_vars, Floor >= 1000
  PROVE  ObservedInv'
<1>1. \A e \in record : Backed(e)'
  BY BackedStays DEF ObservedInv
<1>2. CASE UNCHANGED vars \/ AttachOrDetach \/ RemoveVolume \/ CreateVolume \/ Tick
  <2>1. UNCHANGED <<record, passVars, historyVars>>
    BY <1>2 DEF vars, AttachOrDetach, RemoveVolume, CreateVolume, Tick
  <2>2. \A r \in Recorders : Observes(r)'
    BY <2>1, StillObserves DEF passVars, ObservedInv
  <2>3. QED
    BY <1>1, <2>1, <2>2 DEF historyVars, ObservedInv, FloorObserved
<1>3. ASSUME NEW r \in Recorders,
             Begin(r) \/ ListContainers(r) \/ ListVolumes(r) \/ Listed(r) \/ ListFails(r)
             \/ Stamp(r) \/ Fold(r) \/ Commit(r) \/ Abandon(r)
      PROVE  ObservedInv'
  <2>1. Next
    BY <1>3 DEF Next
  <2>2. ASSUME NEW q \in Recorders, q # r  PROVE Observes(q)'
    BY <1>3, <2>2, StillObserves
       DEF ObservedInv, Begin, ListContainers, ListVolumes, Listed, ListFails, Stamp, Fold, Commit,
           Abandon, Forget, PassTypes
  <2>3. Observes(r)'
    <3>1. CASE Listed(r) \/ Stamp(r)
      BY <2>1, <3>1, ListedObserves DEF ObservedInv
    <3>2. CASE Fold(r)
      BY <2>1, <3>2, FoldObserves DEF ObservedInv
    <3>3. CASE Begin(r) \/ ListContainers(r) \/ ListVolumes(r) \/ ListFails(r) \/ Commit(r) \/ Abandon(r)
      BY <3>3, StillObserves
         DEF ObservedInv, Begin, ListContainers, ListVolumes, ListFails, Commit, Abandon, Forget,
             PassTypes
    <3>4. QED
      BY <1>3, <3>1, <3>2, <3>3
  <2>4. (\A e \in record' : Backed(e)') /\ FloorObserved'
    <3>1. CASE Commit(r)
      BY <2>1, <3>1, CommitBacks, CommitObserves DEF ObservedInv
    <3>2. CASE ~Commit(r)
      <4>1. record' = record /\ planned' = planned /\ sightings \subseteq sightings'
        BY <1>3, <3>2
           DEF Begin, ListContainers, ListVolumes, Listed, ListFails, Stamp, Fold, Abandon,
               historyVars
      <4>2. QED
        BY <1>1, <4>1 DEF ObservedInv, FloorObserved
    <3>3. QED
      BY <3>1, <3>2
  <2>5. QED
    BY <2>2, <2>3, <2>4 DEF ObservedInv
<1>4. QED
  BY <1>2, <1>3 DEF Next

\* With a floor of a second or more, no pass plans the removal of a volume that
\* another pass had not listed unattached a whole floor before; below a second
\* AsSecs makes the floor zero and the first observation meets it.
THEOREM FloorsObserved ==
  ASSUME Floor >= 1000
  PROVE  Spec => []FloorObserved
<1>1. PassTypes /\ ObservedInv /\ [Next]_vars => ObservedInv'
  BY ObservedKept
<1>2. ObservedInv => FloorObserved
  BY DEF ObservedInv
<1>3. QED
  BY <1>1, <1>2, TypesInit, TypesKept, ObservedInit, PTL DEF Spec

=============================================================================
