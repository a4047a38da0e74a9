---------------------------- MODULE ExecutorProofs ----------------------------
(***************************************************************************)
(* For any number of cleaners, editors, objects, rules and entries: what a *)
(* protected resource can rely on while plans are being applied, and what  *)
(* becomes of the targets of a plan.  Every target is accounted for, what  *)
(* is reported as removed has been removed, and nothing is removed that is *)
(* not granted.                                                            *)
(***************************************************************************)
EXTENDS Executor, FiniteSetTheorems, SequenceTheorems, TLAPS

-----------------------------------------------------------------------------
(* The protection file's lock discipline, for any set of transactions *)

\* At the start nobody holds the lock, so StoreInv holds.
LEMMA StoreInvInit == StoreInit => StoreInv
  BY ProcessAssumption DEF StoreInit, StoreInv

\* Every operation of an editor or a reader on the file keeps StoreInv.
LEMMA StoreInvStep == StoreInv /\ [StoreNext]_storeVars => StoreInv'
<1> SUFFICES ASSUME StoreInv, [StoreNext]_storeVars
             PROVE  StoreInv'
  OBVIOUS
<1> USE ProcessAssumption DEF StoreInv
<1>1. ASSUME NEW e \in Editors, NEW update \in Updates, BeginUpdate(e, update)
      PROVE  StoreInv'
  BY <1>1 DEF BeginUpdate
<1>2. ASSUME NEW e \in Editors, CommitUpdate(e)
      PROVE  StoreInv'
  BY <1>2 DEF CommitUpdate
<1>3. ASSUME NEW e \in Editors, AbandonUpdate(e)
      PROVE  StoreInv'
  BY <1>3 DEF AbandonUpdate
<1>4. ASSUME NEW r \in Readers, LockShared(r)
      PROVE  StoreInv'
  BY <1>4 DEF LockShared
<1>5. ASSUME NEW r \in Readers, Unlock(r)
      PROVE  StoreInv'
  BY <1>5 DEF Unlock
<1>6. CASE UNCHANGED storeVars
  BY <1>6 DEF storeVars
<1> QED
  BY <1>1, <1>2, <1>3, <1>4, <1>5, <1>6 DEF StoreNext, EditorStep

\* The lock excludes editors from readers, and a draft was computed from the
\* contents it will replace.
THEOREM StoreInvariant == StoreSpec => []StoreInv
  BY StoreInvInit, StoreInvStep, PTL DEF StoreSpec

\* Only a commit changes the contents, and it changes them to what its
\* transaction makes of the contents of that very moment.
LEMMA StoreStepAtomic ==
  ASSUME StoreInv, [StoreNext]_storeVars
  PROVE  [Atomic!Update \/ Atomic!Guard]_<<protection, shared>>
<1>1. ASSUME NEW e \in Editors, CommitUpdate(e)
      PROVE  Atomic!Update
  <2>1. exclusive = e /\ e # Nobody /\ shared = {} /\ shared' = shared
    BY <1>1, ProcessAssumption DEF CommitUpdate, StoreInv
  <2>2. \E update \in Updates : protection' = Applied(update, protection)
    BY <1>1, <2>1 DEF CommitUpdate, StoreInv
  <2> QED
    BY <2>1, <2>2 DEF Atomic!Update
<1>2. ASSUME UNCHANGED protection
      PROVE  Atomic!Guard
  BY <1>2 DEF Atomic!Guard
<1> QED
  BY <1>1, <1>2
  DEF StoreNext, storeVars, EditorStep, BeginUpdate, AbandonUpdate, LockShared, Unlock

\* Every completed protect or unprotect is one atomic change of the file, and
\* none of them happens while a reader holds its guard.
THEOREM StoreImplementsAtomic == StoreSpec => ImplementsAtomic
<1>1. StoreInit => Atomic!Init
  BY DEF StoreInit, Atomic!Init
<1> QED
  BY <1>1, StoreInvariant, StoreStepAtomic, PTL
  DEF StoreSpec, ImplementsAtomic, Atomic!Spec

-----------------------------------------------------------------------------
(* The steps of a pass, by what they do to the lock *)

\* The steps that leave the protection file and its lock alone.
QuietStep ==
  \/ \E c \in Cleaners :
       \/ PlanStep(c) \/ AbortPass(c) \/ FinishPass(c) \/ ListContainers(c)
       \/ ListOthers(c) \/ InspectContainers(c) \/ ReadBuildCache(c)
  \/ StrayTakesEffect \/ EngineChanges \/ Tick \/ EditConfig

\* A quiet step changes nothing the lock protects.
LEMMA QuietKeepsStore == QuietStep => UNCHANGED storeVars
  BY DEF QuietStep, PlanStep, LoadConfig, ReadProtection, Prepare, PlanningFails,
         AbortPass, FinishPass, ListContainers, ListOthers, InspectContainers,
         ReadBuildCache, StrayTakesEffect, EngineChanges, Tick, EditConfig, storeVars

\* Whatever a pass does is, for the protection file, an operation of its store.
LEMMA StepOfStore == [Next]_vars => [StoreNext]_storeVars
<1> SUFFICES ASSUME [Next]_vars
             PROVE  [StoreNext]_storeVars
  OBVIOUS
<1>1. CASE QuietStep
  BY <1>1, QuietKeepsStore
<1>2. CASE EditProtection
  BY <1>2 DEF EditProtection, StoreNext
<1>3. ASSUME NEW c \in Cleaners, LockShared(c) \/ Unlock(c)
      PROVE  StoreNext
  BY <1>3 DEF StoreNext, Cleaners
<1>4. ASSUME NEW c \in Cleaners,
             \/ LockTarget(c) \/ ReloadConfig(c) \/ InventoryFails(c) \/ Revalidate(c)
             \/ EngineAnswers(c) \/ LoseAnswer(c) \/ Crash(c)
      PROVE  [StoreNext]_storeVars
  <2>1. CASE LockTarget(c)
    BY <1>3, <2>1 DEF LockTarget
  <2>2. CASE ReloadConfig(c)
    BY <1>3, <2>2 DEF ReloadConfig, Settle
  <2>3. CASE InventoryFails(c)
    BY <1>3, <2>3 DEF InventoryFails, Settle
  <2>4. CASE Revalidate(c)
    BY <1>3, <2>4 DEF Revalidate, Settle
  <2>5. CASE EngineAnswers(c)
    BY <1>3, <2>5 DEF EngineAnswers, Settle
  <2>6. CASE LoseAnswer(c)
    BY <1>3, <2>6 DEF LoseAnswer, Settle
  <2>7. CASE Crash(c)
    BY <1>3, <2>7 DEF Crash
  <2> QED
    BY <1>4, <2>1, <2>2, <2>3, <2>4, <2>5, <2>6, <2>7
<1>5. CASE UNCHANGED vars
  BY <1>5 DEF vars
<1> QED
  BY <1>1, <1>2, <1>4, <1>5 DEF Next, CleanerStep, QuietStep

\* Applying plans never uses the protection file other than through its store.
THEOREM ExecutorUsesStore == Spec => StoreSpec
<1>1. Init => StoreInit
  BY DEF Init
<1> QED
  BY <1>1, StepOfStore, PTL DEF Spec, StoreSpec

\* Protection updates stay atomic while cleaners run, crash and lose answers.
THEOREM ExecutorImplementsAtomic == Spec => ImplementsAtomic
  BY ExecutorUsesStore, StoreImplementsAtomic

-----------------------------------------------------------------------------
(* The guard covers the delete *)

\* The inductive strengthening: who holds the lock is what pc says, and the
\* store's own invariant keeps editors out meanwhile.
GuardInv ==
  /\ StoreInv
  /\ DOMAIN pc = Cleaners
  /\ DOMAIN guard = Cleaners
  /\ GuardCoversDelete

\* No pass holds a guard before it starts.
LEMMA GuardInvInit == Init => GuardInv
<1> SUFFICES ASSUME Init
             PROVE  GuardInv
  OBVIOUS
<1>1. StoreInv
  BY StoreInvInit DEF Init
<1> QED
  BY <1>1 DEF Init, StoreInit, GuardInv, GuardCoversDelete, Busy

\* A step of one cleaner that keeps or drops its own guard keeps GuardInv.
LEMMA GuardInvSettle ==
  ASSUME GuardInv, StoreInv', NEW c \in Cleaners, Unlock(c),
         guard' = [guard EXCEPT ![c] = {}],
         \E target \in {"next", "crashed"} : pc' = [pc EXCEPT ![c] = target]
  PROVE  GuardInv'
  BY DEF GuardInv, GuardCoversDelete, Unlock, Busy

\* A step of one cleaner on either side of the lock, neither taking nor
\* dropping it, keeps GuardInv; without the lock it may read other entries.
LEMMA GuardInvMove ==
  ASSUME GuardInv, StoreInv', NEW c \in Cleaners, UNCHANGED storeVars,
         guard' = guard \/ (pc[c] \notin Busy /\ \E entries : guard' = [guard EXCEPT ![c] = entries]),
         \E target : pc' = [pc EXCEPT ![c] = target] /\ (target \in Busy <=> pc[c] \in Busy)
  PROVE  GuardInv'
  BY DEF GuardInv, GuardCoversDelete, storeVars

\* Every step of editors, cleaners and the world keeps GuardInv.
LEMMA GuardInvStep == GuardInv /\ [Next]_vars => GuardInv'
<1> SUFFICES ASSUME GuardInv, [Next]_vars
             PROVE  GuardInv'
  OBVIOUS
<1>1. StoreInv'
  BY StoreInvStep, StepOfStore DEF GuardInv
<1>2. ASSUME UNCHANGED <<storeVars, pc, guard>>
      PROVE  GuardInv'
  BY <1>2 DEF GuardInv, StoreInv, GuardCoversDelete, storeVars
<1>3. CASE \/ StrayTakesEffect \/ EngineChanges \/ Tick \/ EditConfig \/ UNCHANGED vars
  BY <1>2, <1>3 DEF StrayTakesEffect, EngineChanges, Tick, EditConfig, vars, cleanerVars
<1>4. CASE EditProtection
  \* An editor waits for every reader, so it never acts under a guard.
  <2>1. PICK e \in Editors : EditorStep(e)
    BY <1>4 DEF EditProtection
  <2>2. exclusive = Nobody => (protection' = protection /\ shared' = shared)
    BY <2>1, ProcessAssumption DEF EditorStep, BeginUpdate, CommitUpdate, AbandonUpdate
  <2>3. exclusive' # Nobody => shared = {}
    BY <2>1, ProcessAssumption DEF EditorStep, BeginUpdate, CommitUpdate, AbandonUpdate
  <2>4. shared' = shared
    BY <2>1 DEF EditorStep, BeginUpdate, CommitUpdate, AbandonUpdate
  <2>5. UNCHANGED <<pc, guard>>
    BY <1>4 DEF EditProtection, cleanerVars
  <2> QED
    BY <1>1, <2>2, <2>3, <2>4, <2>5 DEF GuardInv, GuardCoversDelete, StoreInv
<1>5. ASSUME NEW c \in Cleaners, PlanStep(c) \/ CleanerStep(c) \/ Crash(c)
      PROVE  GuardInv'
  <2>1. CASE LockTarget(c)
    BY <1>1, <2>1 DEF LockTarget, LockShared, GuardInv, GuardCoversDelete, Busy, Cleaners
  <2>2. CASE PlanStep(c) \/ AbortPass(c) \/ FinishPass(c)
    <3>1. /\ UNCHANGED storeVars
          /\ guard' = guard \/ \E entries : guard' = [guard EXCEPT ![c] = entries]
      BY <2>2 DEF PlanStep, LoadConfig, ReadProtection, Prepare, PlanningFails, AbortPass, FinishPass
    <3>2. \E target \in {"loaded", "snapped", "next", "failed", "done"} : pc' = [pc EXCEPT ![c] = target]
      BY <2>2 DEF PlanStep, LoadConfig, ReadProtection, Prepare, PlanningFails, AbortPass, FinishPass
    <3>3. pc[c] \notin Busy
      BY <2>2 DEF PlanStep, LoadConfig, ReadProtection, Prepare, PlanningFails, AbortPass,
                  FinishPass, Busy
    <3> QED
      BY <1>1, <3>1, <3>2, <3>3, GuardInvMove DEF Busy
  <2>3. CASE ListContainers(c) \/ ListOthers(c)
    BY <1>2, <2>3 DEF ListContainers, ListOthers
  <2>4. CASE InspectContainers(c) \/ ReadBuildCache(c)
    BY <1>1, <2>4, GuardInvMove DEF InspectContainers, ReadBuildCache, Busy
  <2>5. CASE ReloadConfig(c)
    BY <1>1, <2>5, GuardInvMove, GuardInvSettle DEF ReloadConfig, Settle, Busy
  <2>6. CASE InventoryFails(c) \/ LoseAnswer(c)
    BY <1>1, <2>6, GuardInvSettle DEF InventoryFails, LoseAnswer, Settle
  <2>7. CASE Revalidate(c)
    BY <1>1, <2>7, GuardInvMove, GuardInvSettle DEF Revalidate, Settle, Busy
  <2>8. CASE EngineAnswers(c)
    BY <1>1, <1>2, <2>8, GuardInvSettle DEF EngineAnswers, Settle
  <2>9. CASE Crash(c)
    BY <1>1, <2>9, GuardInvSettle DEF Crash
  <2> QED
    BY <1>5, <2>1, <2>2, <2>3, <2>4, <2>5, <2>6, <2>7, <2>8, <2>9 DEF CleanerStep
<1> QED
  BY <1>3, <1>4, <1>5 DEF Next

\* From the moment a target is locked until it has its outcome, the entries the
\* cleaner decides with are those in the file and no editor can replace them.
THEOREM GuardAlwaysCovers == Spec => []GuardCoversDelete
<1>1. GuardInv => GuardCoversDelete
  BY DEF GuardInv
<1> QED
  BY <1>1, GuardInvInit, GuardInvStep, PTL DEF Spec

-----------------------------------------------------------------------------
(* What is protected is not requested *)

\* Protection always wins over a cleanup rule, whatever the rules say.
LEMMA DecideSparesProtected ==
  ASSUME NEW cfg, NEW item, NEW now, NEW removals, NEW entries, NEW obs,
         Decide(cfg, item, now, removals, entries, obs).action = "remove"
  PROVE  /\ Decide(cfg, item, now, removals, entries, obs).resource = item
         /\ ~Protected(entries, item)
         /\ ~Selects(cfg.protect, item)
<1> DEFINE d == Decide(cfg, item, now, removals, entries, obs)
<1>1. ~(Protected(entries, item) \/ Selects(cfg.protect, item))
  BY DEF Decide, KeepDecision
<1>2. CASE item.kind = "build-cache"
  <2>1. d = DecideBuildCache(cfg, item, removals)
    BY <1>1, <1>2 DEF Decide
  <2>2. d.resource = item
    BY <2>1 DEF DecideBuildCache, Unowned, KeepDecision, RemoveDecision
  <2> QED
    BY <1>1, <2>2
<1>3. CASE item.kind # "build-cache" /\ ~(item.kind = "network" /\ item.system)
  <2>1. d = DecideByRule(cfg, item, now, obs)
    BY <1>1, <1>3 DEF Decide
  <2>2. DecideByRule(cfg, item, now, obs).resource = item
    BY DEF DecideByRule, Unowned, KeepDecision, RemoveDecision
  <2> QED
    BY <1>1, <2>1, <2>2
<1>4. CASE item.kind # "build-cache" /\ item.kind = "network" /\ item.system
  BY <1>1, <1>4 DEF Decide, KeepDecision
<1> QED
  BY <1>2, <1>3, <1>4

\* What the rebuilt plan still authorizes is protected neither by the entries
\* read under the guard nor by the plan's configuration.
LEMMA RevalidatedUnprotected ==
  ASSUME NEW c \in Cleaners, NEW d \in Revalidated(c)
  PROVE  /\ ~Protected(guard[c], d.resource)
         /\ ~Selects(plan[c].cfg.protect, d.resource)
<1> DEFINE inventory == Viewed(c)
           decisions == BuildPlan(plan[c].cfg, inventory, clock, guard[c], plan[c].obs)
<1>1. d \in decisions /\ d.action = "remove"
  BY DEF Revalidated, StillAuthorized
<1>2. PICK item \in inventory :
        d = Decide(plan[c].cfg, item, clock, CacheRemovals(plan[c].cfg.cache, inventory, clock),
                   guard[c], plan[c].obs)
  BY <1>1 DEF BuildPlan
<1> QED
  BY <1>1, <1>2, DecideSparesProtected

\* The inductive strengthening: requests exist only under the guard, so the
\* file they were checked against is the file there is.
RequestInv ==
  /\ GuardInv
  /\ DOMAIN plan = Cleaners
  /\ DOMAIN request = Cleaners
  /\ \A c \in Cleaners : request[c] # None => pc[c] = "deleting"
  /\ \A c \in Cleaners : pc[c] = "deleting" =>
       /\ {"item", "refs"} \subseteq DOMAIN request[c]
       /\ ~Protected(protection, request[c].item)
       /\ ~Selects(plan[c].cfg.protect, request[c].item)

\* Nothing is requested at the start.
LEMMA RequestInvInit == Init => RequestInv
  BY GuardInvInit DEF Init, RequestInv

\* A request of another cleaner survives as long as its file, plan and pc do.
LEMMA RequestInvDrop ==
  ASSUME RequestInv, GuardInv', NEW c \in Cleaners, NEW target,
         protection' = protection,
         pc' = [pc EXCEPT ![c] = target], target # "deleting",
         DOMAIN request' = Cleaners, request'[c] = None,
         \A k \in Cleaners \ {c} : request'[k] = request[k],
         DOMAIN plan' = Cleaners,
         \A k \in Cleaners \ {c} : plan'[k] = plan[k]
  PROVE  RequestInv'
<1> QED
  BY DEF RequestInv, GuardInv

\* Every step keeps RequestInv: a request is made from a plan rebuilt under the
\* guard, and the guard holds the file still until the request is gone.
LEMMA RequestInvStep == RequestInv /\ [Next]_vars => RequestInv'
<1> SUFFICES ASSUME RequestInv, [Next]_vars
             PROVE  RequestInv'
  OBVIOUS
<1>1. GuardInv'
  BY GuardInvStep DEF RequestInv
<1>2. ASSUME UNCHANGED <<protection, pc, plan, request>>
      PROVE  RequestInv'
  BY <1>1, <1>2 DEF RequestInv
<1>3. CASE \/ StrayTakesEffect \/ EngineChanges \/ Tick \/ EditConfig \/ UNCHANGED vars
  BY <1>2, <1>3
  DEF StrayTakesEffect, EngineChanges, Tick, EditConfig, vars, cleanerVars, storeVars
<1>4. CASE EditProtection
  <2>1. UNCHANGED <<pc, plan, request>>
    BY <1>4 DEF EditProtection, cleanerVars
  <2>2. CASE protection' = protection
    BY <1>2, <2>1, <2>2
  <2>3. CASE protection' # protection
    \* The file changes only while nobody holds a guard.
    <3>1. exclusive # Nobody
      BY <1>4, <2>3, ProcessAssumption
      DEF EditProtection, EditorStep, BeginUpdate, CommitUpdate, AbandonUpdate
    <3>2. \A c \in Cleaners : pc[c] # "deleting"
      BY <3>1 DEF RequestInv, GuardInv, GuardCoversDelete, Busy
    <3> QED
      BY <1>1, <2>1, <3>2 DEF RequestInv
  <2> QED
    BY <2>2, <2>3
<1>5. ASSUME NEW c \in Cleaners, PlanStep(c) \/ CleanerStep(c) \/ Crash(c)
      PROVE  RequestInv'
  <2>1. protection' = protection
    BY <1>5 DEF PlanStep, LoadConfig, ReadProtection, Prepare, PlanningFails, CleanerStep,
       Crash, LockTarget, AbortPass, FinishPass, ReloadConfig, ListContainers, ListOthers, InspectContainers, ReadBuildCache, InventoryFails,
       Revalidate, EngineAnswers, LoseAnswer, Settle, LockShared, Unlock, storeVars
  <2>2. CASE PlanStep(c)
    <3>1. request[c] = None /\ request' = request
      BY <2>2 DEF PlanStep, LoadConfig, ReadProtection, Prepare, PlanningFails, RequestInv
    <3>2. /\ \E target \in {"loaded", "snapped", "next", "failed"} : pc' = [pc EXCEPT ![c] = target]
          /\ DOMAIN plan' = Cleaners
          /\ \A k \in Cleaners \ {c} : plan'[k] = plan[k]
      BY <2>2 DEF PlanStep, LoadConfig, ReadProtection, Prepare, PlanningFails, RequestInv
    <3> QED
      BY <1>1, <2>1, <3>1, <3>2, RequestInvDrop DEF RequestInv
  <2>3. CASE LockTarget(c) \/ AbortPass(c) \/ FinishPass(c) \/ InspectContainers(c) \/ ReadBuildCache(c)
    <3>1. request[c] = None /\ UNCHANGED <<request, plan>>
      BY <2>3 DEF LockTarget, AbortPass, FinishPass, InspectContainers, ReadBuildCache, RequestInv
    <3>2. \E target : pc' = [pc EXCEPT ![c] = target] /\ target # "deleting"
      BY <2>3 DEF LockTarget, AbortPass, FinishPass, InspectContainers, ReadBuildCache
    <3> QED
      BY <1>1, <2>1, <3>1, <3>2, RequestInvDrop DEF RequestInv
  <2>4. CASE ListContainers(c) \/ ListOthers(c)
    BY <1>2, <2>1, <2>4 DEF ListContainers, ListOthers
  <2>5. ASSUME NEW status, Settle(c, status)
        PROVE  RequestInv'
    <3>1. request'[c] = None
      BY <2>5 DEF Settle, RequestInv
    <3> QED
      BY <1>1, <2>1, <2>5, <3>1, RequestInvDrop DEF Settle, RequestInv
  <2>6. CASE ReloadConfig(c)
    <3>1. CASE config = plan[c].cfg /\ pc' = [pc EXCEPT ![c] = "listing"] /\ UNCHANGED <<plan, request>>
      <4>1. request[c] = None
        BY <2>6 DEF ReloadConfig, RequestInv
      <4> QED
        BY <1>1, <2>1, <3>1, <4>1, RequestInvDrop DEF RequestInv
    <3> QED
      BY <2>5, <2>6, <3>1 DEF ReloadConfig
  <2>7. CASE InventoryFails(c) \/ LoseAnswer(c)
    BY <2>5, <2>7 DEF InventoryFails, LoseAnswer
  <2>8. CASE Revalidate(c)
    <3>1. ASSUME NEW d \in Revalidated(c),
                 request' = [request EXCEPT ![c] = DeleteRequest(c, d.resource)],
                 pc' = [pc EXCEPT ![c] = "deleting"],
                 plan' = plan
          PROVE  RequestInv'
      <4>1. guard[c] = protection
        BY <2>8 DEF Revalidate, RequestInv, GuardInv, GuardCoversDelete, Busy
      <4>2. /\ ~Protected(protection, d.resource)
            /\ ~Selects(plan[c].cfg.protect, d.resource)
        BY <4>1, RevalidatedUnprotected
      <4>3. /\ request'[c].item = d.resource
            /\ {"item", "refs"} \subseteq DOMAIN request'[c]
            /\ \A k \in Cleaners \ {c} : request'[k] = request[k]
        BY <3>1 DEF DeleteRequest, RequestInv
      <4> QED
        BY <1>1, <2>1, <3>1, <4>2, <4>3 DEF RequestInv, GuardInv
    <3> QED
      BY <2>5, <2>8, <3>1 DEF Revalidate
  <2>9. CASE EngineAnswers(c)
    <3>1. ASSUME NEW refs,
                 request' = [request EXCEPT ![c].refs = refs],
                 UNCHANGED <<pc, plan>>
          PROVE  RequestInv'
      <4>1. pc[c] = "deleting"
        BY <2>9 DEF EngineAnswers
      <4>2. /\ request'[c].item = request[c].item
            /\ {"item", "refs"} \subseteq DOMAIN request'[c]
            /\ \A k \in Cleaners \ {c} : request'[k] = request[k]
        BY <3>1, <4>1 DEF RequestInv
      <4> QED
        BY <1>1, <2>1, <3>1, <4>1, <4>2 DEF RequestInv, GuardInv
    <3> QED
      BY <2>5, <2>9, <3>1 DEF EngineAnswers
  <2>10. CASE Crash(c)
    <3>1. request'[c] = None
      BY <2>10 DEF Crash, RequestInv
    <3> QED
      BY <1>1, <2>1, <2>10, <3>1, RequestInvDrop DEF Crash, RequestInv
  <2> QED
    BY <1>5, <2>2, <2>3, <2>4, <2>6, <2>7, <2>8, <2>9, <2>10 DEF CleanerStep
<1> QED
  BY <1>3, <1>4, <1>5 DEF Next

\* A delete request is never under way for a resource the protection file, as
\* it is at that moment, or the plan's configuration protects.
THEOREM RequestsNeverProtected == Spec => []RequestsUnprotected
<1>1. RequestInv => RequestsUnprotected
  BY DEF RequestInv, RequestsUnprotected
<1> QED
  BY <1>1, RequestInvInit, RequestInvStep, PTL DEF Spec

-----------------------------------------------------------------------------
(* Lists of targets *)

\* No id is in the list twice.
OnceEach(q) == \A m, n \in DOMAIN q : q[m].id = q[n].id => m = n

\* Taking the first target off a list takes exactly its id out of the ids.
LEMMA TailLosesHead ==
  ASSUME NEW S, NEW q \in Seq(S), q # <<>>, OnceEach(q)
  PROVE  /\ Head(q) \in S
         /\ Tail(q) \in Seq(S)
         /\ OnceEach(Tail(q))
         /\ IdsOf(ToSet(Tail(q))) = IdsOf(ToSet(q)) \ {Head(q).id}
         /\ Head(q).id \in IdsOf(ToSet(q))
<1>1. /\ Head(q) \in S /\ Tail(q) \in Seq(S)
      /\ DOMAIN q = 1..Len(q) /\ Len(q) \in Nat \ {0}
      /\ DOMAIN Tail(q) = 1..(Len(q) - 1)
      /\ \A i \in 1..(Len(q) - 1) : Tail(q)[i] = q[i + 1]
      /\ Head(q) = q[1]
  BY HeadTailProperties, LenProperties, EmptySeq
<1>2. OnceEach(Tail(q))
  BY <1>1 DEF OnceEach
<1>3. ASSUME NEW i \in IdsOf(ToSet(Tail(q)))
      PROVE  i \in IdsOf(ToSet(q)) \ {Head(q).id}
  <2>1. PICK n \in 1..(Len(q) - 1) : i = Tail(q)[n].id
    BY <1>1 DEF IdsOf, ToSet
  <2>2. i = q[n + 1].id /\ n + 1 \in DOMAIN q /\ n + 1 # 1 /\ 1 \in DOMAIN q
    BY <1>1, <2>1
  <2> QED
    BY <1>1, <2>2 DEF IdsOf, ToSet, OnceEach
<1>4. ASSUME NEW i \in IdsOf(ToSet(q)), i # Head(q).id
      PROVE  i \in IdsOf(ToSet(Tail(q)))
  <2>1. PICK n \in 1..Len(q) : i = q[n].id
    BY <1>1 DEF IdsOf, ToSet
  <2>2. n # 1 /\ n - 1 \in 1..(Len(q) - 1) /\ Tail(q)[n - 1] = q[n]
    BY <1>1, <1>4, <2>1
  <2> QED
    BY <1>1, <2>1, <2>2 DEF IdsOf, ToSet
<1>5. Head(q).id \in IdsOf(ToSet(q))
  BY <1>1 DEF IdsOf, ToSet
<1> QED
  BY <1>1, <1>2, <1>3, <1>4, <1>5

\* An order of finitely many targets lists all of them, and once each when no
\* two have the same id.
LEMMA OrderListsTargets ==
  ASSUME NEW targets, IsFiniteSet(targets), NEW inventory,
         NEW order \in Orders(targets, inventory),
         \A s, t \in targets : s.id = t.id => s = t
  PROVE  order \in Seq(targets) /\ ToSet(order) = targets /\ OnceEach(order)
<1> DEFINE D == 1..Cardinality(targets)
<1>1. order \in [D -> targets] /\ \A i, j \in D : i # j => order[i] # order[j]
  BY DEF Orders, SetToSeqs
<1>2. Cardinality(targets) \in Nat
  BY FS_CardinalityType
<1>3. order \in Seq(targets)
  BY <1>1, <1>2
<1>4. order \in Injection(D, targets)
  BY <1>1 DEF Injection, IsInjective
<1>5. Cardinality(D) = Cardinality(targets)
  BY <1>2, FS_Interval
<1>6. order \in Surjection(D, targets)
  BY <1>4, <1>5, FS_Injection
<1>7. ToSet(order) = targets
  BY <1>1, <1>6 DEF Surjection, ToSet
<1>8. OnceEach(order)
  BY <1>1 DEF OnceEach
<1> QED
  BY <1>3, <1>7, <1>8

-----------------------------------------------------------------------------
(* The engine *)

\* What every object of the engine is, whatever became of its names.
Genuine(o) ==
  /\ {"id", "kind", "names"} \subseteq DOMAIN o
  /\ o.kind \in Kinds
  /\ o.kind = "image" => o.id \in o.names
  /\ \E p \in ObjectStates : p.id = o.id /\ p.kind = o.kind

\* Objects are found under their id and names belong to one image.
EngineInv ==
  /\ DOMAIN docker = Ids
  /\ \A i \in Ids : docker[i] # None => docker[i].id = i /\ Genuine(docker[i])
  /\ TagsUnique(docker)

\* What the engine may make of its objects on a request: some are gone, and an
\* image may have lost a name other than its id.
Shrunk(contents) ==
  /\ DOMAIN contents = Ids
  /\ \A i \in Ids :
       \/ contents[i] \in {docker[i], None}
       \/ /\ docker[i] # None /\ docker[i].kind = "image"
          /\ \E t : t # i /\ contents[i] = [docker[i] EXCEPT !.names = @ \ {t}]

\* An identity belongs to one kind.
LEMMA GenuineKind ==
  ASSUME NEW o, NEW p, Genuine(o), Genuine(p), o.id = p.id
  PROVE  o.kind = p.kind
  BY ObjectAssumption DEF Genuine

\* What is given from outside is genuine.
LEMMA StatesGenuine ==
  /\ \A o \in Objects : Genuine(o) /\ o.id \in Ids
  /\ \A contents \in InitDocker : \A i \in Ids : contents[i] # None => Genuine(contents[i])
<1>1. ASSUME NEW o \in Objects
      PROVE  Genuine(o) /\ o.id \in Ids
  BY ExecutorAssumption, ObjectAssumption DEF ObjectStates, Genuine
<1>2. ASSUME NEW contents \in InitDocker, NEW i \in Ids, contents[i] # None
      PROVE  Genuine(contents[i])
  <2>1. contents[i] \in ObjectStates
    BY <1>2 DEF ObjectStates
  <2> QED
    BY <1>2, <2>1, ExecutorAssumption, ObjectAssumption DEF Genuine
<1> QED
  BY <1>1, <1>2

\* Losing names and objects keeps the others what they are.
LEMMA ShrunkKeepsEngine ==
  ASSUME EngineInv, Shrunk(docker')
  PROVE  EngineInv'
<1>1. ASSUME NEW i \in Ids, docker'[i] # None
      PROVE  /\ docker[i] # None /\ docker'[i].id = i /\ docker'[i].kind = docker[i].kind
             /\ docker[i].kind = "image" => docker'[i].names \subseteq docker[i].names
             /\ Genuine(docker'[i])
  <2>1. CASE docker'[i] = docker[i]
    BY <1>1, <2>1 DEF EngineInv
  <2>2. ASSUME docker[i] # None, docker[i].kind = "image",
               NEW t, t # i, docker'[i] = [docker[i] EXCEPT !.names = @ \ {t}]
        PROVE  /\ docker'[i].id = i /\ docker'[i].kind = docker[i].kind
               /\ docker'[i].names \subseteq docker[i].names
               /\ Genuine(docker'[i])
    <3>1. docker[i].id = i /\ Genuine(docker[i])
      BY <2>2 DEF EngineInv
    <3>2. /\ DOMAIN docker'[i] = DOMAIN docker[i]
          /\ docker'[i].id = i /\ docker'[i].kind = docker[i].kind
          /\ docker'[i].names = docker[i].names \ {t}
      BY <2>2, <3>1 DEF Genuine
    <3> QED
      BY <2>2, <3>1, <3>2 DEF Genuine
  <2> QED
    BY <1>1, <2>1, <2>2 DEF Shrunk
<1>2. TagsUnique(docker)'
  BY <1>1 DEF EngineInv, TagsUnique
<1> QED
  BY <1>1, <1>2 DEF EngineInv, Shrunk

\* Whatever the engine answers to a request, its objects only shrink.
LEMMA EffectsShrink ==
  ASSUME EngineInv, NEW r, r.id \in Ids, NEW reply \in Effects(r)
  PROVE  Shrunk(reply.docker)
<1>1. ASSUME NEW i \in Ids
      PROVE  Shrunk(docker) /\ Shrunk(Gone(i))
  BY DEF EngineInv, Shrunk, Gone
<1>2. Shrunk(docker)
  BY <1>1
<1>3. reply = RemoveContainer(r) => Shrunk(reply.docker)
  BY <1>1, <1>2 DEF RemoveContainer, Reply
<1>4. reply = RemoveUnused(r) => Shrunk(reply.docker)
  BY <1>1, <1>2 DEF RemoveUnused, Reply
<1>5. reply = PruneRecord(r) => Shrunk(reply.docker)
  <2>1. \/ PruneRecord(r) = Reply("pruned nothing", docker)
        \/ PruneRecord(r) = Reply("removed", Gone(r.id))
    BY Zenon DEF PruneRecord
  <2>2. \A answer, contents : Reply(answer, contents).docker = contents
    BY DEF Reply
  <2> QED
    BY <1>1, <1>2, <2>1, <2>2
<1>6. reply \in PruneTooMuch(r) => Shrunk(reply.docker)
  BY DEF PruneTooMuch, Reply, Gone, EngineInv, Shrunk, Present
<1>7. reply = RemoveImageName(r) => Shrunk(reply.docker)
  <2> DEFINE owners == {o \in Present : o.kind = "image" /\ r.ref \in o.names}
             image  == CHOOSE o \in owners : TRUE
             tags   == image.names \ {image.id}
  <2> SUFFICES ASSUME reply = RemoveImageName(r)
               PROVE  Shrunk(reply.docker)
    OBVIOUS
  <2>1. CASE owners = {}
    BY <1>2, <2>1 DEF RemoveImageName, Reply
  <2>2. CASE owners # {}
    <3>1. image \in Present /\ image.kind = "image"
      BY <2>2
    <3>2. image.id \in Ids /\ docker[image.id] = image /\ image # None
      BY <3>1 DEF Present, EngineInv
    <3>3. CASE r.ref \in tags /\ tags # {r.ref}
      <4>1. reply.docker = [docker EXCEPT ![image.id].names = @ \ {r.ref}]
        BY <2>2, <3>3 DEF RemoveImageName, Reply
      <4>2. r.ref # image.id
        BY <3>3
      <4>3. /\ DOMAIN reply.docker = Ids
            /\ reply.docker[image.id] = [docker[image.id] EXCEPT !.names = @ \ {r.ref}]
            /\ \A i \in Ids \ {image.id} : reply.docker[i] = docker[i]
        BY <3>2, <4>1 DEF EngineInv
      <4> HIDE DEF image
      <4> QED
        BY <3>1, <3>2, <4>2, <4>3 DEF Shrunk
    <3>4. CASE ~(r.ref \in tags /\ tags # {r.ref})
      BY <1>1, <1>2, <2>2, <3>2, <3>4 DEF RemoveImageName, Reply
    <3> QED
      BY <3>3, <3>4
  <2> QED
    BY <2>1, <2>2
<1> QED
  BY <1>2, <1>3, <1>4, <1>5, <1>6, <1>7 DEF Effects, Reply

\* The engine's first contents are genuine.
LEMMA EngineInvInit == Init => EngineInv
<1> SUFFICES ASSUME Init
             PROVE  EngineInv
  OBVIOUS
<1>1. docker \in InitDocker
  BY DEF Init
<1> QED
  BY <1>1, StatesGenuine, ExecutorAssumption, ObjectAssumption DEF EngineInv

\* What the engine's owner does leaves genuine objects, too.
LEMMA EngineInvChange ==
  ASSUME EngineInv, EngineChanges
  PROVE  EngineInv'
<1>1. ASSUME NEW o \in Objects, docker' = [docker EXCEPT ![o.id] = o]
      PROVE  EngineInv'
  BY <1>1, StatesGenuine DEF EngineInv, EngineChanges
<1>2. ASSUME NEW i \in Ids, docker' = Gone(i)
      PROVE  EngineInv'
  BY <1>2 DEF EngineInv, EngineChanges, Gone
<1> QED
  BY <1>1, <1>2 DEF EngineChanges

-----------------------------------------------------------------------------
(* The targets of a new plan *)

\* An inventory item is its object, but for what the container list says of it.
LEMMA ItemKeeps ==
  ASSUME NEW o, Genuine(o), NEW listed
  PROVE  /\ Item(o, listed).id = o.id
         /\ Item(o, listed).kind = o.kind
         /\ Item(o, listed).names = o.names
  BY DEF Item, Genuine

\* Objects of the engine, each once.
Listing(objects) ==
  /\ \A o \in objects : o.id \in Ids /\ Genuine(o)
  /\ \A o, p \in objects : o.id = p.id => o = p

\* What a cleaner has of the inventory it waits for.
Lists(c) ==
  /\ DOMAIN view[c] = {"listed", "containers", "others", "cache"}
  /\ view[c].listed # None =>
       Listing(view[c].listed) /\ \A o \in view[c].listed : o.kind = "container"
  /\ view[c].others # None \/ pc[c] \in {"surveyed", "inspected", "collected", "listed"} =>
       /\ Listing(view[c].others)
       /\ \A o \in view[c].others : o.kind \notin {"container", "build-cache"}
  /\ pc[c] \in {"surveyed", "inspected", "collected", "listed"} =>
       Listing(view[c].containers) /\ \A o \in view[c].containers : o.kind = "container"
  /\ pc[c] \in {"collected", "listed"} =>
       Listing(view[c].cache) /\ \A o \in view[c].cache : o.kind = "build-cache"

CleanersDomain ==
  /\ DOMAIN pc = Cleaners /\ DOMAIN plan = Cleaners /\ DOMAIN queue = Cleaners
  /\ DOMAIN request = Cleaners /\ DOMAIN report = Cleaners /\ DOMAIN view = Cleaners

InventoryInv == \A c \in Cleaners : Lists(c)

\* What is present is a listing, and so is every part of it.
LEMMA PresentListed ==
  ASSUME EngineInv
  PROVE  /\ Listing(ContainersIn(Present)) /\ \A o \in ContainersIn(Present) : o.kind = "container"
         /\ Listing(OthersIn(Present))
         /\ \A o \in OthersIn(Present) : o.kind \notin {"container", "build-cache"}
         /\ Listing(CacheIn(Present)) /\ \A o \in CacheIn(Present) : o.kind = "build-cache"
<1>1. \A o \in Present : o.id \in Ids /\ docker[o.id] = o /\ o # None /\ Genuine(o)
  BY DEF Present, EngineInv
<1> QED
  BY <1>1 DEF Listing, ContainersIn, OthersIn, CacheIn

\* Inspection drops containers and dates the others.
LEMMA InspectedListed ==
  ASSUME NEW cfg, NEW listed, Listing(listed), \A o \in listed : o.kind = "container"
  PROVE  /\ Listing(Inspected(cfg, listed))
         /\ \A o \in Inspected(cfg, listed) : o.kind = "container"
<1>1. CASE ~NeedsContainerState(cfg)
  BY <1>1 DEF Inspected
<1>2. CASE NeedsContainerState(cfg)
  <2> DEFINE Dated(p) == [p EXCEPT !.state = docker[p.id].state, !.since = docker[p.id].since]
  <2>1. \A o \in Inspected(cfg, listed) : \E p \in listed : o = Dated(p)
    BY <1>2 DEF Inspected
  <2>2. ASSUME NEW p \in listed
        PROVE  /\ DOMAIN Dated(p) = DOMAIN p /\ Dated(p).id = p.id /\ Dated(p).kind = p.kind
               /\ Dated(p).names = p.names
    BY DEF Listing, Genuine
  <2> HIDE DEF Dated
  <2>3. \A p \in listed : Dated(p).id \in Ids /\ Genuine(Dated(p)) /\ Dated(p).kind = "container"
    BY <2>2 DEF Listing, Genuine
  <2>4. \A p, q \in listed : Dated(p).id = Dated(q).id => Dated(p) = Dated(q)
    BY <2>2 DEF Listing
  <2> QED
    BY <2>1, <2>3, <2>4 DEF Listing
<1> QED
  BY <1>1, <1>2

\* A step of one cleaner disturbs no other's lists.
LEMMA ListsFrame ==
  ASSUME InventoryInv, NEW c \in Cleaners, Lists(c)',
         \A k \in Cleaners \ {c} : view'[k] = view[k] /\ pc'[k] = pc[k]
  PROVE  InventoryInv'
<1>1. ASSUME NEW k \in Cleaners, k # c
      PROVE  Lists(k)'
  <2>1. view'[k] = view[k] /\ pc'[k] = pc[k]
    BY <1>1
  <2> QED
    BY <2>1 DEF InventoryInv, Lists, Listing, Genuine
<1> QED
  BY <1>1 DEF InventoryInv

\* Every step keeps the lists what they are.
LEMMA InventoryInvStep ==
  ASSUME EngineInv, CleanersDomain, InventoryInv, [Next]_vars
  PROVE  InventoryInv' /\ DOMAIN view' = Cleaners
<1>1. CASE UNCHANGED <<view, pc>>
  BY <1>1 DEF InventoryInv, Lists, Listing, Genuine, CleanersDomain
<1>2. CASE EditProtection \/ StrayTakesEffect \/ EngineChanges \/ Tick \/ EditConfig \/ UNCHANGED vars
  BY <1>1, <1>2 DEF EditProtection, StrayTakesEffect, EngineChanges, Tick, EditConfig, vars, cleanerVars
<1>3. ASSUME NEW c \in Cleaners, PlanStep(c) \/ CleanerStep(c) \/ Crash(c)
      PROVE  InventoryInv' /\ DOMAIN view' = Cleaners
  <2>1. ASSUME NEW target, pc' = [pc EXCEPT ![c] = target],
               target \notin {"surveyed", "inspected", "collected", "listed"},
               \/ view' = view /\ pc[c] \notin {"surveyed", "inspected", "collected"}
               \/ view' = [view EXCEPT ![c] = NoView]
        PROVE  InventoryInv' /\ DOMAIN view' = Cleaners
    <3>1. pc'[c] = target /\ \A k \in Cleaners \ {c} : view'[k] = view[k] /\ pc'[k] = pc[k]
      BY <2>1 DEF CleanersDomain
    <3>2. Lists(c)'
      BY <2>1, <3>1 DEF CleanersDomain, InventoryInv, Lists, Listing, Genuine, NoView
    <3> QED
      BY <2>1, <3>1, <3>2, ListsFrame DEF CleanersDomain
  <2>2. CASE LoadConfig(c) \/ ReadProtection(c) \/ LockTarget(c) \/ AbortPass(c) \/ FinishPass(c)
    BY <2>1, <2>2 DEF LoadConfig, ReadProtection, LockTarget, AbortPass, FinishPass
  <2>3. CASE Prepare(c) \/ PlanningFails(c) \/ InventoryFails(c) \/ LoseAnswer(c) \/ Crash(c)
    BY <2>1, <2>3 DEF Prepare, PlanningFails, InventoryFails, LoseAnswer, Settle, Crash
  <2>4. CASE ReloadConfig(c)
    BY <2>1, <2>4 DEF ReloadConfig, Settle
  <2>5. CASE Revalidate(c)
    BY <2>1, <2>5 DEF Revalidate, Settle
  <2>6. CASE EngineAnswers(c)
    BY <1>1, <2>1, <2>6 DEF EngineAnswers, Settle
  <2>7. CASE ListContainers(c) \/ ListOthers(c)
    <3>1. /\ pc' = pc /\ pc[c] \in {"snapped", "listing"} /\ DOMAIN view' = Cleaners
          /\ \A k \in Cleaners \ {c} : view'[k] = view[k] /\ pc'[k] = pc[k]
          /\ \/ view'[c] = [view[c] EXCEPT !.listed = ContainersIn(Present)]
             \/ view'[c] = [view[c] EXCEPT !.others = OthersIn(Present)]
      BY <2>7 DEF ListContainers, ListOthers, CleanersDomain
    <3>2. Lists(c)'
      BY <3>1, PresentListed DEF InventoryInv, Lists, Listing, Genuine
    <3> QED
      BY <3>1, <3>2, ListsFrame
  <2>8. CASE InspectContainers(c)
    <3>1. /\ view[c].listed # None /\ view[c].others # None /\ DOMAIN view' = Cleaners
          /\ pc'[c] \in {"surveyed", "inspected"}
          /\ \A k \in Cleaners \ {c} : view'[k] = view[k] /\ pc'[k] = pc[k]
          /\ view'[c] = [view[c] EXCEPT !.containers = Inspected(plan[c].cfg, view[c].listed)]
      BY <2>8 DEF InspectContainers, CleanersDomain
    <3>2. Listing(view[c].listed) /\ \A o \in view[c].listed : o.kind = "container"
      BY <3>1 DEF InventoryInv, Lists
    <3> DEFINE inspected == Inspected(plan[c].cfg, view[c].listed)
    <3>3. Listing(inspected) /\ \A o \in inspected : o.kind = "container"
      BY <3>2, InspectedListed
    <3> HIDE DEF inspected
    <3>4. Lists(c)'
      BY <3>1, <3>3 DEF InventoryInv, Lists, Listing, Genuine, inspected
    <3> QED
      BY <3>1, <3>4, ListsFrame
  <2>9. CASE ReadBuildCache(c)
    <3>1. /\ pc[c] \in {"surveyed", "inspected"} /\ pc'[c] \in {"collected", "listed"}
          /\ DOMAIN view' = Cleaners
          /\ \A k \in Cleaners \ {c} : view'[k] = view[k] /\ pc'[k] = pc[k]
          /\ view'[c] = [view[c] EXCEPT !.cache = CacheRecords(plan[c].cfg)]
      BY <2>9 DEF ReadBuildCache, CleanersDomain
    <3> DEFINE records == CacheRecords(plan[c].cfg)
    <3>2. Listing(records) /\ \A o \in records : o.kind = "build-cache"
      BY PresentListed DEF CacheRecords, Listing
    <3> HIDE DEF records
    <3>3. Lists(c)'
      BY <3>1, <3>2 DEF InventoryInv, Lists, Listing, Genuine, records
    <3> QED
      BY <3>1, <3>3, ListsFrame
  <2> QED
    BY <1>3, <2>2, <2>3, <2>4, <2>5, <2>6, <2>7, <2>8, <2>9 DEF PlanStep, CleanerStep
<1> QED
  BY <1>2, <1>3 DEF Next

\* Each item of an inventory is an object the engine had, and the only one of
\* its id, although the lists were taken at different moments.
LEMMA ViewedItems ==
  ASSUME InventoryInv, NEW c \in Cleaners, pc[c] = "collected"
  PROVE  /\ \A item \in Viewed(c) :
              /\ item.id \in Ids /\ item.kind \in Kinds
              /\ \E p \in ObjectStates : p.id = item.id /\ p.kind = item.kind
         /\ \A item, other \in Viewed(c) : item.id = other.id => item = other
<1> DEFINE Seen(o) == Item(o, view[c].listed)
<1>1. /\ Listing(view[c].containers) /\ \A o \in view[c].containers : o.kind = "container"
      /\ Listing(view[c].others) /\ \A o \in view[c].others : o.kind \notin {"container", "build-cache"}
      /\ Listing(view[c].cache) /\ \A o \in view[c].cache : o.kind = "build-cache"
  BY DEF InventoryInv, Lists
<1>2. \A o \in view[c].others : Seen(o).id = o.id /\ Seen(o).kind = o.kind
  BY <1>1, ItemKeeps DEF Listing
<1>3. Viewed(c) = view[c].containers \cup {Seen(o) : o \in view[c].others} \cup view[c].cache
  BY DEF Viewed, Inventory
<1> HIDE DEF Seen
<1>4. ASSUME NEW item \in Viewed(c)
      PROVE  \E o \in view[c].containers \cup view[c].others \cup view[c].cache :
               /\ o.id = item.id /\ o.kind = item.kind
               /\ item = IF o.kind \in {"container", "build-cache"} THEN o ELSE Seen(o)
  BY <1>1, <1>2, <1>3
<1>5. \A o \in view[c].containers \cup view[c].others \cup view[c].cache : o.id \in Ids /\ Genuine(o)
  BY <1>1 DEF Listing
<1>6. ASSUME NEW o \in view[c].containers \cup view[c].others \cup view[c].cache,
             NEW p \in view[c].containers \cup view[c].others \cup view[c].cache, o.id = p.id
      PROVE  o = p
  <2>1. o.kind = p.kind
    BY <1>5, <1>6, GenuineKind
  <2> QED
    BY <1>1, <1>6, <2>1 DEF Listing
<1> QED
  BY <1>4, <1>5, <1>6 DEF Genuine

PlannedTargets(c, obs) ==
  {Target(d) : d \in Removals(BuildPlan(plan[c].cfg, Viewed(c), clock, guard[c], obs))}

\* The targets are finitely many, one for an id, and none is named by an entry of
\* the snapshot.
LEMMA PlannedTargetsAre ==
  ASSUME InventoryInv, NEW c \in Cleaners, pc[c] = "collected", NEW obs
  PROVE  /\ IsFiniteSet(PlannedTargets(c, obs))
         /\ \A s, t \in PlannedTargets(c, obs) : s.id = t.id => s = t
         /\ \A t \in PlannedTargets(c, obs) :
              /\ t.id \in Ids /\ \E p \in ObjectStates : p.id = t.id /\ p.kind = t.kind
              /\ [kind |-> t.kind, value |-> t.id] \notin guard[c]
<1> DEFINE removals  == CacheRemovals(plan[c].cfg.cache, Viewed(c), clock)
           ItemOf(i) == CHOOSE item \in Viewed(c) : item.id = i
           Of(i)     == Decide(plan[c].cfg, ItemOf(i), clock, removals, guard[c], obs)
           targets   == PlannedTargets(c, obs)
<1>1. ASSUME NEW t \in targets
      PROVE  /\ t.id \in Ids /\ t = Target(Of(t.id))
             /\ \E p \in ObjectStates : p.id = t.id /\ p.kind = t.kind
             /\ [kind |-> t.kind, value |-> t.id] \notin guard[c]
  <2>1. PICK d \in BuildPlan(plan[c].cfg, Viewed(c), clock, guard[c], obs) :
               d.action = "remove" /\ t = Target(d)
    BY DEF PlannedTargets, Removals
  <2>2. PICK item \in Viewed(c) : d = Decide(plan[c].cfg, item, clock, removals, guard[c], obs)
    BY DEF BuildPlan
  <2>3. d.resource = item /\ ~Protected(guard[c], item)
    BY <2>1, <2>2, DecideSparesProtected
  <2>4. t.id = item.id /\ t.kind = item.kind
    BY <2>1, <2>3 DEF Target
  <2>5. /\ item.id \in Ids /\ item.kind \in Kinds /\ item = ItemOf(item.id)
        /\ \E p \in ObjectStates : p.id = item.id /\ p.kind = item.kind
    BY ViewedItems
  <2>6. item.kind # "label"
    BY <2>5 DEF Kinds
  <2>7. [kind |-> item.kind, value |-> item.id] \notin guard[c]
    BY <2>3, <2>6 DEF Protected, EntryMatches
  <2> QED
    BY <2>1, <2>2, <2>4, <2>5, <2>7
<1> HIDE DEF targets, Of
<1>2. IsFiniteSet(targets)
  <2> DEFINE ids == {i \in Ids : Target(Of(i)) \in targets}
             f   == [i \in ids |-> Target(Of(i))]
  <2>1. IsFiniteSet(ids)
    BY FS_Subset, ObjectAssumption
  <2>2. f \in [ids -> targets]
    OBVIOUS
  <2>3. ASSUME NEW t \in targets
        PROVE  \E i \in ids : f[i] = t
    <3>1. t.id \in Ids /\ Target(Of(t.id)) = t
      BY <1>1
    <3>2. t.id \in ids
      BY <3>1
    <3>3. f[t.id] = t
      BY <3>1, <3>2
    <3> QED
      BY <3>2, <3>3
  <2>4. f \in Surjection(ids, targets)
    BY <2>2, <2>3 DEF Surjection
  <2> HIDE DEF f, ids
  <2> QED
    BY <2>1, <2>4, FS_Surjection
<1>3. \A s, t \in targets : s.id = t.id => s = t
  <2> SUFFICES ASSUME NEW s \in targets, NEW t \in targets, s.id = t.id
               PROVE  s = t
    OBVIOUS
  <2>1. s = Target(Of(s.id)) /\ t = Target(Of(t.id))
    BY <1>1
  <2> QED
    BY <2>1
<1> QED
  BY <1>1, <1>2, <1>3 DEF targets

-----------------------------------------------------------------------------
(* Every target is accounted for *)

\* The targets of one pass: those in the queue have no outcome yet, the others
\* have one, and a request is for the first of the queue.
Accounts(c) ==
  /\ queue[c] \in Seq(plan[c].targets) /\ OnceEach(queue[c])
  /\ \A t \in plan[c].targets : t.id \in Ids
  /\ DOMAIN plan[c] = {"cfg", "obs", "targets"}
  /\ pc[c] \in {"idle"} \cup Planning => queue[c] = <<>> /\ report[c] = {}
  /\ pc[c] \in Busy => queue[c] # <<>>
  /\ pc[c] = "deleting" =>
       /\ {"kind", "id", "refs"} \subseteq DOMAIN request[c]
       /\ request[c].id = Head(queue[c]).id /\ request[c].kind = Head(queue[c]).kind
  /\ pc[c] \notin {"idle", "failed", "crashed"} \cup Planning =>
       /\ IdsOf(report[c]) \cup IdsOf(ToSet(queue[c])) = IdsOf(plan[c].targets)
       /\ IdsOf(report[c]) \cap IdsOf(ToSet(queue[c])) = {}
  /\ \A o, p \in report[c] : o.id = p.id => o = p

TargetInv ==
  /\ EngineInv
  /\ CleanersDomain
  /\ InventoryInv
  /\ \A r \in stray : r.id \in Ids
  /\ \A c \in Cleaners : Accounts(c)

\* The passes other than c are left alone.
OthersRest(c) ==
  /\ CleanersDomain'
  /\ \A k \in Cleaners \ {c} :
       /\ pc'[k] = pc[k] /\ plan'[k] = plan[k] /\ queue'[k] = queue[k]
       /\ request'[k] = request[k] /\ report'[k] = report[k]

\* At the start no pass has a target.
LEMMA TargetInvInit == Init => TargetInv
<1> SUFFICES ASSUME Init
             PROVE  TargetInv
  OBVIOUS
<1>1. EngineInv
  BY EngineInvInit
<1>2. ASSUME NEW c \in Cleaners
      PROVE  Accounts(c)
  <2>1. queue[c] = <<>> /\ plan[c] = NoPlan /\ report[c] = {} /\ pc[c] = "idle"
    BY DEF Init
  <2>2. OnceEach(<<>>)
    BY DEF OnceEach
  <2> QED
    BY <2>1, <2>2 DEF Accounts, Busy, NoPlan
<1>3. InventoryInv
  BY DEF Init, InventoryInv, Lists, NoView
<1> QED
  BY <1>1, <1>2, <1>3 DEF Init, TargetInv, CleanersDomain

\* A pass's own step is the only one that changes its accounts.
LEMMA TargetInvFrame ==
  ASSUME TargetInv, NEW c \in Cleaners, EngineInv', InventoryInv', OthersRest(c), Accounts(c)',
         \A r \in stray' : r.id \in Ids
  PROVE  TargetInv'
<1>1. ASSUME NEW k \in Cleaners, k # c
      PROVE  Accounts(k)'
  <2>1. /\ pc'[k] = pc[k] /\ plan'[k] = plan[k] /\ queue'[k] = queue[k]
        /\ request'[k] = request[k] /\ report'[k] = report[k] /\ Accounts(k)
    BY <1>1 DEF TargetInv, OthersRest
  <2> QED
    BY <2>1 DEF Accounts, OnceEach, IdsOf
<1> QED
  BY <1>1 DEF TargetInv, OthersRest

\* An outcome adds its id to the report.
LEMMA AddedId ==
  ASSUME NEW S, NEW id, NEW status
  PROVE  IdsOf(S \cup {[id |-> id, status |-> status]}) = IdsOf(S) \cup {id}
<1> DEFINE o == [id |-> id, status |-> status]
<1>1. o.id = id
  OBVIOUS
<1> HIDE DEF o
<1>2. IdsOf(S \cup {o}) = IdsOf(S) \cup {id}
  BY <1>1 DEF IdsOf
<1> QED
  BY <1>2 DEF o

\* An outcome moves the first target from the queue to the report.
LEMMA SettleAccounts ==
  ASSUME TargetInv, NEW c \in Cleaners, pc[c] \in Busy, NEW status, Settle(c, status)
  PROVE  OthersRest(c) /\ Accounts(c)'
<1>1. OthersRest(c)
  BY DEF Settle, OthersRest, TargetInv, CleanersDomain
<1> DEFINE head == Head(queue[c])
           targets == plan[c].targets
<1>2. /\ queue[c] \in Seq(targets) /\ OnceEach(queue[c]) /\ queue[c] # <<>>
      /\ \A t \in targets : t.id \in Ids
      /\ \A o, p \in report[c] : o.id = p.id => o = p
      /\ DOMAIN plan[c] = {"cfg", "obs", "targets"}
      /\ IdsOf(report[c]) \cup IdsOf(ToSet(queue[c])) = IdsOf(targets)
      /\ IdsOf(report[c]) \cap IdsOf(ToSet(queue[c])) = {}
  BY DEF TargetInv, Accounts, Busy, Planning, Surveying
<1>3. /\ queue'[c] = Tail(queue[c]) /\ pc'[c] = "next" /\ plan' = plan
      /\ report'[c] = report[c] \cup {[id |-> head.id, status |-> status]}
  BY DEF Settle, TargetInv, CleanersDomain
<1>4. /\ Tail(queue[c]) \in Seq(targets)
      /\ OnceEach(Tail(queue[c]))
      /\ IdsOf(ToSet(Tail(queue[c]))) = IdsOf(ToSet(queue[c])) \ {head.id}
      /\ head.id \in IdsOf(ToSet(queue[c]))
  BY <1>2, TailLosesHead
<1>5. IdsOf(report'[c]) = IdsOf(report[c]) \cup {head.id}
  <2>1. IdsOf(report[c] \cup {[id |-> head.id, status |-> status]}) = IdsOf(report[c]) \cup {head.id}
    BY AddedId
  <2> QED
    BY <1>3, <2>1
<1>6. \A o, p \in report'[c] : o.id = p.id => o = p
  <2>1. \A o \in report[c] : o.id # head.id
    BY <1>2, <1>4 DEF IdsOf
  <2> QED
    BY <1>2, <1>3, <2>1
<1> HIDE DEF head, targets
<1>7. /\ IdsOf(report'[c]) \cup IdsOf(ToSet(queue'[c])) = IdsOf(targets)
      /\ IdsOf(report'[c]) \cap IdsOf(ToSet(queue'[c])) = {}
  <2>1. IdsOf(ToSet(queue'[c])) = IdsOf(ToSet(queue[c])) \ {head.id}
    BY <1>3, <1>4
  <2> QED
    BY <1>2, <1>4, <1>5, <2>1
<1> QED
  BY <1>1, <1>2, <1>3, <1>4, <1>6, <1>7 DEF Accounts, Busy, Planning, Surveying, targets

\* A request is sent for the id of the first target.
LEMMA SentIs ==
  ASSUME TargetInv, NEW c \in Cleaners, pc[c] = "deleting", NEW r \in Sent(c)
  PROVE  /\ r.by = c /\ r.id = request[c].id /\ r.kind = request[c].kind
         /\ r.ref \in request[c].refs
         /\ r.id \in Ids /\ r.id = Head(queue[c]).id
<1>1. /\ request[c].id = Head(queue[c]).id
      /\ queue[c] \in Seq(plan[c].targets) /\ queue[c] # <<>>
      /\ \A t \in plan[c].targets : t.id \in Ids
  BY DEF TargetInv, Accounts, Busy
<1>2. Head(queue[c]) \in plan[c].targets
  BY <1>1, HeadTailProperties
<1> QED
  BY <1>1, <1>2 DEF Sent, FirstRefs

\* A plan is made of fresh targets, all of them queued.
LEMMA PrepareAccounts ==
  ASSUME TargetInv, NEW c \in Cleaners, Prepare(c)
  PROVE  /\ OthersRest(c) /\ Accounts(c)'
         /\ \E obs : plan'[c].targets = PlannedTargets(c, obs)
<1>1. PICK history \in Histories :
        LET obs == Folded(history, Viewed(c), clock)
        IN  /\ plan' = [plan EXCEPT ![c].obs = obs, ![c].targets = PlannedTargets(c, obs)]
            /\ \E order \in Orders(PlannedTargets(c, obs), Viewed(c)) :
                 queue' = [queue EXCEPT ![c] = order]
  BY DEF Prepare, PlannedTargets
<1> DEFINE obs     == Folded(history, Viewed(c), clock)
           targets == PlannedTargets(c, obs)
<1>2. PICK order \in Orders(targets, Viewed(c)) : queue' = [queue EXCEPT ![c] = order]
  BY <1>1
<1>3. /\ plan'[c].targets = targets /\ DOMAIN plan'[c] = DOMAIN plan[c]
      /\ DOMAIN plan' = Cleaners /\ \A k \in Cleaners \ {c} : plan'[k] = plan[k]
  <2>1. plan' = [plan EXCEPT ![c] = [[plan[c] EXCEPT !.obs = obs] EXCEPT !.targets = targets]]
    BY <1>1 DEF TargetInv, CleanersDomain
  <2>2. "targets" \in DOMAIN plan[c]
    BY DEF TargetInv, Accounts
  <2> HIDE DEF obs, targets
  <2> QED
    BY <2>1, <2>2 DEF TargetInv, CleanersDomain
<1>4. pc[c] = "collected"
  BY DEF Prepare
<1>5. /\ IsFiniteSet(targets)
      /\ \A s, t \in targets : s.id = t.id => s = t
      /\ \A t \in targets : t.id \in Ids
  BY <1>4, PlannedTargetsAre DEF TargetInv
<1>6. \E o : plan'[c].targets = PlannedTargets(c, o)
  BY <1>3
<1> HIDE DEF obs, targets
<1>7. order \in Seq(targets) /\ ToSet(order) = targets /\ OnceEach(order)
  BY <1>5, OrderListsTargets
<1>8. queue'[c] = order /\ pc'[c] = "next" /\ report'[c] = {} /\ OthersRest(c)
  BY <1>2, <1>3, <1>4 DEF Prepare, TargetInv, CleanersDomain, Accounts, OthersRest, Planning, Surveying
<1>9. IdsOf({}) = {}
  BY DEF IdsOf
<1> QED
  BY <1>3, <1>5, <1>6, <1>7, <1>8, <1>9 DEF TargetInv, Accounts, Busy, Planning, Surveying

\* Before the plan is made there is nothing to account for.
LEMMA PlanningAccounts ==
  ASSUME TargetInv, NEW c \in Cleaners, LoadConfig(c) \/ ReadProtection(c) \/ PlanningFails(c)
  PROVE  /\ OthersRest(c) /\ Accounts(c)'
         /\ UNCHANGED <<queue, request, report>> /\ queue[c] = <<>>
         /\ pc[c] \in {"idle", "loaded", "snapped", "surveyed"}
         /\ pc'[c] \in {"loaded", "snapped", "failed"}
         /\ plan'[c].targets = plan[c].targets \/ plan'[c].targets = {}
<1>1. /\ UNCHANGED <<queue, request, report>>
      /\ pc[c] \in {"idle", "loaded", "snapped", "surveyed"}
      /\ pc'[c] \in {"loaded", "snapped", "failed"}
  BY DEF LoadConfig, ReadProtection, PlanningFails, TargetInv, CleanersDomain
<1>2. queue[c] = <<>> /\ report[c] = {} /\ DOMAIN plan[c] = {"cfg", "obs", "targets"}
  BY <1>1 DEF TargetInv, Accounts, Planning, Surveying
<1>3. OthersRest(c)
  BY DEF LoadConfig, ReadProtection, PlanningFails, TargetInv, CleanersDomain, OthersRest
<1>4. /\ DOMAIN plan'[c] = {"cfg", "obs", "targets"}
      /\ plan'[c].targets = plan[c].targets \/ plan'[c].targets = {}
  BY <1>2 DEF LoadConfig, ReadProtection, PlanningFails, TargetInv, CleanersDomain, NoPlan
<1>5. OnceEach(<<>>)
  BY DEF OnceEach
<1>6. \A t \in plan'[c].targets : t.id \in Ids
  BY <1>4 DEF TargetInv, Accounts
<1> QED
  BY <1>1, <1>2, <1>3, <1>4, <1>5, <1>6 DEF Accounts, Busy, Planning, Surveying

\* A step that only moves pc, on one side of the plan, keeps the accounts.
LEMMA MoveAccounts ==
  ASSUME TargetInv, NEW c \in Cleaners, NEW target,
         pc' = [pc EXCEPT ![c] = target],
         UNCHANGED <<plan, queue, request, report>>,
         target \notin {"idle", "failed", "crashed", "deleting"},
         pc[c] \notin {"idle", "failed", "crashed"},
         target \in Planning <=> pc[c] \in Planning,
         DOMAIN view' = Cleaners,
         target \in Busy => queue[c] # <<>>
  PROVE  OthersRest(c) /\ Accounts(c)'
  BY DEF TargetInv, CleanersDomain, OthersRest, Accounts

\* Every step keeps TargetInv.
LEMMA TargetInvStep == TargetInv /\ [Next]_vars => TargetInv'
<1> SUFFICES ASSUME TargetInv, [Next]_vars
             PROVE  TargetInv'
  OBVIOUS
<1>0. InventoryInv' /\ DOMAIN view' = Cleaners
  BY InventoryInvStep DEF TargetInv
<1>1. ASSUME UNCHANGED <<cleanerVars, stray>>, EngineInv'
      PROVE  TargetInv'
  BY <1>0, <1>1 DEF cleanerVars, TargetInv, CleanersDomain, Accounts
<1>2. ASSUME UNCHANGED docker
      PROVE  EngineInv'
  BY <1>2 DEF TargetInv, EngineInv, TagsUnique
<1>3. CASE EditProtection \/ Tick \/ EditConfig \/ UNCHANGED vars
  BY <1>1, <1>2, <1>3 DEF EditProtection, Tick, EditConfig, vars, engineVars, historyVars
<1>4. CASE EngineChanges
  BY <1>1, <1>4, EngineInvChange DEF EngineChanges, TargetInv, historyVars
<1>5. CASE StrayTakesEffect
  <2>1. PICK r \in stray : \E reply \in Effects(r) : docker' = reply.docker /\ stray' = stray \ {r}
    BY <1>5 DEF StrayTakesEffect
  <2>2. EngineInv'
    BY <2>1, EffectsShrink, ShrunkKeepsEngine DEF TargetInv
  <2> QED
    BY <1>0, <1>5, <2>1, <2>2 DEF StrayTakesEffect, cleanerVars, TargetInv, CleanersDomain, Accounts
<1>6. ASSUME NEW c \in Cleaners, PlanStep(c) \/ CleanerStep(c) \/ Crash(c)
      PROVE  TargetInv'
  <2>1. ASSUME UNCHANGED <<docker, stray>>, OthersRest(c), Accounts(c)'
        PROVE  TargetInv'
    BY <1>0, <1>2, <2>1, TargetInvFrame DEF TargetInv
  <2>2. CASE PlanStep(c)
    BY <2>1, <2>2, PrepareAccounts, PlanningAccounts
    DEF PlanStep, LoadConfig, ReadProtection, Prepare, PlanningFails, engineVars, historyVars
  <2>3. CASE LockTarget(c) \/ FinishPass(c) \/ InspectContainers(c) \/ ReadBuildCache(c)
    <3>1. UNCHANGED <<docker, stray, plan, queue, request, report>>
      BY <2>3 DEF LockTarget, FinishPass, InspectContainers, ReadBuildCache, engineVars, historyVars
    <3>2. \E target \in {"guarded", "done", "surveyed", "inspected", "collected", "listed"} :
             /\ pc' = [pc EXCEPT ![c] = target]
             /\ target \in Busy => queue[c] # <<>>
             /\ target \in Planning <=> pc[c] \in Planning
      BY <2>3 DEF LockTarget, FinishPass, InspectContainers, ReadBuildCache, TargetInv, Accounts,
                  Busy, Planning, Surveying
    <3>3. pc[c] \notin {"idle", "failed", "crashed"}
      BY <2>3 DEF LockTarget, FinishPass, InspectContainers, ReadBuildCache
    <3> QED
      BY <1>0, <2>1, <3>1, <3>2, <3>3, MoveAccounts
  <2>4. CASE AbortPass(c)
    <3>1. /\ pc'[c] = "failed" /\ report'[c] = {} /\ OthersRest(c)
          /\ UNCHANGED <<docker, stray, plan, queue, request>>
      BY <2>4 DEF AbortPass, TargetInv, CleanersDomain, OthersRest, engineVars, historyVars
    <3> QED
      BY <2>1, <3>1 DEF TargetInv, Accounts, Busy, Planning, Surveying
  <2>5. CASE ListContainers(c) \/ ListOthers(c)
    <3>1. OthersRest(c) /\ Accounts(c)' /\ UNCHANGED <<docker, stray>>
      BY <1>0, <2>5 DEF ListContainers, ListOthers, OthersRest, TargetInv, CleanersDomain, Accounts,
                        engineVars, historyVars
    <3> QED
      BY <2>1, <3>1
  <2>6. ASSUME NEW status, Settle(c, status), pc[c] \in Busy, EngineInv', \A r \in stray' : r.id \in Ids
        PROVE  TargetInv'
    BY <1>0, <2>6, SettleAccounts, TargetInvFrame
  <2>7. CASE ReloadConfig(c)
    <3>1. CASE Settle(c, "skipped")
      BY <1>2, <2>6, <2>7, <3>1 DEF ReloadConfig, Busy, engineVars, historyVars, TargetInv
    <3>2. CASE ~Settle(c, "skipped")
      BY <1>0, <2>1, <2>7, <3>2, MoveAccounts
      DEF ReloadConfig, Busy, Planning, Surveying, engineVars, historyVars, TargetInv, Accounts
    <3> QED
      BY <3>1, <3>2
  <2>8. CASE InventoryFails(c)
    BY <1>2, <2>6, <2>8 DEF InventoryFails, Busy, engineVars, historyVars, TargetInv
  <2>9. CASE Revalidate(c)
    <3>1. CASE Settle(c, "skipped")
      BY <1>2, <2>6, <2>9, <3>1 DEF Revalidate, Busy, engineVars, historyVars, TargetInv
    <3>2. ASSUME NEW d \in Revalidated(c),
                 request' = [request EXCEPT ![c] = DeleteRequest(c, d.resource)],
                 pc' = [pc EXCEPT ![c] = "deleting"], UNCHANGED <<plan, queue, report>>
          PROVE  TargetInv'
      <4>1. d.resource.kind = Head(queue[c]).kind /\ d.resource.id = Head(queue[c]).id
        BY DEF Revalidated, StillAuthorized
      <4>2. /\ OthersRest(c) /\ pc'[c] = "deleting"
            /\ request'[c] = DeleteRequest(c, d.resource)
        BY <1>0, <3>2 DEF TargetInv, CleanersDomain, OthersRest
      <4>3. /\ {"kind", "id", "refs"} \subseteq DOMAIN request'[c]
            /\ request'[c].id = Head(queue[c]).id /\ request'[c].kind = Head(queue[c]).kind
        BY <4>1, <4>2 DEF DeleteRequest
      <4>4. pc[c] = "listed" /\ queue[c] # <<>>
        BY <2>9 DEF Revalidate, TargetInv, Accounts, Busy
      <4>5. Accounts(c)'
        BY <3>2, <4>2, <4>3, <4>4 DEF TargetInv, Accounts, Planning, Surveying
      <4> QED
        BY <2>1, <2>9, <4>2, <4>5 DEF Revalidate, engineVars, historyVars
    <3> QED
      BY <2>9, <3>1, <3>2 DEF Revalidate
  <2>10. CASE EngineAnswers(c)
    <3>1. PICK r \in Sent(c) : \E reply \in Effects(r) :
            /\ docker' = reply.docker
            /\ \/ /\ request' = [request EXCEPT ![c].refs = @ \ {r.ref}]
                  /\ UNCHANGED <<pc, plan, queue, report>>
               \/ Settle(c, StatusOf(reply.answer))
      BY <2>10 DEF EngineAnswers
    <3>2. pc[c] = "deleting" /\ stray' = stray
      BY <2>10 DEF EngineAnswers
    <3>3. EngineInv'
      BY <3>1, <3>2, SentIs, EffectsShrink, ShrunkKeepsEngine DEF TargetInv
    <3>4. ASSUME request' = [request EXCEPT ![c].refs = @ \ {r.ref}],
                 UNCHANGED <<pc, plan, queue, report>>
          PROVE  TargetInv'
      <4>1. /\ {"kind", "id", "refs"} \subseteq DOMAIN request'[c]
            /\ request'[c].kind = request[c].kind /\ request'[c].id = request[c].id
            /\ OthersRest(c)
        BY <1>0, <3>2, <3>4 DEF TargetInv, CleanersDomain, Accounts, OthersRest
      <4> QED
        BY <1>0, <3>2, <3>3, <3>4, <4>1, TargetInvFrame DEF TargetInv, Accounts
    <3> QED
      BY <2>6, <3>1, <3>2, <3>3, <3>4 DEF TargetInv, Busy
  <2>11. ASSUME NEW r \in Sent(c), pc[c] = "deleting", stray' = stray \cup {r}
         PROVE  \A s \in stray' : s.id \in Ids
    BY <2>11, SentIs DEF TargetInv
  <2>12. CASE LoseAnswer(c)
    BY <1>2, <2>6, <2>11, <2>12 DEF LoseAnswer, Busy, engineVars
  <2>13. CASE Crash(c)
    <3>1. /\ pc'[c] = "crashed" /\ queue'[c] = <<>> /\ report'[c] = {} /\ plan' = plan
          /\ OthersRest(c) /\ UNCHANGED docker
      BY <2>13 DEF Crash, TargetInv, CleanersDomain, OthersRest, engineVars
    <3>2. \A s \in stray' : s.id \in Ids
      BY <2>11, <2>13 DEF Crash, TargetInv
    <3>3. Accounts(c)'
      BY <3>1 DEF TargetInv, Accounts, OnceEach, Busy, Planning, Surveying
    <3> QED
      BY <1>0, <1>2, <3>1, <3>2, <3>3, TargetInvFrame
  <2> QED
    BY <1>6, <2>2, <2>3, <2>4, <2>5, <2>7, <2>8, <2>9, <2>10, <2>12, <2>13 DEF CleanerStep
<1> QED
  BY <1>3, <1>4, <1>5, <1>6 DEF Next

\* One failing target neither aborts a pass nor makes it forget another: in
\* every state of every pass a planned target is waiting or has one outcome.
THEOREM TargetsAlwaysAccounted == Spec => []TargetsAccounted
<1>1. TargetInv => TargetsAccounted
  BY DEF TargetInv, Accounts, TargetsAccounted
<1> QED
  BY <1>1, TargetInvInit, TargetInvStep, PTL DEF Spec

-----------------------------------------------------------------------------
(* What is reported as removed has been removed *)

\* Nobody but the cleaners changes the names of images.
NoRetagging == \A o \in Objects : o.kind # "image"

IsImage(i) == docker[i] # None /\ docker[i].kind = "image"

\* No image appears and none gets a name.
ImagesShrink ==
  \A i \in Ids : IsImage(i)' => IsImage(i) /\ docker'[i].names \subseteq docker[i].names

\* Without retagging, only requests change images, and they take names away.
LEMMA StepShrinksImages ==
  ASSUME TargetInv, [Next]_vars, NoRetagging
  PROVE  ImagesShrink
<1>1. ASSUME UNCHANGED docker
      PROVE  ImagesShrink
  BY <1>1 DEF ImagesShrink, IsImage
<1>2. ASSUME NEW r, r.id \in Ids, NEW reply \in Effects(r), docker' = reply.docker
      PROVE  ImagesShrink
  <2>1. Shrunk(docker')
    BY <1>2, EffectsShrink DEF TargetInv
  <2>2. ASSUME NEW i \in Ids, IsImage(i)'
        PROVE  IsImage(i) /\ docker'[i].names \subseteq docker[i].names
    <3>1. CASE docker'[i] = docker[i]
      BY <2>2, <3>1 DEF IsImage
    <3>2. ASSUME docker[i] # None, docker[i].kind = "image",
                 NEW t, docker'[i] = [docker[i] EXCEPT !.names = @ \ {t}]
          PROVE  IsImage(i) /\ docker'[i].names \subseteq docker[i].names
      <4>1. "names" \in DOMAIN docker[i]
        BY <3>2 DEF TargetInv, EngineInv, Genuine
      <4>2. docker'[i].names = docker[i].names \ {t}
        BY <3>2, <4>1
      <4> QED
        BY <3>2, <4>2 DEF IsImage
    <3> QED
      BY <2>1, <2>2, <3>1, <3>2 DEF Shrunk, IsImage
  <2> QED
    BY <2>2 DEF ImagesShrink
<1>3. CASE EngineChanges
  <2>1. ASSUME NEW o \in Objects, docker' = [docker EXCEPT ![o.id] = o]
        PROVE  ImagesShrink
    BY <2>1, StatesGenuine DEF ImagesShrink, IsImage, NoRetagging, TargetInv, EngineInv
  <2>2. ASSUME NEW i \in Ids, docker' = Gone(i)
        PROVE  ImagesShrink
    BY <2>2 DEF ImagesShrink, IsImage, Gone, TargetInv, EngineInv
  <2> QED
    BY <1>3, <2>1, <2>2 DEF EngineChanges
<1>4. CASE StrayTakesEffect
  BY <1>2, <1>4 DEF StrayTakesEffect, TargetInv
<1>5. ASSUME NEW c \in Cleaners, EngineAnswers(c)
      PROVE  ImagesShrink
  <2>1. PICK r \in Sent(c) : \E reply \in Effects(r) : docker' = reply.docker
    BY <1>5 DEF EngineAnswers
  <2>2. r.id \in Ids
    BY <1>5, SentIs DEF EngineAnswers
  <2> QED
    BY <1>2, <2>1, <2>2
<1>6. CASE UNCHANGED vars \/ EditProtection \/ Tick \/ EditConfig
  BY <1>1, <1>6 DEF vars, EditProtection, Tick, EditConfig, engineVars
<1>7. ASSUME NEW c \in Cleaners, PlanStep(c) \/ CleanerStep(c) \/ Crash(c), ~EngineAnswers(c)
      PROVE  ImagesShrink
  BY <1>1, <1>7
  DEF PlanStep, LoadConfig, ReadProtection, Prepare, PlanningFails, CleanerStep, Crash, LockTarget, AbortPass, FinishPass, ReloadConfig,
      ListContainers, ListOthers, InspectContainers, ReadBuildCache, InventoryFails,
      Revalidate, LoseAnswer, engineVars
<1> QED
  BY <1>3, <1>4, <1>5, <1>6, <1>7 DEF Next

\* The image with that id has at most these names and its id, and no other image
\* has one of them.
NamesBelong(id, names) ==
  \A i \in Ids : IsImage(i) =>
    IF i = id THEN docker[i].names \subseteq names \cup {id}
    ELSE docker[i].names \cap names = {}

\* That does not change while images only lose names.
LEMMA NamesStillBelong ==
  ASSUME ImagesShrink, NEW id, NEW names, NamesBelong(id, names)
  PROVE  NamesBelong(id, names)'
  BY DEF ImagesShrink, NamesBelong, IsImage

\* The images a cleaner has listed still have no more names than they had.
Seen(c) ==
  view[c].others # None \/ pc[c] \in {"surveyed", "inspected", "collected", "listed"} =>
    \A o \in view[c].others : Genuine(o) /\ (o.kind = "image" => NamesBelong(o.id, o.names))

\* The names an image is removed by are the ones it has.
Named(c) ==
  pc[c] = "deleting" /\ request[c].kind = "image" => NamesBelong(request[c].id, request[c].refs)

\* A pass tells the truth.
Truthful(c) ==
  \A o \in report[c] : o.status = "removed" => [by |-> c, id |-> o.id] \in removed

ReportInv ==
  /\ TargetInv
  /\ \A c \in Cleaners : Seen(c) /\ Named(c) /\ Truthful(c)

\* At the start nothing is listed, requested or reported.
LEMMA ReportInvInit == Init => ReportInv
<1> SUFFICES ASSUME Init
             PROVE  ReportInv
  OBVIOUS
<1>1. TargetInv
  BY TargetInvInit
<1> QED
  BY <1>1 DEF Init, ReportInv, Seen, Named, Truthful, NoView

\* A step of one cleaner disturbs neither the lists nor the report of another.
LEMMA ReportInvFrame ==
  ASSUME ReportInv, TargetInv', ImagesShrink, removed \subseteq removed',
         NEW c \in Cleaners, OthersRest(c),
         \A k \in Cleaners \ {c} : view'[k] = view[k],
         Seen(c)', Named(c)', Truthful(c)'
  PROVE  ReportInv'
<1>1. ASSUME NEW k \in Cleaners, k # c
      PROVE  Seen(k)' /\ Named(k)' /\ Truthful(k)'
  <2>1. /\ view'[k] = view[k] /\ pc'[k] = pc[k] /\ request'[k] = request[k]
        /\ report'[k] = report[k]
    BY <1>1 DEF OthersRest
  <2>2. Seen(k)'
    BY <2>1, NamesStillBelong DEF ReportInv, Seen
  <2>3. Named(k)'
    BY <2>1, NamesStillBelong DEF ReportInv, Named
  <2>4. Truthful(k)'
    BY <2>1 DEF ReportInv, Truthful
  <2> QED
    BY <2>2, <2>3, <2>4
<1> QED
  BY <1>1 DEF ReportInv

\* An outcome other than "removed" claims nothing, and the lists are forgotten.
LEMMA SettleReports ==
  ASSUME ReportInv, NEW c \in Cleaners, NEW status, Settle(c, status),
         removed \subseteq removed',
         status = "removed" => [by |-> c, id |-> Head(queue[c]).id] \in removed'
  PROVE  /\ \A k \in Cleaners \ {c} : view'[k] = view[k]
         /\ Seen(c)' /\ Named(c)' /\ Truthful(c)'
<1>1. /\ \A k \in Cleaners \ {c} : view'[k] = view[k]
      /\ view'[c] = NoView /\ pc'[c] = "next"
      /\ report'[c] = report[c] \cup {[id |-> Head(queue[c]).id, status |-> status]}
  BY DEF Settle, ReportInv, TargetInv, CleanersDomain
<1>2. Truthful(c)'
  BY <1>1 DEF ReportInv, Truthful
<1> QED
  BY <1>1, <1>2 DEF Seen, Named, NoView

\* The images an engine lists have their names to themselves.
LEMMA ListedAre ==
  ASSUME EngineInv
  PROVE  \A o \in OthersIn(Present) : Genuine(o) /\ (o.kind = "image" => NamesBelong(o.id, o.names))
<1>1. \A o \in Present : o.id \in Ids /\ docker[o.id] = o /\ o # None /\ Genuine(o)
  BY DEF Present, EngineInv
<1>2. ASSUME NEW o \in Present, o.kind = "image"
      PROVE  NamesBelong(o.id, o.names)
  BY <1>1, <1>2 DEF EngineInv, TagsUnique, NamesBelong, IsImage
<1> QED
  BY <1>1, <1>2 DEF OthersIn

\* A request for an image is made from an image the cleaner has listed.
LEMMA RequestSource ==
  ASSUME ReportInv, NEW c \in Cleaners, pc[c] = "listed",
         NEW d \in Revalidated(c), d.resource.kind = "image"
  PROVE  \E o \in view[c].others :
           /\ Genuine(o) /\ o.kind = "image" /\ NamesBelong(o.id, o.names)
           /\ d.resource.id = o.id
           /\ ImageRefs(d.resource) = IF o.names \ {o.id} = {} THEN {o.id} ELSE o.names \ {o.id}
<1> DEFINE inventory == Viewed(c)
           decisions == BuildPlan(plan[c].cfg, inventory, clock, guard[c], plan[c].obs)
           item      == d.resource
<1>1. d \in decisions /\ d.action = "remove"
  BY DEF Revalidated, StillAuthorized
<1>2. PICK i \in inventory :
        d = Decide(plan[c].cfg, i, clock, CacheRemovals(plan[c].cfg.cache, inventory, clock),
                   guard[c], plan[c].obs)
  BY <1>1 DEF BuildPlan
<1>3. item \in inventory
  BY <1>1, <1>2, DecideSparesProtected
<1>4. PICK o \in view[c].others : item = Item(o, view[c].listed)
  BY <1>3 DEF Viewed, Inventory, ReportInv, TargetInv, InventoryInv, Lists
<1>5. Genuine(o) /\ (o.kind = "image" => NamesBelong(o.id, o.names))
  BY DEF ReportInv, Seen
<1>6. item.id = o.id /\ item.names = o.names /\ o.kind = "image"
  BY <1>4, <1>5, ItemKeeps
<1> QED
  BY <1>5, <1>6 DEF ImageRefs

\* The names that are sent for an image are its own.
LEMMA RequestNames ==
  ASSUME ReportInv, NEW c \in Cleaners, pc[c] = "listed",
         NEW d \in Revalidated(c), d.resource.kind = "image"
  PROVE  NamesBelong(d.resource.id, ImageRefs(d.resource))
<1>1. PICK o \in view[c].others :
        /\ Genuine(o) /\ o.kind = "image" /\ NamesBelong(o.id, o.names)
        /\ d.resource.id = o.id
        /\ ImageRefs(d.resource) = IF o.names \ {o.id} = {} THEN {o.id} ELSE o.names \ {o.id}
  BY RequestSource
<1>2. o.id \in o.names
  BY <1>1 DEF Genuine
<1>3. ASSUME NEW refs, refs = IF o.names \ {o.id} = {} THEN {o.id} ELSE o.names \ {o.id}
      PROVE  NamesBelong(o.id, refs)
  BY <1>1, <1>2, <1>3 DEF NamesBelong
<1> QED
  BY <1>1, <1>3

\* A success removes the very object that was asked for, or takes one of several
\* names from it.
LEMMA SuccessRemoves ==
  ASSUME ReportInv, NEW c \in Cleaners, pc[c] = "deleting", NEW r \in Sent(c),
         NEW reply \in Effects(r), reply.answer = "removed"
  PROVE  /\ docker[r.id] # None
         /\ \/ reply.docker = Gone(r.id)
            \/ /\ r.kind = "image" /\ request[c].refs # {r.ref}
               /\ reply.docker = [docker EXCEPT ![r.id].names = @ \ {r.ref}]
<1>1. \A answer, contents : /\ Reply(answer, contents).answer = answer
                            /\ Reply(answer, contents).docker = contents
  BY DEF Reply
<1>2. reply = RemoveContainer(r) => docker[r.id] # None /\ reply.docker = Gone(r.id)
  BY <1>1 DEF RemoveContainer
<1>3. reply = RemoveUnused(r) => docker[r.id] # None /\ reply.docker = Gone(r.id)
  BY <1>1 DEF RemoveUnused
<1>4. reply = PruneRecord(r) => docker[r.id] # None /\ reply.docker = Gone(r.id)
  <2>1. \/ docker[r.id] = None /\ PruneRecord(r) = Reply("pruned nothing", docker)
        \/ docker[r.id] # None /\ PruneRecord(r) = Reply("pruned nothing", docker)
        \/ docker[r.id] # None /\ PruneRecord(r) = Reply("removed", Gone(r.id))
    BY Zenon DEF PruneRecord
  <2>2. Reply("pruned nothing", docker).answer # "removed"
    BY <1>1
  <2>3. Reply("removed", Gone(r.id)).docker = Gone(r.id)
    BY <1>1
  <2> QED
    BY <2>1, <2>2, <2>3
<1>5. reply \notin PruneTooMuch(r) /\ reply # Reply("error", docker)
  <2>1. \A contents : Reply("unexpected", contents) # reply /\ Reply("error", contents) # reply
    BY <1>1
  <2> QED
    BY <2>1 DEF PruneTooMuch
<1>6. ASSUME reply = RemoveImageName(r), r.kind = "image"
      PROVE  /\ docker[r.id] # None
             /\ \/ reply.docker = Gone(r.id)
                \/ /\ request[c].refs # {r.ref}
                   /\ reply.docker = [docker EXCEPT ![r.id].names = @ \ {r.ref}]
  <2> DEFINE owners == {o \in Present : o.kind = "image" /\ r.ref \in o.names}
             image  == CHOOSE o \in owners : TRUE
             tags   == image.names \ {image.id}
  <2>1. owners # {}
    BY <1>1, <1>6 DEF RemoveImageName
  <2>2. image \in Present /\ image.kind = "image" /\ r.ref \in image.names
    BY <2>1
  <2>3. image.id \in Ids /\ docker[image.id] = image /\ image # None
    BY <2>2 DEF Present, ReportInv, TargetInv, EngineInv
  <2>4. /\ NamesBelong(r.id, request[c].refs) /\ r.ref \in request[c].refs
    BY <1>6, SentIs DEF ReportInv, Named
  <2>5. image.id = r.id /\ image.names \subseteq request[c].refs \cup {r.id}
    BY <2>2, <2>3, <2>4 DEF NamesBelong, IsImage
  <2>6. CASE r.ref \in tags /\ tags # {r.ref}
    <3> DEFINE contents == [docker EXCEPT ![image.id].names = @ \ {r.ref}]
    <3>1. RemoveImageName(r) = Reply("removed", contents)
      BY Zenon, <2>1, <2>6 DEF RemoveImageName
    <3> HIDE DEF contents, image
    <3>2. reply.docker = contents
      BY <1>1, <1>6, <3>1
    <3>3. reply.docker = [docker EXCEPT ![r.id].names = @ \ {r.ref}]
      BY <2>5, <3>2 DEF contents
    <3>4. request[c].refs # {r.ref}
      BY <2>5, <2>6
    <3> QED
      BY <2>3, <2>5, <3>3, <3>4
  <2>7. CASE ~(r.ref \in tags /\ tags # {r.ref})
    <3>1. reply.docker = Gone(image.id)
      BY <1>1, <1>6, <2>1, <2>7 DEF RemoveImageName
    <3> QED
      BY <2>3, <2>5, <3>1
  <2> QED
    BY <2>6, <2>7
<1>7. CASE r.kind = "container"
  BY <1>2, <1>5, <1>7 DEF Effects
<1>8. CASE r.kind = "image"
  BY <1>5, <1>6, <1>8 DEF Effects
<1>9. CASE r.kind = "build-cache"
  BY <1>4, <1>5, <1>9 DEF Effects
<1>10. CASE r.kind \notin {"container", "image", "build-cache"}
  BY <1>3, <1>5, <1>10 DEF Effects
<1> QED
  BY <1>7, <1>8, <1>9, <1>10

\* Every step keeps ReportInv while nobody else changes the names of images.
LEMMA ReportInvStep ==
  ASSUME NoRetagging
  PROVE  ReportInv /\ [Next]_vars => ReportInv'
<1> SUFFICES ASSUME ReportInv, [Next]_vars
             PROVE  ReportInv'
  OBVIOUS
<1>1. TargetInv' /\ ImagesShrink
  BY TargetInvStep, StepShrinksImages DEF ReportInv
<1>2. ASSUME UNCHANGED cleanerVars, removed \subseteq removed'
      PROVE  ReportInv'
  BY <1>1, <1>2, NamesStillBelong DEF cleanerVars, ReportInv, Seen, Named, Truthful
<1>3. CASE EditProtection \/ EngineChanges \/ Tick \/ EditConfig \/ UNCHANGED vars
  BY <1>2, <1>3 DEF EditProtection, EngineChanges, Tick, EditConfig, vars, historyVars
<1>4. CASE StrayTakesEffect
  BY <1>2, <1>4 DEF StrayTakesEffect
<1>5. ASSUME NEW c \in Cleaners, PlanStep(c) \/ CleanerStep(c) \/ Crash(c)
      PROVE  ReportInv'
  <2>1. ASSUME removed \subseteq removed', OthersRest(c),
               \A k \in Cleaners \ {c} : view'[k] = view[k],
               Seen(c)', Named(c)', Truthful(c)'
        PROVE  ReportInv'
    BY <1>1, <2>1, ReportInvFrame
  <2>2. ASSUME NEW status, Settle(c, status), pc[c] \in Busy, removed \subseteq removed',
               status = "removed" => [by |-> c, id |-> Head(queue[c]).id] \in removed'
        PROVE  ReportInv'
    <3>1. OthersRest(c)
      BY <2>2, SettleAccounts DEF ReportInv
    <3> QED
      BY <2>1, <2>2, <3>1, SettleReports
  <2>3. ASSUME NEW target, pc' = [pc EXCEPT ![c] = target], OthersRest(c),
               target \notin {"surveyed", "inspected", "collected", "listed", "deleting"},
               view'[c] = view[c] \/ view'[c] = NoView,
               pc[c] \notin {"surveyed", "inspected", "collected", "listed"} \/ view'[c] = NoView,
               \A k \in Cleaners \ {c} : view'[k] = view[k],
               report'[c] = report[c] \/ report'[c] = {},
               removed' = removed
        PROVE  ReportInv'
    <3>1. pc'[c] = target
      BY <2>3 DEF ReportInv, TargetInv, CleanersDomain
    <3>2. Seen(c)'
      BY <1>1, <2>3, <3>1, NamesStillBelong DEF ReportInv, Seen, NoView
    <3>3. Named(c)' /\ Truthful(c)'
      BY <2>3, <3>1 DEF ReportInv, Named, Truthful
    <3> QED
      BY <2>1, <2>3, <3>2, <3>3
  <2>4. CASE PlanStep(c)
    <3>1. OthersRest(c)
      BY <2>4, PrepareAccounts, PlanningAccounts DEF PlanStep, ReportInv
    <3>2. /\ \E target \in {"loaded", "snapped", "next", "failed"} : pc' = [pc EXCEPT ![c] = target]
          /\ \A k \in Cleaners \ {c} : view'[k] = view[k]
          /\ view'[c] = NoView \/ (view'[c] = view[c] /\ pc[c] \in {"idle", "loaded"})
          /\ UNCHANGED <<report, removed>>
      BY <2>4 DEF PlanStep, LoadConfig, ReadProtection, Prepare, PlanningFails, historyVars,
                  ReportInv, TargetInv, CleanersDomain
    <3> QED
      BY <2>3, <3>1, <3>2
  <2>5. CASE LockTarget(c) \/ FinishPass(c) \/ AbortPass(c)
    <3>1. OthersRest(c)
      BY <2>5 DEF LockTarget, FinishPass, AbortPass, OthersRest, ReportInv, TargetInv, CleanersDomain
    <3>2. \E target \in {"guarded", "done", "failed"} : pc' = [pc EXCEPT ![c] = target]
      BY <2>5 DEF LockTarget, FinishPass, AbortPass
    <3>3. pc[c] = "next" /\ view' = view /\ removed' = removed
      BY <2>5 DEF LockTarget, FinishPass, AbortPass, historyVars
    <3>4. report'[c] = report[c] \/ report'[c] = {}
      BY <2>5 DEF LockTarget, FinishPass, AbortPass, ReportInv, TargetInv, CleanersDomain
    <3> QED
      BY <2>3, <3>1, <3>2, <3>3, <3>4 DEF ReportInv
  <2>6. CASE ReloadConfig(c)
    <3>1. CASE Settle(c, "skipped")
      BY <2>2, <2>6, <3>1 DEF ReloadConfig, Busy, historyVars
    <3>2. CASE ~Settle(c, "skipped")
      <4>1. OthersRest(c)
        BY <2>6, <3>2 DEF ReloadConfig, OthersRest, ReportInv, TargetInv, CleanersDomain
      <4> QED
        BY <2>3, <2>6, <3>2, <4>1 DEF ReloadConfig, ReportInv, historyVars
    <3> QED
      BY <3>1, <3>2
  <2>7. CASE InventoryFails(c)
    BY <2>2, <2>7 DEF InventoryFails, Busy, historyVars
  <2>8. CASE LoseAnswer(c)
    BY <2>2, <2>8 DEF LoseAnswer, Busy
  <2>9. CASE Crash(c)
    <3>1. OthersRest(c)
      BY <2>9 DEF Crash, OthersRest, ReportInv, TargetInv, CleanersDomain
    <3>2. /\ \A k \in Cleaners \ {c} : view'[k] = view[k]
          /\ view'[c] = NoView /\ report'[c] = {}
      BY <2>9 DEF Crash, ReportInv, TargetInv, CleanersDomain
    <3> QED
      BY <2>3, <2>9, <3>1, <3>2 DEF Crash
  <2>10. ASSUME OthersRest(c), UNCHANGED <<report, removed>>,
                \A k \in Cleaners \ {c} : view'[k] = view[k], pc'[c] # "deleting", Seen(c)'
         PROVE  ReportInv'
    BY <2>1, <2>10 DEF ReportInv, Named, Truthful
  <2>11. EngineInv
    BY DEF ReportInv, TargetInv
  <2>12. CASE ListContainers(c) \/ ListOthers(c)
    <3>1. /\ UNCHANGED <<docker, pc, report, removed>> /\ OthersRest(c)
          /\ pc[c] \in {"snapped", "listing"} /\ \A k \in Cleaners \ {c} : view'[k] = view[k]
      BY <2>12 DEF ListContainers, ListOthers, OthersRest, ReportInv, TargetInv, CleanersDomain,
                   engineVars, historyVars
    <3>2. \/ view'[c] = [view[c] EXCEPT !.listed = ContainersIn(Present)]
          \/ view'[c] = [view[c] EXCEPT !.others = OthersIn(Present)]
      BY <2>12 DEF ListContainers, ListOthers, ReportInv, TargetInv, CleanersDomain
    <3>3. \A o \in OthersIn(Present) : Genuine(o) /\ (o.kind = "image" => NamesBelong(o.id, o.names)')
      BY <1>1, <2>11, ListedAre, NamesStillBelong
    <3>4. Seen(c)'
      <4>1. DOMAIN view[c] = {"listed", "containers", "others", "cache"}
        BY DEF ReportInv, TargetInv, InventoryInv, Lists
      <4>2. view'[c].others = view[c].others \/ view'[c].others = OthersIn(Present)
        BY <3>2, <4>1
      <4> QED
        BY <1>1, <3>1, <3>3, <4>2, NamesStillBelong DEF ReportInv, Seen
    <3> QED
      BY <2>10, <3>1, <3>4
  <2>13. CASE InspectContainers(c) \/ ReadBuildCache(c)
    <3>1. /\ UNCHANGED <<docker, report, removed>> /\ OthersRest(c)
          /\ pc'[c] \in {"surveyed", "inspected", "collected", "listed"}
          /\ view[c].others # None \/ pc[c] \in {"surveyed", "inspected"}
          /\ \A k \in Cleaners \ {c} : view'[k] = view[k]
      BY <2>13 DEF InspectContainers, ReadBuildCache, OthersRest, ReportInv, TargetInv,
                   CleanersDomain, engineVars, historyVars
    <3>2. view'[c].others = view[c].others
      BY <2>13 DEF InspectContainers, ReadBuildCache, ReportInv, TargetInv, CleanersDomain,
                   InventoryInv, Lists
    <3>3. Seen(c)'
      BY <1>1, <3>1, <3>2, NamesStillBelong DEF ReportInv, Seen
    <3> QED
      BY <2>10, <3>1, <3>3
  <2>15. CASE Revalidate(c)
    <3>1. CASE Settle(c, "skipped")
      BY <2>2, <2>15, <3>1 DEF Revalidate, Busy, historyVars
    <3>2. ASSUME NEW d \in Revalidated(c),
                 request' = [request EXCEPT ![c] = DeleteRequest(c, d.resource)],
                 pc' = [pc EXCEPT ![c] = "deleting"], UNCHANGED <<plan, queue, report, view>>
          PROVE  ReportInv'
      <4>1. /\ OthersRest(c) /\ pc'[c] = "deleting" /\ pc[c] = "listed" /\ removed' = removed
            /\ request'[c] = DeleteRequest(c, d.resource)
        BY <2>15, <3>2 DEF Revalidate, OthersRest, ReportInv, TargetInv, CleanersDomain, historyVars
      <4>2. /\ request'[c].kind = d.resource.kind /\ request'[c].id = d.resource.id
            /\ d.resource.kind = "image" => request'[c].refs = ImageRefs(d.resource)
        BY <4>1 DEF DeleteRequest
      <4>3. Named(c)'
        BY <1>1, <4>1, <4>2, RequestNames, NamesStillBelong DEF Named
      <4>4. Seen(c)'
        BY <1>1, <3>2, <4>1, NamesStillBelong DEF ReportInv, Seen
      <4> QED
        BY <2>1, <3>2, <4>1, <4>3, <4>4 DEF ReportInv, Truthful
    <3> QED
      BY <2>15, <3>1, <3>2 DEF Revalidate
  <2>16. CASE EngineAnswers(c)
    <3> DEFINE Answered(r, reply) ==
                 /\ docker' = reply.docker
                 /\ removed' = removed \cup Vanished(r, reply.docker)
                 /\ IF reply.answer = "removed" /\ request[c].refs # {r.ref}
                    THEN /\ request' = [request EXCEPT ![c].refs = @ \ {r.ref}]
                         /\ UNCHANGED <<pc, plan, queue, guard, view, report>>
                    ELSE Settle(c, StatusOf(reply.answer))
    <3>0. PICK r \in Sent(c) : \E reply \in Effects(r) : Answered(r, reply)
      BY <2>16 DEF EngineAnswers
    <3>1. PICK reply \in Effects(r) : Answered(r, reply)
      BY <3>0
    <3>2. pc[c] = "deleting" /\ r.by = c /\ r.id \in Ids /\ r.id = Head(queue[c]).id
          /\ r.id = request[c].id /\ r.kind = request[c].kind
      BY <2>16, SentIs DEF EngineAnswers, ReportInv
    <3>3. CASE reply.answer = "removed" /\ request[c].refs # {r.ref}
      <4>1. /\ OthersRest(c) /\ pc' = pc /\ view' = view /\ report' = report
            /\ request'[c].kind = request[c].kind /\ request'[c].id = request[c].id
            /\ request'[c].refs = request[c].refs \ {r.ref}
        BY <3>1, <3>2, <3>3 DEF OthersRest, ReportInv, TargetInv, CleanersDomain, Accounts
      <4>3. \A i \in Ids \ {r.id} : docker'[i] = docker[i]
        <5>1. \/ docker' = Gone(r.id)
              \/ docker' = [docker EXCEPT ![r.id].names = @ \ {r.ref}]
          BY <3>1, <3>2, <3>3, SuccessRemoves
        <5> QED
          BY <2>11, <5>1 DEF Gone, EngineInv
      <4>4. IsImage(r.id)' => docker'[r.id].names \subseteq docker[r.id].names \ {r.ref}
        <5>1. CASE reply.docker = Gone(r.id)
          BY <2>11, <3>1, <3>2, <5>1 DEF Gone, EngineInv, IsImage
        <5>2. CASE reply.docker = [docker EXCEPT ![r.id].names = @ \ {r.ref}]
          <6>1. docker'[r.id] = [docker[r.id] EXCEPT !.names = @ \ {r.ref}]
            BY <2>11, <3>1, <3>2, <5>2 DEF EngineInv
          <6>2. docker[r.id] # None /\ "names" \in DOMAIN docker[r.id]
            BY <2>11, <3>2, <3>3, SuccessRemoves DEF EngineInv, Genuine
          <6> QED
            BY <6>1, <6>2
        <5> QED
          BY <3>2, <3>3, <5>1, <5>2, SuccessRemoves
      <4>5. Named(c)'
        <5>1. CASE r.kind = "image"
          <6>1. NamesBelong(r.id, request[c].refs)
            BY <3>2, <5>1 DEF ReportInv, Named
          <6>2. NamesBelong(r.id, request[c].refs \ {r.ref})'
            <7>1. ASSUME NEW i \in Ids, IsImage(i)'
                  PROVE  IF i = r.id THEN docker'[i].names \subseteq (request[c].refs \ {r.ref}) \cup {r.id}
                         ELSE docker'[i].names \cap (request[c].refs \ {r.ref}) = {}
              <8>1. IsImage(i) /\ docker'[i].names \subseteq docker[i].names
                BY <1>1, <7>1 DEF ImagesShrink
              <8>2. i = r.id => docker'[i].names \subseteq docker[i].names \ {r.ref}
                BY <4>4, <7>1
              <8>3. IF i = r.id THEN docker[i].names \subseteq request[c].refs \cup {r.id}
                    ELSE docker[i].names \cap request[c].refs = {}
                BY <6>1, <8>1 DEF NamesBelong
              <8> QED
                BY <8>1, <8>2, <8>3
            <7> QED
              BY <7>1, <4>1 DEF NamesBelong
          <6> QED
            BY <3>2, <4>1, <6>2 DEF Named
        <5> QED
          BY <3>2, <4>1, <5>1 DEF Named
      <4>6. Seen(c)' /\ Truthful(c)'
        BY <1>1, <3>1, <4>1, NamesStillBelong DEF ReportInv, Seen, Truthful
      <4> QED
        BY <2>1, <3>1, <4>1, <4>5, <4>6
    <3>4. CASE ~(reply.answer = "removed" /\ request[c].refs # {r.ref})
      <4>1. ASSUME StatusOf(reply.answer) = "removed"
            PROVE  [by |-> c, id |-> r.id] \in removed'
        <5>1. reply.answer = "removed"
          BY <4>1 DEF StatusOf
        <5>2. docker[r.id] # None /\ reply.docker = Gone(r.id)
          BY <3>2, <3>4, <5>1, SuccessRemoves
        <5>3. reply.docker[r.id] = None
          BY <2>11, <3>2, <5>2 DEF Gone, EngineInv
        <5> QED
          BY <3>1, <3>2, <5>2, <5>3 DEF Vanished
      <4> QED
        BY <2>2, <3>1, <3>2, <3>4, <4>1 DEF Busy
    <3> QED
      BY <3>3, <3>4
  <2> QED
    BY <1>5, <2>4, <2>5, <2>6, <2>7, <2>8, <2>9, <2>12, <2>13, <2>15, <2>16 DEF CleanerStep
<1> QED
  BY <1>3, <1>4, <1>5 DEF Next

\* While nobody else changes the names of images, what a report calls removed is
\* what the engine removed for that cleaner, under that id.
THEOREM ReportsTruthful ==
  ASSUME NoRetagging
  PROVE  Spec => []ReportTruthful
<1>1. ReportInv => ReportTruthful
  BY DEF ReportInv, Truthful, ReportTruthful
<1>2. ReportInv /\ [Next]_vars => ReportInv'
  BY ReportInvStep
<1> QED
  BY <1>1, <1>2, ReportInvInit, PTL DEF Spec

-----------------------------------------------------------------------------
(* What has been removed is reported *)

\* An image loses its tags in their order: the ones that are left come later.
InOrder ==
  \A i \in Ids : IsImage(i)' =>
    \A t \in docker[i].names \ docker'[i].names, u \in docker'[i].names \ {i} :
      t # i => Rank[t] < Rank[u]

\* Names that were those of an image some time ago: what comes after a tag that
\* is still there is still there, too.
Followed(id, names) ==
  /\ id \in Ids /\ names \ {id} \subseteq Tags
  /\ IsImage(id) =>
       \A t \in names \ {id}, u \in docker[id].names \ {id} :
         Rank[u] < Rank[t] => t \in docker[id].names

\* The name a request is about: no tag that is left comes before it, and no other
\* image has it.
Leads(id, ref) ==
  \A i \in Ids : IsImage(i) =>
    IF i = id THEN \A t \in docker[i].names \ {i, ref} : Rank[ref] < Rank[t]
    ELSE ref \notin docker[i].names

\* The images a cleaner has listed, and the one it is about to remove.
Watched(c) ==
  /\ view[c].others # None \/ pc[c] \in {"surveyed", "inspected", "collected", "listed"} =>
       \A o \in view[c].others : o.kind = "image" => Followed(o.id, o.names)
  /\ pc[c] = "deleting" /\ request[c].kind = "image" =>
       /\ Followed(request[c].id, request[c].refs)
       /\ request[c].id \in request[c].refs => request[c].refs = {request[c].id}
  /\ pc[c] = "deleting" /\ request[c].kind # "image" => request[c].refs = {request[c].id}

\* It will give a report, or has given it.
Gives(c) == pc[c] \notin {"failed", "crashed"}

Reports(c, id) ==
  \E o \in report[c] :
    \/ o.id = id /\ o.status \in {"removed", "failed"}
    \/ o.status = "failed" /\ \E t \in plan[c].targets : t.id = o.id /\ t.kind = "build-cache"

\* A pass that will give a report has in it what was removed for it.
Covered(c) == Gives(c) => \A i \in Ids : [by |-> c, id |-> i] \in removed => Reports(c, i)

\* A request whose answer is lost belongs to a target that is reported as failed.
Strayed(r) ==
  /\ r.by \in Cleaners /\ pc[r.by] \notin {"idle"} \cup Planning
  /\ r.kind = "image" => Leads(r.id, r.ref)
  /\ Gives(r.by) =>
       /\ [id |-> r.id, status |-> "failed"] \in report[r.by]
       /\ \E t \in plan[r.by].targets : t.id = r.id /\ t.kind = r.kind

\* An object is one from outside that may have lost names.
Original(o) ==
  \E p \in ObjectStates : o.names \subseteq p.names /\ (o = p \/ o = [p EXCEPT !.names = o.names])

RemovalInv ==
  /\ ReportInv
  /\ \A i \in Ids : docker[i] # None => Original(docker[i])
  /\ \A x \in removed : x.by \in Cleaners /\ x.id \in Ids /\ x = [by |-> x.by, id |-> x.id]
  /\ \A r \in stray : Strayed(r)
  /\ \A c \in Cleaners : Watched(c) /\ Covered(c)

\* A list that was in order stays so while images lose their tags in order.
LEMMA StillFollowed ==
  ASSUME ImagesShrink, InOrder, NEW id, NEW names, Followed(id, names),
         IsImage(id) => docker[id].names \ {id} \subseteq Tags
  PROVE  Followed(id, names)'
<1> SUFFICES ASSUME IsImage(id)', NEW t \in names \ {id}, NEW u \in docker'[id].names \ {id},
                    Rank[u] < Rank[t]
             PROVE  t \in docker'[id].names
  BY DEF Followed
<1>1. IsImage(id) /\ docker'[id].names \subseteq docker[id].names /\ id \in Ids
  BY DEF ImagesShrink, Followed
<1>2. t \in docker[id].names
  BY <1>1 DEF Followed
<1>3. Rank[t] \in Int /\ Rank[u] \in Int
  BY <1>1, ObjectAssumption DEF Followed
<1>4. t \notin docker'[id].names => Rank[t] < Rank[u]
  BY <1>1, <1>2 DEF InOrder
<1> QED
  BY <1>3, <1>4

\* A name keeps its place before the tags that are left.
LEMMA StillLeads ==
  ASSUME ImagesShrink, NEW id, NEW ref, Leads(id, ref)
  PROVE  Leads(id, ref)'
BY DEF ImagesShrink, Leads, IsImage

\* The name a request is sent for comes first.
LEMMA SentLeads ==
  ASSUME ReportInv, NEW c \in Cleaners, pc[c] = "deleting", NEW r \in Sent(c), r.kind = "image"
  PROVE  Leads(r.id, r.ref)
<1>1. /\ r.id = request[c].id /\ r.kind = request[c].kind /\ r.ref \in request[c].refs
      /\ \A other \in request[c].refs \ {r.ref} : Rank[r.ref] < Rank[other]
  BY DEF Sent, FirstRefs
<1>2. NamesBelong(r.id, request[c].refs)
  BY <1>1 DEF ReportInv, Named
<1> QED
  BY <1>1, <1>2 DEF Leads, NamesBelong

\* The engine does nothing, takes the object, takes one of its tags, or prunes
\* other records, too, and says so.
LEMMA EffectIs ==
  ASSUME EngineInv, NEW r, r.id \in Ids, r.kind = "image" => Leads(r.id, r.ref),
         NEW reply \in Effects(r)
  PROVE  \/ reply.docker = docker
         \/ /\ reply.docker = Gone(r.id) /\ reply.answer = "removed"
            /\ r.kind = "image" => /\ IsImage(r.id) /\ r.ref \in docker[r.id].names
                                   /\ r.ref # r.id => docker[r.id].names \subseteq {r.id, r.ref}
         \/ /\ r.kind = "image" /\ IsImage(r.id) /\ r.ref # r.id
            /\ reply.docker = [docker EXCEPT ![r.id].names = @ \ {r.ref}]
         \/ /\ r.kind = "build-cache" /\ reply.answer = "unexpected"
            /\ \A i \in Ids : reply.docker[i] \in {docker[i], None}
<1>1. \A answer, contents : /\ Reply(answer, contents).answer = answer
                            /\ Reply(answer, contents).docker = contents
  BY DEF Reply
<1>2. reply = Reply("error", docker) => reply.docker = docker
  BY <1>1
<1>3. reply = RemoveContainer(r) =>
        reply.docker = docker \/ (reply.docker = Gone(r.id) /\ reply.answer = "removed")
  BY <1>1 DEF RemoveContainer
<1>4. reply = RemoveUnused(r) =>
        reply.docker = docker \/ (reply.docker = Gone(r.id) /\ reply.answer = "removed")
  BY <1>1 DEF RemoveUnused
<1>5. reply = PruneRecord(r) =>
        reply.docker = docker \/ (reply.docker = Gone(r.id) /\ reply.answer = "removed")
  <2>1. \/ PruneRecord(r) = Reply("pruned nothing", docker)
        \/ PruneRecord(r) = Reply("removed", Gone(r.id))
    BY Zenon DEF PruneRecord
  <2>2. /\ Reply("pruned nothing", docker).docker = docker
        /\ Reply("removed", Gone(r.id)).docker = Gone(r.id)
        /\ Reply("removed", Gone(r.id)).answer = "removed"
    BY <1>1
  <2> QED
    BY <2>1, <2>2
<1>6. reply \in PruneTooMuch(r) =>
        reply.answer = "unexpected" /\ \A i \in Ids : reply.docker[i] \in {docker[i], None}
  <2> SUFFICES ASSUME NEW o \in Present,
                      reply = Reply("unexpected", [Gone(r.id) EXCEPT ![o.id] = None])
               PROVE  reply.answer = "unexpected" /\ \A i \in Ids : reply.docker[i] \in {docker[i], None}
    BY DEF PruneTooMuch
  <2>1. reply.docker = [Gone(r.id) EXCEPT ![o.id] = None] /\ reply.answer = "unexpected"
    BY <1>1
  <2> QED
    BY <2>1 DEF Gone, EngineInv
<1>7. ASSUME reply = RemoveImageName(r), r.kind = "image"
      PROVE  \/ reply.docker = docker
             \/ /\ reply.docker = Gone(r.id) /\ reply.answer = "removed"
                /\ IsImage(r.id) /\ r.ref \in docker[r.id].names
                /\ r.ref # r.id => docker[r.id].names \subseteq {r.id, r.ref}
             \/ /\ IsImage(r.id) /\ r.ref # r.id
                /\ reply.docker = [docker EXCEPT ![r.id].names = @ \ {r.ref}]
  <2> DEFINE owners == {o \in Present : o.kind = "image" /\ r.ref \in o.names}
             image  == CHOOSE o \in owners : TRUE
             tags   == image.names \ {image.id}
  <2>1. CASE owners = {}
    BY <1>1, <1>7, <2>1 DEF RemoveImageName
  <2>2. CASE owners # {}
    <3>1. image \in Present /\ image.kind = "image" /\ r.ref \in image.names
      BY <2>2
    <3>2. image.id \in Ids /\ docker[image.id] = image /\ image # None
      BY <3>1 DEF Present, EngineInv
    <3>3. image.id = r.id /\ IsImage(r.id)
      BY <1>7, <3>1, <3>2 DEF Leads, IsImage
    <3>4. docker[r.id] = image /\ tags = docker[r.id].names \ {r.id} /\ r.ref \in docker[r.id].names
      BY <3>1, <3>2, <3>3
    <3> HIDE DEF image
    <3>5. CASE r.ref \in tags /\ tags # {r.ref}
      <4>1. RemoveImageName(r) = Reply("removed", [docker EXCEPT ![image.id].names = @ \ {r.ref}])
        BY Zenon, <2>2, <3>5 DEF RemoveImageName, image
      <4>2. reply.docker = [docker EXCEPT ![image.id].names = @ \ {r.ref}]
        BY <1>1, <1>7, <4>1
      <4>3. reply.docker = [docker EXCEPT ![r.id].names = @ \ {r.ref}]
        BY <3>3, <4>2
      <4>4. r.ref # r.id
        BY <3>3, <3>5
      <4> QED
        BY <3>3, <4>3, <4>4
    <3>6. CASE ~(r.ref \in tags /\ tags # {r.ref}) /\ ~(InUse(image) \/ Cardinality(tags) > 1)
      <4>1. RemoveImageName(r) = Reply("removed", Gone(image.id))
        BY Zenon, <2>2, <3>6 DEF RemoveImageName, image
      <4> QED
        BY <1>1, <1>7, <3>3, <3>4, <3>6, <4>1
    <3>7. CASE ~(r.ref \in tags /\ tags # {r.ref}) /\ (InUse(image) \/ Cardinality(tags) > 1)
      <4>1. RemoveImageName(r) = Reply("refused", docker)
        BY Zenon, <2>2, <3>7 DEF RemoveImageName, image
      <4> QED
        BY <1>1, <1>7, <4>1
    <3> QED
      BY <3>5, <3>6, <3>7
  <2> QED
    BY <2>1, <2>2
<1>8. CASE r.kind = "container"
  BY <1>2, <1>3, <1>8 DEF Effects
<1>9. CASE r.kind = "image"
  BY <1>2, <1>7, <1>9 DEF Effects
<1>10. CASE r.kind = "build-cache"
  BY <1>2, <1>5, <1>6, <1>10 DEF Effects
<1>11. CASE r.kind \notin {"container", "image", "build-cache"}
  BY <1>2, <1>4, <1>11 DEF Effects
<1> QED
  BY <1>8, <1>9, <1>10, <1>11

\* So a request takes the first tag of its image and nothing from other images.
LEMMA EffectInOrder ==
  ASSUME EngineInv, NEW r, r.id \in Ids, r.kind = "image" => Leads(r.id, r.ref),
         NEW reply \in Effects(r), docker' = reply.docker
  PROVE  InOrder
<1>1. CASE docker' = docker
  BY <1>1 DEF InOrder
<1>2. CASE \A i \in Ids : docker'[i] \in {docker[i], None}
  BY <1>2 DEF InOrder, IsImage
<1>3. CASE docker' = Gone(r.id)
  BY <1>3, <1>2 DEF Gone, EngineInv
<1>4. ASSUME r.kind = "image", IsImage(r.id), docker' = [docker EXCEPT ![r.id].names = @ \ {r.ref}]
      PROVE  InOrder
  <2>1. \A i \in Ids \ {r.id} : docker'[i] = docker[i]
    BY <1>4 DEF EngineInv
  <2>2. docker'[r.id].names = docker[r.id].names \ {r.ref}
    <3>1. "names" \in DOMAIN docker[r.id]
      BY <1>4 DEF EngineInv, IsImage, Genuine
    <3>2. docker'[r.id] = [docker[r.id] EXCEPT !.names = @ \ {r.ref}]
      BY <1>4 DEF EngineInv
    <3> QED
      BY <3>1, <3>2
  <2>3. \A t \in docker[r.id].names \ {r.id, r.ref} : Rank[r.ref] < Rank[t]
    BY <1>4 DEF Leads
  <2> QED
    BY <2>1, <2>2, <2>3 DEF InOrder
<1> QED
  BY <1>1, <1>2, <1>3, <1>4, EffectIs

\* Objects are what came from outside: losing a name does not make them nothing.
LEMMA OriginalsShrink ==
  ASSUME EngineInv, NEW i \in Ids, docker[i] # None, Original(docker[i]), NEW names,
         names \subseteq docker[i].names
  PROVE  /\ [docker[i] EXCEPT !.names = names] # None
         /\ Original([docker[i] EXCEPT !.names = names])
<1>1. PICK p \in ObjectStates :
        /\ docker[i].names \subseteq p.names
        /\ docker[i] = p \/ docker[i] = [p EXCEPT !.names = docker[i].names]
  BY DEF Original
<1>2. "names" \in DOMAIN p
  BY ObjectAssumption
<1>3. [docker[i] EXCEPT !.names = names] = [p EXCEPT !.names = names]
  BY <1>1, <1>2
<1>4. names \in SUBSET p.names
  BY <1>1
<1>5. [p EXCEPT !.names = names] # None
  BY <1>4, ObjectAssumption
<1>6. [p EXCEPT !.names = names].names = names
  BY <1>2
<1> QED
  BY <1>3, <1>4, <1>5, <1>6 DEF Original

\* The tags of an image are among those that are ordered.
LEMMA TagsKnown ==
  ASSUME RemovalInv, NEW i \in Ids, IsImage(i)
  PROVE  docker[i].names \ {i} \subseteq Tags
<1>1. PICK p \in ObjectStates :
        /\ docker[i].names \subseteq p.names
        /\ docker[i] = p \/ docker[i] = [p EXCEPT !.names = docker[i].names]
  BY DEF RemovalInv, Original, IsImage
<1>2. p.id = docker[i].id /\ p.kind = docker[i].kind
  BY <1>1, ObjectAssumption
<1>3. docker[i].id = i /\ docker[i].kind = "image"
  BY DEF RemovalInv, ReportInv, TargetInv, EngineInv, IsImage
<1>4. p.names \ {i} \subseteq Tags
  BY <1>2, <1>3 DEF Tags
<1> QED
  BY <1>1, <1>4

\* What happens to the engine's objects in any step.
LEMMA StepInOrder ==
  ASSUME RemovalInv, [Next]_vars, NoRetagging
  PROVE  InOrder /\ \A i \in Ids : docker'[i] # None => Original(docker'[i])
<1>0. EngineInv /\ \A i \in Ids : docker[i] # None => Original(docker[i])
  BY DEF RemovalInv, ReportInv, TargetInv
<1>1. ASSUME UNCHANGED docker
      PROVE  InOrder /\ \A i \in Ids : docker'[i] # None => Original(docker'[i])
  BY <1>0, <1>1 DEF InOrder
<1>2. ASSUME NEW r, r.id \in Ids, r.kind = "image" => Leads(r.id, r.ref),
             NEW reply \in Effects(r), docker' = reply.docker
      PROVE  InOrder /\ \A i \in Ids : docker'[i] # None => Original(docker'[i])
  <2>1. Shrunk(docker')
    BY <1>0, <1>2, EffectsShrink
  <2>2. ASSUME NEW i \in Ids, docker'[i] # None
        PROVE  Original(docker'[i])
    <3>1. CASE docker'[i] = docker[i]
      BY <1>0, <2>2, <3>1
    <3>2. ASSUME docker[i] # None, NEW t, docker'[i] = [docker[i] EXCEPT !.names = @ \ {t}]
          PROVE  Original(docker'[i])
      <4>1. docker'[i] = [docker[i] EXCEPT !.names = docker[i].names \ {t}]
        BY <3>2
      <4> QED
        BY <1>0, <3>2, <4>1, OriginalsShrink
    <3> QED
      BY <2>1, <2>2, <3>1, <3>2 DEF Shrunk
  <2> QED
    BY <1>0, <1>2, <2>2, EffectInOrder
<1>3. CASE EngineChanges
  <2>1. ASSUME NEW o \in Objects, docker' = [docker EXCEPT ![o.id] = o]
        PROVE  InOrder /\ \A i \in Ids : docker'[i] # None => Original(docker'[i])
    <3>1. Genuine(o) /\ o.id \in Ids /\ o.kind # "image" /\ o \in ObjectStates
      BY StatesGenuine DEF NoRetagging, ObjectStates
    <3>2. Original(o)
      BY <3>1 DEF Original
    <3>3. docker'[o.id] = o /\ \A i \in Ids \ {o.id} : docker'[i] = docker[i]
      BY <1>0, <2>1, <3>1 DEF EngineInv
    <3> QED
      BY <1>0, <3>1, <3>2, <3>3 DEF InOrder, IsImage
  <2>2. ASSUME NEW i \in Ids, docker' = Gone(i)
        PROVE  InOrder /\ \A j \in Ids : docker'[j] # None => Original(docker'[j])
    BY <1>0, <2>2 DEF InOrder, IsImage, Gone, EngineInv
  <2> QED
    BY <1>3, <2>1, <2>2 DEF EngineChanges
<1>4. CASE StrayTakesEffect
  <2>1. PICK r \in stray : \E reply \in Effects(r) : docker' = reply.docker
    BY <1>4 DEF StrayTakesEffect
  <2>2. r.id \in Ids /\ (r.kind = "image" => Leads(r.id, r.ref))
    BY DEF RemovalInv, ReportInv, TargetInv, Strayed
  <2> QED
    BY <1>2, <2>1, <2>2
<1>5. ASSUME NEW c \in Cleaners, EngineAnswers(c)
      PROVE  InOrder /\ \A i \in Ids : docker'[i] # None => Original(docker'[i])
  <2>1. PICK r \in Sent(c) : \E reply \in Effects(r) : docker' = reply.docker
    BY <1>5 DEF EngineAnswers
  <2>2. r.id \in Ids /\ (r.kind = "image" => Leads(r.id, r.ref))
    BY <1>5, SentIs, SentLeads DEF EngineAnswers, RemovalInv, ReportInv
  <2> QED
    BY <1>2, <2>1, <2>2
<1>6. CASE UNCHANGED vars \/ EditProtection \/ Tick \/ EditConfig
  BY <1>1, <1>6 DEF vars, EditProtection, Tick, EditConfig, engineVars
<1>7. ASSUME NEW c \in Cleaners, PlanStep(c) \/ CleanerStep(c) \/ Crash(c), ~EngineAnswers(c)
      PROVE  InOrder /\ \A i \in Ids : docker'[i] # None => Original(docker'[i])
  BY <1>1, <1>7
  DEF PlanStep, LoadConfig, ReadProtection, Prepare, PlanningFails, CleanerStep, Crash, LockTarget, AbortPass, FinishPass, ReloadConfig,
      ListContainers, ListOthers, InspectContainers, ReadBuildCache, InventoryFails,
      Revalidate, LoseAnswer, engineVars
<1> QED
  BY <1>3, <1>4, <1>5, <1>6, <1>7 DEF Next

\* At the start nothing has been removed.
LEMMA RemovalInvInit == Init => RemovalInv
<1> SUFFICES ASSUME Init
             PROVE  RemovalInv
  OBVIOUS
<1>1. ASSUME NEW i \in Ids, docker[i] # None
      PROVE  Original(docker[i])
  <2>1. docker[i] \in ObjectStates
    BY <1>1 DEF Init, ObjectStates
  <2> QED
    BY <2>1 DEF Original
<1> QED
  BY <1>1, ReportInvInit DEF Init, RemovalInv, Watched, Covered, NoView

\* A pass goes on, keeping its targets and the outcomes it has.
Keeps(c) ==
  /\ pc'[c] \in {"idle"} \cup Planning => pc[c] \in {"idle"} \cup Planning
  /\ Gives(c)' => Gives(c) /\ report[c] \subseteq report'[c]
  /\ Gives(c)' /\ pc[c] \notin {"idle"} \cup Planning => plan'[c] = plan[c]

\* A step of c keeps the invariant if what it removes is reported.
LEMMA RemovalInvFrame ==
  ASSUME RemovalInv, ReportInv', ImagesShrink, InOrder,
         \A i \in Ids : docker'[i] # None => Original(docker'[i]),
         NEW c \in Cleaners, OthersRest(c), Keeps(c), Watched(c)',
         \A k \in Cleaners \ {c} : view'[k] = view[k],
         \A r \in stray' : r \in stray \/ Strayed(r)',
         \A x \in removed' : \/ x \in removed
                              \/ /\ x.id \in Ids /\ x = [by |-> c, id |-> x.id]
                                 /\ Gives(c)' => Reports(c, x.id)'
  PROVE  RemovalInv'
<1>1. ASSUME NEW r \in stray
      PROVE  Strayed(r)'
  <2>1. r.by \in Cleaners /\ pc[r.by] \notin {"idle"} \cup Planning /\ (r.kind = "image" => Leads(r.id, r.ref))
    BY DEF RemovalInv, Strayed
  <2>2. r.kind = "image" => Leads(r.id, r.ref)'
    BY <2>1, StillLeads
  <2>3. CASE r.by = c
    BY <2>1, <2>2, <2>3 DEF RemovalInv, Strayed, Keeps
  <2>4. CASE r.by # c
    BY <2>1, <2>2, <2>4 DEF RemovalInv, Strayed, OthersRest, Gives
  <2> QED
    BY <2>3, <2>4
<1>2. ASSUME NEW k \in Cleaners, k # c
      PROVE  Watched(k)'
  <2>1. \A id, names : Followed(id, names) => Followed(id, names)'
    BY StillFollowed, TagsKnown DEF Followed
  <2> QED
    BY <1>2, <2>1 DEF RemovalInv, Watched, OthersRest
<1>3. ASSUME NEW k \in Cleaners, NEW i \in Ids, [by |-> k, id |-> i] \in removed', Gives(k)'
      PROVE  Reports(k, i)'
  <2>1. CASE [by |-> k, id |-> i] \notin removed
    <3> DEFINE x == [by |-> k, id |-> i]
    <3>1. x.by = k /\ x.id = i
      OBVIOUS
    <3>2. x \in removed' /\ x \notin removed
      BY <1>3, <2>1
    <3> HIDE DEF x
    <3>3. x = [by |-> c, id |-> x.id] /\ (Gives(c)' => Reports(c, x.id)')
      BY <3>2
    <3>4. k = c
      BY <3>1, <3>3
    <3> QED
      BY <1>3, <3>1, <3>3, <3>4
  <2>2. CASE [by |-> k, id |-> i] \in removed /\ k = c
    <3>1. Gives(c)' => Gives(c) /\ Reports(c, i)
      BY <2>2 DEF RemovalInv, Covered, Keeps
    <3>2. pc[c] \notin {"idle"} \cup Planning
      BY <1>3, <2>2, <3>1 DEF Reports, RemovalInv, ReportInv, TargetInv, Accounts
    <3> QED
      BY <1>3, <2>2, <3>1, <3>2 DEF Keeps, Reports
  <2>3. CASE [by |-> k, id |-> i] \in removed /\ k # c
    BY <1>3, <2>3 DEF RemovalInv, Covered, OthersRest, Gives, Reports
  <2> QED
    BY <2>1, <2>2, <2>3
<1>4. ASSUME NEW x \in removed'
      PROVE  x.by \in Cleaners /\ x.id \in Ids /\ x = [by |-> x.by, id |-> x.id]
  <2>1. CASE x \in removed
    BY <2>1 DEF RemovalInv
  <2>2. CASE x.id \in Ids /\ x = [by |-> c, id |-> x.id]
    <3>1. x.by = c
      BY <2>2
    <3> QED
      BY <2>2, <3>1
  <2> QED
    BY <1>4, <2>1, <2>2
<1> QED
  BY <1>1, <1>2, <1>3, <1>4 DEF RemovalInv, Covered

\* What vanishes on a request is its object, or a record that an engine prunes
\* besides.
LEMMA VanishedAre ==
  ASSUME RemovalInv, NEW r, r.id \in Ids, r.kind = "image" => Leads(r.id, r.ref),
         NEW reply \in Effects(r), NEW x \in Vanished(r, reply.docker)
  PROVE  \E i \in Ids :
           /\ x = [by |-> r.by, id |-> i]
           /\ \/ /\ i = r.id /\ reply.docker = Gone(r.id) /\ reply.answer = "removed"
                 /\ r.kind = "image" => /\ IsImage(r.id) /\ r.ref \in docker[r.id].names
                                        /\ r.ref # r.id => docker[r.id].names \subseteq {r.id, r.ref}
              \/ r.kind = "build-cache" /\ reply.answer = "unexpected"
<1>0. EngineInv
  BY DEF RemovalInv, ReportInv, TargetInv
<1>1. PICK i \in Ids : x = [by |-> r.by, id |-> i] /\ docker[i] # None /\ reply.docker[i] = None
  BY DEF Vanished
<1>2. reply.docker # docker
  BY <1>1
<1>3. ~(IsImage(r.id) /\ reply.docker = [docker EXCEPT ![r.id].names = @ \ {r.ref}])
  <2> SUFFICES ASSUME IsImage(r.id), reply.docker = [docker EXCEPT ![r.id].names = @ \ {r.ref}]
               PROVE  FALSE
    OBVIOUS
  <2>1. i = r.id
    BY <1>0, <1>1 DEF EngineInv
  <2>2. reply.docker[i] = [docker[i] EXCEPT !.names = docker[i].names \ {r.ref}]
    BY <1>0, <2>1 DEF EngineInv
  <2>3. reply.docker[i] # None
    BY <1>0, <1>1, <2>2, OriginalsShrink DEF RemovalInv
  <2> QED
    BY <1>1, <2>3
<1>4. CASE reply.docker = Gone(r.id)
  <2>1. i = r.id
    BY <1>0, <1>1, <1>4 DEF Gone, EngineInv
  <2> QED
    BY <1>0, <1>1, <1>2, <1>3, <1>4, <2>1, EffectIs
<1>5. CASE reply.docker # Gone(r.id)
  <2>1. r.kind = "build-cache" /\ reply.answer = "unexpected"
    BY <1>0, <1>2, <1>3, <1>5, EffectIs
  <2> QED
    BY <1>1, <2>1
<1> QED
  BY <1>4, <1>5

\* When an image goes, the cleaner has asked for its last name.
LEMMA LastName ==
  ASSUME RemovalInv, NEW c \in Cleaners, pc[c] = "deleting", NEW r \in Sent(c),
         r.kind = "image" => /\ IsImage(r.id) /\ r.ref \in docker[r.id].names
                             /\ r.ref # r.id => docker[r.id].names \subseteq {r.id, r.ref}
  PROVE  request[c].refs = {r.ref}
<1>1. /\ r.id = request[c].id /\ r.kind = request[c].kind /\ r.ref \in request[c].refs
      /\ \A other \in request[c].refs \ {r.ref} : Rank[r.ref] < Rank[other]
  BY DEF Sent, FirstRefs
<1>2. /\ r.kind = "image" => /\ Followed(r.id, request[c].refs)
                             /\ r.id \in request[c].refs => request[c].refs = {r.id}
      /\ r.kind # "image" => request[c].refs = {r.id}
  BY <1>1 DEF RemovalInv, Watched
<1>3. CASE r.kind # "image" \/ r.ref = r.id
  BY <1>1, <1>2, <1>3
<1>4. CASE r.kind = "image" /\ r.ref # r.id
  <2>1. ASSUME NEW t \in request[c].refs, t # r.ref
        PROVE  FALSE
    <3>1. t # r.id /\ r.ref \in docker[r.id].names \ {r.id} /\ Rank[r.ref] < Rank[t]
      BY <1>1, <1>2, <1>4, <2>1
    <3>2. t \in docker[r.id].names
      BY <1>2, <1>4, <2>1, <3>1 DEF Followed
    <3> QED
      BY <1>4, <2>1, <3>1, <3>2
  <2> QED
    BY <1>1, <2>1
<1> QED
  BY <1>3, <1>4

\* Every step keeps RemovalInv while nobody else changes the names of images.
LEMMA RemovalInvStep ==
  ASSUME NoRetagging
  PROVE  RemovalInv /\ [Next]_vars => RemovalInv'
<1> SUFFICES ASSUME RemovalInv, [Next]_vars
             PROVE  RemovalInv'
  OBVIOUS
<1>0. TargetInv /\ ReportInv /\ EngineInv /\ CleanersDomain
  BY DEF RemovalInv, ReportInv, TargetInv
<1>1. /\ ReportInv' /\ ImagesShrink /\ InOrder
      /\ \A i \in Ids : docker'[i] # None => Original(docker'[i])
  BY ReportInvStep, StepShrinksImages, StepInOrder DEF RemovalInv, ReportInv
<1>2. \A id, names : Followed(id, names) => Followed(id, names)'
  BY <1>1, StillFollowed, TagsKnown DEF Followed
<1>3. \A id, ref : Leads(id, ref) => Leads(id, ref)'
  BY <1>1, StillLeads
<1>4. ASSUME UNCHANGED cleanerVars, stray' \subseteq stray,
             \A x \in removed' : \/ x \in removed
                                  \/ /\ x.by \in Cleaners /\ x.id \in Ids /\ x = [by |-> x.by, id |-> x.id]
                                     /\ Gives(x.by) => Reports(x.by, x.id)
      PROVE  RemovalInv'
  <2>1. /\ \A r \in stray' : Strayed(r)'
        /\ \A c \in Cleaners : Watched(c)'
    BY <1>2, <1>3, <1>4 DEF cleanerVars, RemovalInv, Strayed, Watched, Gives
  <2>2. ASSUME NEW c \in Cleaners, NEW i \in Ids, [by |-> c, id |-> i] \in removed', Gives(c)'
        PROVE  Reports(c, i)'
    <3> DEFINE x == [by |-> c, id |-> i]
    <3>1. x.by = c /\ x.id = i
      OBVIOUS
    <3>2. Gives(c) /\ (Reports(c, i) => Reports(c, i)')
      BY <1>4, <2>2 DEF cleanerVars, Gives, Reports
    <3>3. x \in removed => Reports(c, i)
      BY <3>2 DEF RemovalInv, Covered
    <3> HIDE DEF x
    <3>4. x \notin removed => Reports(c, i)
      BY <1>4, <2>2, <3>1, <3>2 DEF x
    <3> QED
      BY <3>2, <3>3, <3>4
  <2>3. \A x \in removed' : x.by \in Cleaners /\ x.id \in Ids /\ x = [by |-> x.by, id |-> x.id]
    BY <1>4 DEF RemovalInv
  <2> QED
    BY <1>1, <2>1, <2>2, <2>3 DEF RemovalInv, Covered
<1>5. CASE EditProtection \/ EngineChanges \/ Tick \/ EditConfig \/ UNCHANGED vars
  BY <1>4, <1>5 DEF EditProtection, EngineChanges, Tick, EditConfig, vars, historyVars
<1>6. CASE StrayTakesEffect
  <2>1. PICK r \in stray : \E reply \in Effects(r) :
          removed' = removed \cup Vanished(r, reply.docker)
    BY <1>6 DEF StrayTakesEffect
  <2>2. PICK reply \in Effects(r) : removed' = removed \cup Vanished(r, reply.docker)
    BY <2>1
  <2>3. r.id \in Ids /\ Strayed(r)
    BY DEF RemovalInv, ReportInv, TargetInv
  <2>4. ASSUME NEW x \in Vanished(r, reply.docker)
        PROVE  /\ x.by \in Cleaners /\ x.id \in Ids /\ x = [by |-> x.by, id |-> x.id]
               /\ Gives(x.by) => Reports(x.by, x.id)
    <3>1. PICK i \in Ids : /\ x = [by |-> r.by, id |-> i]
                           /\ i = r.id \/ r.kind = "build-cache"
      BY <2>2, <2>3, VanishedAre DEF Strayed
    <3>2. x.by = r.by /\ x.id = i
      BY <3>1
    <3>3. Gives(r.by) => Reports(r.by, i)
      <4> DEFINE o == [id |-> r.id, status |-> "failed"]
      <4>1. o.id = r.id /\ o.status = "failed"
        OBVIOUS
      <4>2. Gives(r.by) => o \in report[r.by] /\ \E t \in plan[r.by].targets : t.id = r.id /\ t.kind = r.kind
        BY <2>3 DEF Strayed
      <4> HIDE DEF o
      <4> QED
        BY <3>1, <4>1, <4>2 DEF Reports
    <3> QED
      BY <2>3, <3>1, <3>2, <3>3 DEF Strayed
  <2> QED
    BY <1>4, <1>6, <2>2, <2>4 DEF StrayTakesEffect
<1>7. ASSUME NEW c \in Cleaners, PlanStep(c) \/ CleanerStep(c) \/ Crash(c)
      PROVE  RemovalInv'
  <2>1. ASSUME OthersRest(c), Keeps(c), Watched(c)', \A k \in Cleaners \ {c} : view'[k] = view[k],
               \A r \in stray' : r \in stray \/ Strayed(r)',
               \A x \in removed' : \/ x \in removed
                                    \/ /\ x.id \in Ids /\ x = [by |-> c, id |-> x.id]
                                       /\ Gives(c)' => Reports(c, x.id)'
        PROVE  RemovalInv'
    BY <1>1, <2>1, RemovalInvFrame
  <2>2. ASSUME NEW target, pc' = [pc EXCEPT ![c] = target], OthersRest(c),
               target \notin {"idle", "surveyed", "inspected", "collected", "listed", "deleting"},
               target \in Planning => pc[c] \in {"idle"} \cup Planning,
               view'[c] = view[c] \/ view'[c] = NoView, \A k \in Cleaners \ {c} : view'[k] = view[k],
               target \notin {"failed", "crashed"} =>
                 /\ Gives(c) /\ report'[c] = report[c]
                 /\ pc[c] \notin {"idle"} \cup Planning => plan'[c] = plan[c]
        PROVE  Keeps(c) /\ Watched(c)'
    <3>1. pc'[c] = target
      BY <1>0, <2>2 DEF CleanersDomain
    <3>2. Watched(c)'
      BY <1>2, <2>2, <3>1 DEF RemovalInv, Watched, NoView
    <3>3. Keeps(c)
      BY <2>2, <3>1 DEF Keeps, Gives
    <3> QED
      BY <3>2, <3>3
  <2>3. ASSUME NEW status, Settle(c, status), pc[c] \in Busy
        PROVE  /\ OthersRest(c) /\ Keeps(c) /\ Watched(c)' /\ \A k \in Cleaners \ {c} : view'[k] = view[k]
               /\ [id |-> Head(queue[c]).id, status |-> status] \in report'[c]
               /\ plan'[c] = plan[c] /\ pc'[c] = "next"
    <3>1. OthersRest(c)
      BY <1>0, <2>3, SettleAccounts
    <3>2. /\ pc'[c] = "next" /\ plan' = plan /\ view'[c] = NoView
          /\ report'[c] = report[c] \cup {[id |-> Head(queue[c]).id, status |-> status]}
          /\ \A k \in Cleaners \ {c} : view'[k] = view[k]
      BY <1>0, <2>3 DEF Settle, CleanersDomain
    <3>3. Keeps(c)
      BY <2>3, <3>2 DEF Keeps, Gives, Busy, Planning, Surveying
    <3>4. Watched(c)'
      BY <3>2 DEF Watched, NoView
    <3> QED
      BY <3>1, <3>2, <3>3, <3>4
  <2>4. CASE PlanStep(c)
    <3>1. OthersRest(c)
      BY <1>0, <2>4, PrepareAccounts, PlanningAccounts DEF PlanStep
    <3>2. /\ \E target \in {"loaded", "snapped", "next", "failed"} : pc' = [pc EXCEPT ![c] = target]
          /\ pc[c] \in {"idle"} \cup Planning
          /\ \A k \in Cleaners \ {c} : view'[k] = view[k]
          /\ view'[c] = NoView \/ view'[c] = view[c]
          /\ UNCHANGED <<report, stray, removed>>
      BY <1>0, <2>4 DEF PlanStep, LoadConfig, ReadProtection, Prepare, PlanningFails, historyVars,
                        CleanersDomain, Planning, Surveying
    <3>3. Gives(c)
      BY <3>2 DEF Gives, Planning, Surveying
    <3>4. Keeps(c) /\ Watched(c)'
      BY <2>2, <3>1, <3>2, <3>3
    <3> QED
      BY <2>1, <3>1, <3>2, <3>4
  <2>5. CASE LockTarget(c) \/ FinishPass(c) \/ AbortPass(c)
    <3>1. OthersRest(c) /\ UNCHANGED <<stray, removed, view>> /\ pc[c] = "next"
      BY <1>0, <2>5 DEF LockTarget, FinishPass, AbortPass, OthersRest, CleanersDomain, historyVars
    <3>2. \E target \in {"guarded", "done", "failed"} :
            /\ pc' = [pc EXCEPT ![c] = target]
            /\ target # "failed" => report' = report /\ plan' = plan
      BY <2>5 DEF LockTarget, FinishPass, AbortPass
    <3> QED
      BY <2>1, <2>2, <3>1, <3>2 DEF Gives, Planning, Surveying
  <2>6. ASSUME NEW status, Settle(c, status), pc[c] \in Busy, stray' = stray, removed' = removed
        PROVE  RemovalInv'
    BY <2>1, <2>3, <2>6
  <2>7. CASE ReloadConfig(c)
    <3>1. CASE Settle(c, "skipped")
      BY <2>6, <2>7, <3>1 DEF ReloadConfig, Busy, historyVars
    <3>2. CASE ~Settle(c, "skipped")
      <4>1. OthersRest(c) /\ UNCHANGED <<stray, removed, view, report, plan>> /\ pc[c] = "guarded"
        BY <1>0, <2>7, <3>2 DEF ReloadConfig, OthersRest, CleanersDomain, historyVars
      <4>2. pc' = [pc EXCEPT ![c] = "listing"]
        BY <2>7, <3>2 DEF ReloadConfig
      <4> QED
        BY <2>1, <2>2, <4>1, <4>2 DEF Gives, Planning, Surveying
    <3> QED
      BY <3>1, <3>2
  <2>8. CASE InventoryFails(c)
    BY <2>6, <2>8 DEF InventoryFails, Busy, historyVars
  <2>9. CASE LoseAnswer(c)
    <3>1. PICK r \in Sent(c) : stray' = stray \cup {r}
      BY <2>9 DEF LoseAnswer
    <3>2. Settle(c, "failed") /\ pc[c] = "deleting" /\ removed' = removed
      BY <2>9 DEF LoseAnswer
    <3>3. Strayed(r)'
      <4>1. /\ r.by = c /\ r.id = Head(queue[c]).id /\ r.kind = request[c].kind
            /\ request[c].kind = Head(queue[c]).kind /\ Head(queue[c]) \in plan[c].targets
        BY <1>0, <3>2, SentIs, HeadTailProperties DEF TargetInv, Accounts, Busy
      <4>2. r.kind = "image" => Leads(r.id, r.ref)'
        BY <1>0, <1>3, <3>2, SentLeads
      <4>3. /\ [id |-> Head(queue[c]).id, status |-> "failed"] \in report'[c]
            /\ plan'[c] = plan[c] /\ pc'[c] = "next"
        BY <2>3, <3>2 DEF Busy
      <4> QED
        BY <4>1, <4>2, <4>3 DEF Strayed, Planning, Surveying
    <3> QED
      BY <2>1, <2>3, <3>1, <3>2, <3>3 DEF Busy
  <2>10. CASE Crash(c)
    <3>1. /\ OthersRest(c) /\ pc' = [pc EXCEPT ![c] = "crashed"] /\ removed' = removed
          /\ view'[c] = NoView /\ \A k \in Cleaners \ {c} : view'[k] = view[k]
      BY <1>0, <2>10 DEF Crash, OthersRest, CleanersDomain
    <3>2. ASSUME NEW r \in stray', r \notin stray
          PROVE  Strayed(r)'
      <4>1. pc[c] = "deleting" /\ r \in Sent(c)
        BY <2>10, <3>2 DEF Crash
      <4>2. r.by = c /\ (r.kind = "image" => Leads(r.id, r.ref)')
        BY <1>0, <1>3, <4>1, SentIs, SentLeads
      <4>3. pc'[c] = "crashed"
        BY <1>0, <3>1 DEF CleanersDomain
      <4> QED
        BY <4>2, <4>3 DEF Strayed, Gives, Planning, Surveying
    <3> QED
      BY <2>1, <2>2, <3>1, <3>2 DEF Planning, Surveying
  <2>11. CASE ListContainers(c) \/ ListOthers(c)
    <3>1. /\ UNCHANGED <<docker, pc, report, plan, removed, stray>> /\ OthersRest(c)
          /\ pc[c] \in {"snapped", "listing"}
          /\ \A k \in Cleaners \ {c} : view'[k] = view[k]
      BY <1>0, <2>11 DEF ListContainers, ListOthers, OthersRest, CleanersDomain, engineVars, historyVars
    <3>2. \/ view'[c] = [view[c] EXCEPT !.listed = ContainersIn(Present)]
          \/ view'[c] = [view[c] EXCEPT !.others = OthersIn(Present)]
      BY <1>0, <2>11 DEF ListContainers, ListOthers, TargetInv, CleanersDomain
    <3>3. ASSUME NEW o \in OthersIn(Present), o.kind = "image"
          PROVE  Followed(o.id, o.names)'
      <4>1. o.id \in Ids /\ docker[o.id] = o /\ o # None
        BY <1>0 DEF OthersIn, Present, EngineInv
      <4>2. o.names \ {o.id} \subseteq Tags
        BY <3>3, <4>1, TagsKnown DEF IsImage
      <4> QED
        BY <1>2, <4>1, <4>2 DEF Followed
    <3>4. view'[c].others = view[c].others \/ view'[c].others = OthersIn(Present)
      BY <1>0, <3>2 DEF TargetInv, InventoryInv, Lists
    <3>5. Watched(c)'
      BY <1>2, <3>1, <3>3, <3>4 DEF RemovalInv, Watched
    <3>6. Keeps(c)
      BY <3>1 DEF Keeps, Gives
    <3> QED
      BY <2>1, <3>1, <3>5, <3>6
  <2>12. CASE InspectContainers(c) \/ ReadBuildCache(c)
    <3>1. /\ UNCHANGED <<docker, report, plan, removed, stray>> /\ OthersRest(c)
          /\ \A k \in Cleaners \ {c} : view'[k] = view[k]
          /\ view[c].others # None \/ pc[c] \in {"surveyed", "inspected"}
          /\ \/ pc[c] \in {"snapped", "surveyed"} /\ pc'[c] \in {"surveyed", "collected"}
             \/ pc[c] \in {"listing", "inspected"} /\ pc'[c] \in {"inspected", "listed"}
      BY <1>0, <2>12 DEF InspectContainers, ReadBuildCache, OthersRest, CleanersDomain,
                         engineVars, historyVars
    <3>2. view'[c].others = view[c].others
      BY <1>0, <2>12 DEF InspectContainers, ReadBuildCache, CleanersDomain, TargetInv,
                         InventoryInv, Lists
    <3>3. Watched(c)'
      BY <1>2, <3>1, <3>2 DEF RemovalInv, Watched
    <3>4. Keeps(c)
      BY <3>1 DEF Keeps, Gives, Planning, Surveying
    <3> QED
      BY <2>1, <3>1, <3>3, <3>4
  <2>13. CASE Revalidate(c)
    <3>1. CASE Settle(c, "skipped")
      BY <2>6, <2>13, <3>1 DEF Revalidate, Busy, historyVars
    <3>2. ASSUME NEW d \in Revalidated(c),
                 request' = [request EXCEPT ![c] = DeleteRequest(c, d.resource)],
                 pc' = [pc EXCEPT ![c] = "deleting"], UNCHANGED <<plan, queue, report, view>>
          PROVE  RemovalInv'
      <4>1. /\ OthersRest(c) /\ pc'[c] = "deleting" /\ pc[c] = "listed" /\ UNCHANGED <<removed, stray>>
            /\ request'[c] = DeleteRequest(c, d.resource)
        BY <1>0, <2>13, <3>2 DEF Revalidate, OthersRest, CleanersDomain, historyVars
      <4>2. /\ request'[c].kind = d.resource.kind /\ request'[c].id = d.resource.id
            /\ d.resource.kind = "image" => request'[c].refs = ImageRefs(d.resource)
            /\ d.resource.kind # "image" => request'[c].refs = {d.resource.id}
        BY <4>1 DEF DeleteRequest
      <4>3. ASSUME d.resource.kind = "image"
            PROVE  /\ Followed(request[c].id, request[c].refs)'
                   /\ request'[c].id \in request'[c].refs => request'[c].refs = {request'[c].id}
        <5>1. PICK o \in view[c].others :
                /\ o.kind = "image" /\ d.resource.id = o.id
                /\ ImageRefs(d.resource) = IF o.names \ {o.id} = {} THEN {o.id} ELSE o.names \ {o.id}
          BY <1>0, <4>1, <4>3, RequestSource
        <5>2. Followed(o.id, o.names)
          BY <4>1, <5>1 DEF RemovalInv, Watched
        <5>3. Followed(o.id, ImageRefs(d.resource))
          BY <5>1, <5>2 DEF Followed
        <5>4. PICK id, refs : id = request'[c].id /\ refs = request'[c].refs
          OBVIOUS
        <5>5. id = o.id /\ refs = ImageRefs(d.resource)
          BY <4>2, <4>3, <5>1, <5>4
        <5>6. Followed(id, refs)'
          BY <1>2, <5>3, <5>5
        <5>7. Followed(request[c].id, request[c].refs)'
          BY <5>4, <5>6 DEF Followed, IsImage
        <5> QED
          BY <5>1, <5>4, <5>5, <5>7
      <4>4. Watched(c)'
        BY <1>2, <3>2, <4>1, <4>2, <4>3 DEF RemovalInv, Watched
      <4>5. Keeps(c)
        BY <3>2, <4>1 DEF Keeps, Gives, Planning, Surveying
      <4> QED
        BY <2>1, <3>2, <4>1, <4>4, <4>5
    <3> QED
      BY <2>13, <3>1, <3>2 DEF Revalidate
  <2>14. CASE EngineAnswers(c)
    <3> DEFINE Answered(r, reply) ==
                 /\ removed' = removed \cup Vanished(r, reply.docker)
                 /\ IF reply.answer = "removed" /\ request[c].refs # {r.ref}
                    THEN /\ request' = [request EXCEPT ![c].refs = @ \ {r.ref}]
                         /\ UNCHANGED <<pc, plan, queue, guard, view, report>>
                    ELSE Settle(c, StatusOf(reply.answer))
    <3>0. PICK r \in Sent(c) : \E reply \in Effects(r) : Answered(r, reply)
      BY <2>14 DEF EngineAnswers
    <3>1. PICK reply \in Effects(r) : Answered(r, reply)
      BY <3>0
    <3>2. /\ pc[c] = "deleting" /\ stray' = stray /\ r.by = c /\ r.id \in Ids /\ r.id = Head(queue[c]).id
          /\ r.id = request[c].id /\ r.kind = request[c].kind /\ r.ref \in request[c].refs
          /\ r.kind = "image" => Leads(r.id, r.ref)
      BY <1>0, <2>14, SentIs, SentLeads DEF EngineAnswers
    <3>3. CASE reply.answer = "removed" /\ request[c].refs # {r.ref}
      <4>1. /\ OthersRest(c) /\ UNCHANGED <<pc, view, report, plan>>
            /\ request'[c].kind = request[c].kind /\ request'[c].id = request[c].id
            /\ request'[c].refs = request[c].refs \ {r.ref}
        BY <1>0, <3>1, <3>2, <3>3 DEF OthersRest, TargetInv, CleanersDomain, Accounts
      <4>2. Vanished(r, reply.docker) = {}
        <5>1. ASSUME NEW x \in Vanished(r, reply.docker)
              PROVE  FALSE
          BY <3>1, <3>2, <3>3, VanishedAre, LastName
        <5> QED
          BY <5>1
      <4>3. r.kind # "image" => request[c].refs = {request[c].id}
        BY <3>2 DEF RemovalInv, Watched
      <4>4. ASSUME r.kind = "image"
            PROVE  Followed(request[c].id, request[c].refs)' /\ r.id \notin request'[c].refs
        <5>1. /\ Followed(r.id, request[c].refs)
              /\ r.id \in request[c].refs => request[c].refs = {r.id}
          BY <3>2, <4>4 DEF RemovalInv, Watched
        <5>2. PICK id, refs : id = request'[c].id /\ refs = request'[c].refs
          OBVIOUS
        <5>3. id = r.id /\ refs = request[c].refs \ {r.ref}
          BY <3>2, <4>1, <5>2
        <5>4. Followed(id, refs)
          BY <5>1, <5>3 DEF Followed
        <5>5. Followed(id, refs)'
          BY <1>2, <5>4
        <5>6. Followed(request[c].id, request[c].refs)'
          BY <5>2, <5>5 DEF Followed, IsImage
        <5> QED
          BY <3>2, <3>3, <5>1, <5>2, <5>3, <5>6
      <4>5. Watched(c)'
        BY <1>2, <3>2, <3>3, <4>1, <4>3, <4>4 DEF RemovalInv, Watched
      <4>6. Keeps(c)
        BY <4>1 DEF Keeps, Gives
      <4> QED
        BY <2>1, <3>1, <3>2, <4>1, <4>2, <4>5, <4>6
    <3>4. CASE ~(reply.answer = "removed" /\ request[c].refs # {r.ref})
      <4>1. Settle(c, StatusOf(reply.answer)) /\ pc[c] \in Busy
        BY <3>1, <3>2, <3>4 DEF Busy
      <4>2. ASSUME NEW x \in Vanished(r, reply.docker)
            PROVE  x.id \in Ids /\ x = [by |-> c, id |-> x.id] /\ Reports(c, x.id)'
        <5>1. PICK i \in Ids : /\ x = [by |-> r.by, id |-> i]
                               /\ \/ i = r.id /\ reply.answer = "removed"
                                  \/ r.kind = "build-cache" /\ reply.answer = "unexpected"
          BY <3>1, <3>2, VanishedAre
        <5>2. x.id = i /\ x = [by |-> c, id |-> x.id]
          BY <3>2, <5>1
        <5> DEFINE o == [id |-> r.id, status |-> StatusOf(reply.answer)]
        <5>3. o.id = r.id /\ o.status = StatusOf(reply.answer)
          OBVIOUS
        <5>4. o \in report'[c] /\ plan'[c] = plan[c]
          BY <2>3, <3>2, <4>1
        <5>5. Head(queue[c]) \in plan[c].targets /\ Head(queue[c]).kind = r.kind
          BY <1>0, <3>2, HeadTailProperties DEF TargetInv, Accounts, Busy
        <5>6. /\ reply.answer = "removed" => StatusOf(reply.answer) = "removed"
              /\ reply.answer = "unexpected" => StatusOf(reply.answer) = "failed"
          BY DEF StatusOf
        <5> HIDE DEF o
        <5>7. Reports(c, i)'
          BY <3>2, <5>1, <5>3, <5>4, <5>5, <5>6 DEF Reports
        <5> QED
          BY <5>2, <5>7
      <4> QED
        BY <2>1, <2>3, <3>1, <3>2, <4>1, <4>2
    <3> QED
      BY <3>3, <3>4
  <2> QED
    BY <1>7, <2>4, <2>5, <2>7, <2>8, <2>9, <2>10, <2>11, <2>12, <2>13, <2>14 DEF CleanerStep
<1> QED
  BY <1>4, <1>5, <1>6, <1>7 DEF Next

\* While nobody else changes the names of images, a pass that gives a report names
\* in it whatever the engine has removed for it, by any of its requests, at once or
\* after the answer was lost, and beside any number of other cleaners: images
\* lose their tags in one order, so that the cleaner whose request takes the last
\* one has no other to ask for, and reports the removal.
THEOREM RemovalsAreReported ==
  ASSUME NoRetagging
  PROVE  Spec => []RemovalsReported
<1>1. RemovalInv => RemovalsReported
  <2> SUFFICES ASSUME RemovalInv, NEW c \in Cleaners, pc[c] = "done", NEW x \in removed, x.by = c
               PROVE  Reports(c, x.id)
    BY DEF RemovalsReported, Reports
  <2>1. x.id \in Ids /\ [by |-> c, id |-> x.id] \in removed
    BY DEF RemovalInv
  <2> QED
    BY <2>1 DEF RemovalInv, Covered, Gives
<1>2. RemovalInv /\ [Next]_vars => RemovalInv'
  BY RemovalInvStep
<1> QED
  BY <1>1, <1>2, RemovalInvInit, PTL DEF Spec

-----------------------------------------------------------------------------
(* Nothing is removed that is not granted *)

\* Every cleaner waits for the engine's answer, the engine removes no more than
\* it is asked to, and nobody else changes the names of images.
Undisturbed == ~Lossy /\ "overprune" \notin EngineMay /\ NoRetagging

\* A target and the request made for it are of the kind its id belongs to, and a
\* target that is still queued has not been removed yet: only an image may be
\* gone before all its names have been tried, and it does not come back.
Granting(c) ==
  /\ \A t \in plan[c].targets : \E p \in ObjectStates : p.id = t.id /\ p.kind = t.kind
  /\ pc[c] = "deleting" =>
       /\ request[c].item.id = request[c].id /\ request[c].item.kind = request[c].kind
       /\ request[c].kind # "image" => request[c].refs = {request[c].id}
  /\ pc[c] \in {"idle"} \cup Planning => \A i \in Ids : [by |-> c, id |-> i] \notin removed
  /\ \A i \in IdsOf(ToSet(queue[c])) : [by |-> c, id |-> i] \in removed =>
       pc[c] = "deleting" /\ i = request[c].id /\ request[c].kind = "image" /\ ~IsImage(i)

\* The inductive strengthening behind the contract.
ContractInv ==
  /\ ReportInv
  /\ RequestInv
  /\ stray = {}
  /\ \A c \in Cleaners : Granting(c)

\* No plan has a target at the start.
LEMMA ContractInvInit == Init => ContractInv
<1> SUFFICES ASSUME Init
             PROVE  ContractInv
  OBVIOUS
<1>1. ReportInv /\ RequestInv
  BY ReportInvInit, RequestInvInit
<1>2. ASSUME NEW c \in Cleaners
      PROVE  Granting(c)
  <2>1. queue[c] = <<>> /\ plan[c].targets = {} /\ pc[c] = "idle" /\ removed = {}
    BY DEF Init, NoPlan
  <2>2. IdsOf(ToSet(queue[c])) = {}
    BY <2>1 DEF IdsOf, ToSet
  <2> QED
    BY <2>1, <2>2 DEF Granting
<1> QED
  BY <1>1, <1>2 DEF Init, ContractInv

\* An engine that prunes only what it is asked to removes the requested object,
\* or leaves every object there, of the kind it was.
LEMMA AnswerTakesOne ==
  ASSUME ContractInv, Undisturbed, NEW c \in Cleaners, pc[c] = "deleting",
         NEW r \in Sent(c), NEW reply \in Effects(r), docker' = reply.docker
  PROVE  \/ /\ \A i \in Ids : /\ docker'[i] = None <=> docker[i] = None
                              /\ docker[i] # None => docker'[i].kind = docker[i].kind
            /\ Vanished(r, docker') = {}
         \/ /\ docker[r.id] # None /\ docker' = Gone(r.id)
            /\ Vanished(r, docker') = {[by |-> c, id |-> r.id]}
<1>1. r.id \in Ids /\ r.by = c /\ EngineInv
  BY SentIs DEF ContractInv, ReportInv, TargetInv
<1>2. CASE docker' = docker
  BY <1>2 DEF Vanished
<1>3. CASE docker[r.id] # None /\ docker' = Gone(r.id)
  BY <1>1, <1>3 DEF Vanished, Gone, EngineInv
<1>4. CASE docker' = [docker EXCEPT ![r.id].names = @ \ {r.ref}] /\ docker[r.id] # None
  <2>1. docker'[r.id] = [docker[r.id] EXCEPT !.names = @ \ {r.ref}]
    BY <1>1, <1>4 DEF EngineInv
  <2>2. docker'[r.id].kind = docker[r.id].kind
    BY <1>1, <1>4, <2>1 DEF EngineInv, Genuine
  <2>3. \A i \in Ids \ {r.id} : docker'[i] = docker[i]
    BY <1>1, <1>4 DEF EngineInv
  <2>4. CASE docker'[r.id] = None
    <3>1. docker' = Gone(r.id)
      BY <1>1, <1>4, <2>4 DEF EngineInv, Gone
    <3> QED
      BY <1>3, <1>4, <3>1
  <2>5. CASE docker'[r.id] # None
    BY <1>4, <2>2, <2>3, <2>5 DEF Vanished
  <2> QED
    BY <2>4, <2>5
<1>5. CASE reply.answer = "removed"
  BY <1>3, <1>4, <1>5, SuccessRemoves DEF ContractInv
<1>6. CASE reply.answer # "removed"
  <2>1. \A answer, contents : /\ Reply(answer, contents).answer = answer
                              /\ Reply(answer, contents).docker = contents
    BY DEF Reply
  <2>2. "overprune" \notin EngineMay
    BY DEF Undisturbed
  <2>3. reply \in {RemoveContainer(r), RemoveImageName(r), PruneRecord(r), RemoveUnused(r),
                   Reply("error", docker)}
    BY <2>2 DEF Effects
  <2>4. reply = RemoveContainer(r) => docker' = docker
    BY <1>6, <2>1 DEF RemoveContainer
  <2>5. reply = RemoveUnused(r) => docker' = docker
    BY <1>6, <2>1 DEF RemoveUnused
  <2>6. reply = PruneRecord(r) => docker' = docker
    <3>1. \/ PruneRecord(r) = Reply("pruned nothing", docker)
          \/ PruneRecord(r) = Reply("removed", Gone(r.id))
      BY Zenon DEF PruneRecord
    <3>2. Reply("removed", Gone(r.id)) # reply /\ Reply("pruned nothing", docker).docker = docker
      BY <1>6, <2>1
    <3> QED
      BY <2>1, <3>1, <3>2
  <2>7. reply = RemoveImageName(r) => docker' = docker
    <3>1. \/ RemoveImageName(r) = Reply("missing", docker)
          \/ RemoveImageName(r) = Reply("refused", docker)
          \/ \E contents : RemoveImageName(r) = Reply("removed", contents)
      BY Zenon DEF RemoveImageName
    <3>2. \A contents : Reply("removed", contents) # reply
      BY <1>6, <2>1
    <3> QED
      BY <2>1, <3>1, <3>2
  <2>8. docker' = docker
    BY <2>1, <2>3, <2>4, <2>5, <2>6, <2>7
  <2> QED
    BY <1>2, <2>8
<1> QED
  BY <1>5, <1>6

\* A step of one cleaner leaves what is granted to the others alone.
LEMMA GrantingFrame ==
  ASSUME ContractInv, ReportInv', RequestInv', ImagesShrink, stray' = {},
         NEW c \in Cleaners, OthersRest(c), Granting(c)',
         \A k \in Cleaners \ {c} : \A i : [by |-> k, id |-> i] \in removed' => [by |-> k, id |-> i] \in removed
  PROVE  ContractInv'
<1>1. ASSUME NEW k \in Cleaners, k # c
      PROVE  Granting(k)'
  <2>1. /\ plan'[k] = plan[k] /\ pc'[k] = pc[k] /\ request'[k] = request[k]
        /\ queue'[k] = queue[k]
    BY <1>1 DEF OthersRest
  <2>2. \A i \in IdsOf(ToSet(queue[k])) : i \in Ids
    BY <1>1 DEF ContractInv, ReportInv, TargetInv, Accounts, IdsOf, ToSet
  <2>3. \A i \in Ids : ~IsImage(i) => ~IsImage(i)'
    BY DEF ImagesShrink
  <2> QED
    BY <1>1, <2>1, <2>2, <2>3 DEF ContractInv, Granting
<1> QED
  BY <1>1 DEF ContractInv

\* An outcome takes its target out of what can be granted.
LEMMA SettleGrants ==
  ASSUME ContractInv, NEW c \in Cleaners, NEW status, Settle(c, status), pc[c] \in Busy,
         \A i : [by |-> c, id |-> i] \in removed' =>
                  [by |-> c, id |-> i] \in removed \/ i = Head(queue[c]).id
  PROVE  Granting(c)'
<1>1. /\ queue[c] \in Seq(plan[c].targets) /\ OnceEach(queue[c]) /\ queue[c] # <<>>
      /\ pc[c] = "deleting" => request[c].id = Head(queue[c]).id
  BY DEF ContractInv, ReportInv, TargetInv, Accounts
<1>2. queue'[c] = Tail(queue[c]) /\ pc'[c] = "next" /\ plan' = plan
  BY DEF Settle, ContractInv, ReportInv, TargetInv, CleanersDomain
<1>3. IdsOf(ToSet(queue'[c])) = IdsOf(ToSet(queue[c])) \ {Head(queue[c]).id}
  BY <1>1, <1>2, TailLosesHead
<1>4. \A i \in IdsOf(ToSet(queue'[c])) : [by |-> c, id |-> i] \notin removed'
  BY <1>1, <1>3 DEF ContractInv, Granting
<1> QED
  BY <1>2, <1>4 DEF ContractInv, Granting, Planning, Surveying

\* Every step keeps ContractInv.
LEMMA ContractInvStep ==
  ASSUME Undisturbed
  PROVE  ContractInv /\ [Next]_vars => ContractInv'
<1> SUFFICES ASSUME ContractInv, [Next]_vars
             PROVE  ContractInv'
  OBVIOUS
<1>0. NoRetagging /\ ~Lossy /\ ReportInv /\ TargetInv
  BY DEF Undisturbed, ContractInv, ReportInv
<1>1. ReportInv' /\ RequestInv' /\ ImagesShrink
  BY <1>0, ReportInvStep, RequestInvStep, StepShrinksImages DEF ContractInv
<1>2. CASE UNCHANGED <<cleanerVars, historyVars>>
  <2>1. ASSUME NEW c \in Cleaners
        PROVE  Granting(c)'
    <3>1. \A i \in IdsOf(ToSet(queue[c])) : i \in Ids
      BY <1>0 DEF TargetInv, Accounts, IdsOf, ToSet
    <3>2. \A i \in Ids : ~IsImage(i) => ~IsImage(i)'
      BY <1>1 DEF ImagesShrink
    <3> QED
      BY <1>2, <3>1, <3>2 DEF cleanerVars, historyVars, ContractInv, Granting
  <2> QED
    BY <1>1, <1>2, <2>1 DEF historyVars, ContractInv
<1>3. CASE EditProtection \/ EngineChanges \/ Tick \/ EditConfig \/ UNCHANGED vars
  BY <1>2, <1>3 DEF EditProtection, EngineChanges, Tick, EditConfig, vars
<1>4. ~StrayTakesEffect
  BY DEF StrayTakesEffect, ContractInv
<1>5. ASSUME NEW c \in Cleaners, PlanStep(c) \/ CleanerStep(c) \/ Crash(c)
      PROVE  ContractInv'
  <2>1. ASSUME stray' = stray, OthersRest(c), Granting(c)', UNCHANGED removed
        PROVE  ContractInv'
    BY <1>1, <2>1, GrantingFrame DEF ContractInv
  <2>2. ASSUME NEW status, Settle(c, status), pc[c] \in Busy, UNCHANGED historyVars
        PROVE  ContractInv'
    BY <1>0, <2>1, <2>2, SettleGrants, SettleAccounts DEF historyVars
  <2>3. ASSUME NEW target, pc' = [pc EXCEPT ![c] = target], target \notin {"idle", "deleting"},
               pc[c] \notin {"idle", "deleting"}, target \in Planning => pc[c] \in Planning,
               UNCHANGED <<plan, queue, request, historyVars>>, OthersRest(c)
        PROVE  ContractInv'
    BY <1>0, <2>1, <2>3 DEF historyVars, ContractInv, Granting, TargetInv, CleanersDomain
  <2>4. CASE Prepare(c)
    <3>1. OthersRest(c) /\ Accounts(c)'
      BY <1>0, <2>4, PrepareAccounts
    <3>2. PICK obs : plan'[c].targets = PlannedTargets(c, obs)
      BY <1>0, <2>4, PrepareAccounts
    <3>3. pc[c] = "collected" /\ pc'[c] = "next" /\ UNCHANGED <<stray, removed>>
      BY <1>0, <2>4 DEF Prepare, TargetInv, CleanersDomain, historyVars
    <3>4. \A t \in plan'[c].targets :
            /\ t.id \in Ids /\ \E p \in ObjectStates : p.id = t.id /\ p.kind = t.kind
            /\ [kind |-> t.kind, value |-> t.id] \notin guard[c]
      BY <1>0, <3>2, <3>3, PlannedTargetsAre DEF TargetInv
    <3>5. \A i \in Ids : [by |-> c, id |-> i] \notin removed
      BY <3>3 DEF ContractInv, Granting, Planning, Surveying
    <3>6. \A i \in IdsOf(ToSet(queue'[c])) : i \in Ids
      BY <3>1 DEF Accounts, IdsOf, ToSet
    <3> QED
      BY <2>1, <3>1, <3>3, <3>4, <3>5, <3>6 DEF Granting, Planning, Surveying
  <2>11. CASE LoadConfig(c) \/ ReadProtection(c) \/ PlanningFails(c)
    <3>1. /\ OthersRest(c) /\ queue'[c] = <<>> /\ pc[c] \in {"idle", "loaded", "snapped", "surveyed"}
          /\ pc'[c] \in {"loaded", "snapped", "failed"}
          /\ plan'[c].targets = plan[c].targets \/ plan'[c].targets = {}
      BY <1>0, <2>11, PlanningAccounts
    <3>2. UNCHANGED <<stray, removed>>
      BY <2>11 DEF LoadConfig, ReadProtection, PlanningFails, historyVars
    <3>3. IdsOf(ToSet(<<>>)) = {}
      BY DEF IdsOf, ToSet
    <3>4. Granting(c)'
      BY <3>1, <3>2, <3>3 DEF ContractInv, Granting, Planning, Surveying
    <3> QED
      BY <2>1, <3>1, <3>2, <3>4
  <2>5. CASE \/ LockTarget(c) \/ FinishPass(c) \/ AbortPass(c)
             \/ InspectContainers(c) \/ ReadBuildCache(c)
    <3>1. /\ OthersRest(c) /\ UNCHANGED <<plan, queue, request, historyVars>>
          /\ pc[c] \notin {"idle", "deleting"}
      BY <1>0, <2>5 DEF LockTarget, FinishPass, AbortPass, InspectContainers, ReadBuildCache,
                        OthersRest, TargetInv, CleanersDomain
    <3>2. ASSUME NEW target, pc' = [pc EXCEPT ![c] = target], target \notin {"idle", "deleting"},
                 target \in Planning => pc[c] \in Planning
          PROVE  ContractInv'
      BY <2>3, <3>1, <3>2
    <3>3. CASE LockTarget(c) \/ FinishPass(c) \/ AbortPass(c)
      BY <3>2, <3>3 DEF LockTarget, FinishPass, AbortPass, Planning, Surveying
    <3>4. CASE InspectContainers(c) /\ pc[c] = "snapped"
      <4>1. pc' = [pc EXCEPT ![c] = "surveyed"]
        BY <3>4 DEF InspectContainers
      <4>2. "surveyed" \in Planning => pc[c] \in Planning
        BY <3>4 DEF InspectContainers, Planning, Surveying
      <4>3. "surveyed" \notin {"idle", "deleting"}
        OBVIOUS
      <4> QED
        BY <3>2, <4>1, <4>2, <4>3
    <3>5. CASE InspectContainers(c) /\ pc[c] # "snapped"
      <4>1. pc' = [pc EXCEPT ![c] = "inspected"]
        BY <3>5 DEF InspectContainers
      <4>2. "inspected" \in Planning => pc[c] \in Planning
        BY <3>5 DEF InspectContainers, Planning, Surveying
      <4>3. "inspected" \notin {"idle", "deleting"}
        OBVIOUS
      <4> QED
        BY <3>2, <4>1, <4>2, <4>3
    <3>6. CASE ReadBuildCache(c) /\ pc[c] = "surveyed"
      <4>1. pc' = [pc EXCEPT ![c] = "collected"]
        BY <3>6 DEF ReadBuildCache
      <4>2. "collected" \in Planning => pc[c] \in Planning
        BY <3>6 DEF ReadBuildCache, Planning, Surveying
      <4>3. "collected" \notin {"idle", "deleting"}
        OBVIOUS
      <4> QED
        BY <3>2, <4>1, <4>2, <4>3
    <3>7. CASE ReadBuildCache(c) /\ pc[c] # "surveyed"
      <4>1. pc' = [pc EXCEPT ![c] = "listed"]
        BY <3>7 DEF ReadBuildCache
      <4>2. "listed" \in Planning => pc[c] \in Planning
        BY <3>7 DEF ReadBuildCache, Planning, Surveying
      <4>3. "listed" \notin {"idle", "deleting"}
        OBVIOUS
      <4> QED
        BY <3>2, <4>1, <4>2, <4>3
    <3> QED
      BY <2>5, <3>3, <3>4, <3>5, <3>6, <3>7
  <2>6. CASE ListContainers(c) \/ ListOthers(c)
    BY <1>0, <2>1, <2>6 DEF ListContainers, ListOthers, OthersRest, TargetInv, CleanersDomain,
                       engineVars, historyVars, ContractInv, Granting, IsImage
  <2>7. CASE ReloadConfig(c)
    <3>1. CASE Settle(c, "skipped")
      BY <2>2, <2>7, <3>1 DEF ReloadConfig, Busy
    <3>2. CASE ~Settle(c, "skipped")
      <4>1. OthersRest(c)
        BY <1>0, <2>7, <3>2 DEF ReloadConfig, OthersRest, TargetInv, CleanersDomain
      <4> QED
        BY <2>3, <2>7, <3>2, <4>1 DEF ReloadConfig, Planning, Surveying
    <3> QED
      BY <3>1, <3>2
  <2>8. CASE InventoryFails(c)
    BY <2>2, <2>8 DEF InventoryFails, Busy
  <2>9. CASE Revalidate(c)
    <3>1. CASE Settle(c, "skipped")
      BY <2>2, <2>9, <3>1 DEF Revalidate, Busy
    <3>2. ASSUME NEW d \in Revalidated(c),
                 request' = [request EXCEPT ![c] = DeleteRequest(c, d.resource)],
                 pc' = [pc EXCEPT ![c] = "deleting"], UNCHANGED <<plan, queue, report>>
          PROVE  ContractInv'
      <4>1. /\ OthersRest(c) /\ pc'[c] = "deleting" /\ pc[c] = "listed"
            /\ request'[c] = DeleteRequest(c, d.resource) /\ UNCHANGED <<stray, removed>>
        BY <1>0, <2>9, <3>2 DEF Revalidate, OthersRest, TargetInv, CleanersDomain, historyVars
      <4>2. /\ request'[c].item.id = request'[c].id /\ request'[c].item.kind = request'[c].kind
            /\ request'[c].kind # "image" => request'[c].refs = {request'[c].id}
        BY <4>1 DEF DeleteRequest
      <4>3. Granting(c)'
        BY <3>2, <4>1, <4>2 DEF ContractInv, Granting, Planning, Surveying
      <4> QED
        BY <2>1, <4>1, <4>3
    <3> QED
      BY <2>9, <3>1, <3>2 DEF Revalidate
  <2>10. CASE EngineAnswers(c)
    <3> DEFINE Answered(r, reply) ==
                 /\ docker' = reply.docker
                 /\ removed' = removed \cup Vanished(r, reply.docker)
                 /\ IF reply.answer = "removed" /\ request[c].refs # {r.ref}
                    THEN /\ request' = [request EXCEPT ![c].refs = @ \ {r.ref}]
                         /\ UNCHANGED <<pc, plan, queue, guard, view, report>>
                    ELSE Settle(c, StatusOf(reply.answer))
    <3>0. PICK r \in Sent(c) : \E reply \in Effects(r) : Answered(r, reply)
      BY <2>10 DEF EngineAnswers
    <3>1. PICK reply \in Effects(r) : Answered(r, reply)
      BY <3>0
    <3>2. /\ pc[c] = "deleting" /\ stray' = {} /\ r.id \in Ids /\ r.id = Head(queue[c]).id
          /\ r.id = request[c].id /\ r.ref \in request[c].refs
      BY <1>0, <2>10, SentIs DEF EngineAnswers, ContractInv
    <3>3. \A k \in Cleaners : \A i : [by |-> k, id |-> i] \in removed' =>
             \/ [by |-> k, id |-> i] \in removed
             \/ k = c /\ i = r.id /\ docker[r.id] # None /\ docker' = Gone(r.id)
      <4>1. \/ Vanished(r, docker') = {}
            \/ /\ docker[r.id] # None /\ docker' = Gone(r.id)
               /\ Vanished(r, docker') = {[by |-> c, id |-> r.id]}
        BY <3>1, <3>2, AnswerTakesOne
      <4>2. removed' = removed \cup Vanished(r, docker')
        BY <3>1
      <4> QED
        BY <4>1, <4>2
    <3>4. CASE reply.answer = "removed" /\ request[c].refs # {r.ref}
      <4>1. /\ OthersRest(c) /\ UNCHANGED <<pc, plan, queue>>
            /\ {"item", "refs", "id", "kind"} \subseteq DOMAIN request[c]
        BY <1>0, <3>1, <3>2, <3>4 DEF OthersRest, TargetInv, CleanersDomain, Accounts,
                                      ContractInv, RequestInv
      <4>2. /\ request'[c].kind = request[c].kind /\ request'[c].id = request[c].id
            /\ request'[c].item = request[c].item
        BY <1>0, <3>1, <3>4, <4>1 DEF TargetInv, CleanersDomain
      <4>3. request[c].kind = "image"
        BY <3>2, <3>4 DEF ContractInv, Granting
      <4>4. \A i \in IdsOf(ToSet(queue[c])) : [by |-> c, id |-> i] \in removed' =>
               i = r.id /\ ~IsImage(i)'
        <5>1. ASSUME NEW i \in IdsOf(ToSet(queue[c])), [by |-> c, id |-> i] \in removed
              PROVE  i = r.id /\ ~IsImage(i)'
          BY <1>1, <3>2, <5>1 DEF ContractInv, Granting, ImagesShrink
        <5>2. docker' = Gone(r.id) => ~IsImage(r.id)'
          BY <1>0, <3>2 DEF Gone, IsImage, TargetInv, EngineInv
        <5> QED
          BY <3>3, <5>1, <5>2
      <4>5. Granting(c)'
        BY <3>2, <4>1, <4>2, <4>3, <4>4 DEF ContractInv, Granting, Planning, Surveying
      <4> QED
        BY <1>1, <3>2, <3>3, <4>1, <4>5, GrantingFrame
    <3>5. CASE Settle(c, StatusOf(reply.answer))
      <4>1. OthersRest(c)
        BY <1>0, <3>2, <3>5, SettleAccounts DEF Busy
      <4>2. Granting(c)'
        BY <3>2, <3>3, <3>5, SettleGrants DEF Busy
      <4> QED
        BY <1>1, <3>2, <3>3, <4>1, <4>2, GrantingFrame
    <3> QED
      BY <3>1, <3>4, <3>5
  <2> QED
    BY <1>0, <1>5, <2>4, <2>5, <2>6, <2>7, <2>8, <2>9, <2>10, <2>11
    DEF PlanStep, CleanerStep, LoseAnswer, Crash
<1> QED
  BY <1>3, <1>4, <1>5 DEF Next

\* Whether c has made its plan.
Planned(c) == pc[c] \notin {"idle"} \cup Planning

\* The other passes keep their plans, their grants and what they must spare.
LEMMA OthersGrants ==
  ASSUME NEW c \in Cleaners, OthersRest(c),
         \A k \in Cleaners \ {c} : guard'[k] = guard[k],
         \A k \in Cleaners \ {c} : \A i \in Ids :
           [by |-> k, id |-> i] \in removed' <=> [by |-> k, id |-> i] \in removed,
         \A k \in Cleaners : \A t \in ToSet(queue[k]) : t.id \in Ids
  PROVE  /\ \A k \in Cleaners \ {c} : Grants(k)' = Grants(k) /\ Spared(k)' = Spared(k)
         /\ [k \in Cleaners |-> Grants(k)'] = [[k \in Cleaners |-> Grants(k)] EXCEPT ![c] = Grants(c)']
         /\ [k \in Cleaners |-> Spared(k)'] = [[k \in Cleaners |-> Spared(k)] EXCEPT ![c] = Spared(c)']
         /\ \A k \in Cleaners \ {c} : Planned(k)' = Planned(k)
<1>1. ASSUME NEW k \in Cleaners, k # c
      PROVE  Grants(k)' = Grants(k)
  <2>1. queue'[k] = queue[k] /\ \A i \in IdsOf(ToSet(queue[k])) : i \in Ids
    BY <1>1 DEF OthersRest, IdsOf
  <2> QED
    BY <1>1, <2>1 DEF Grants
<1>2. \A k \in Cleaners \ {c} : Spared(k)' = Spared(k)
  BY DEF OthersRest, Spared, NamedBy
<1>3. \A k \in Cleaners \ {c} : Planned(k)' = Planned(k)
  BY DEF OthersRest, Planned
<1>4. [k \in Cleaners |-> Grants(k)'] = [[k \in Cleaners |-> Grants(k)] EXCEPT ![c] = Grants(c)']
  BY <1>1
<1>5. [k \in Cleaners |-> Spared(k)'] = [[k \in Cleaners |-> Spared(k)] EXCEPT ![c] = Spared(c)']
  BY <1>2
<1> QED
  BY <1>1, <1>2, <1>3, <1>4, <1>5

\* Targets have ids of the engine.
LEMMA QueuedIds ==
  ASSUME TargetInv
  PROVE  \A k \in Cleaners : \A t \in ToSet(queue[k]) : t.id \in Ids
  BY DEF TargetInv, Accounts, ToSet

\* A cleaner reads entries for itself only.
LEMMA OthersGuards ==
  ASSUME GuardInv, NEW c \in Cleaners, PlanStep(c) \/ CleanerStep(c) \/ Crash(c)
  PROVE  DOMAIN guard' = Cleaners /\ \A k \in Cleaners \ {c} : guard'[k] = guard[k]
<1>1. guard' = guard \/ \E entries : guard' = [guard EXCEPT ![c] = entries]
  <2>1. CASE PlanStep(c)
    BY <2>1 DEF PlanStep, LoadConfig, ReadProtection, Prepare, PlanningFails
  <2>2. CASE CleanerStep(c) \/ Crash(c)
    BY <2>2 DEF CleanerStep, Crash, LockTarget, AbortPass, FinishPass, ReloadConfig,
       ListContainers, ListOthers, InspectContainers, ReadBuildCache, InventoryFails,
       Revalidate, EngineAnswers, LoseAnswer, Settle
  <2> QED
    BY <2>1, <2>2
<1> QED
  BY <1>1 DEF GuardInv

\* A step that removes nothing, and after which c is granted no more than before,
\* is for the contract a cleaner that gives up some of its grants.
LEMMA GivesUp ==
  ASSUME ContractInv, NEW c \in Cleaners, OthersRest(c),
         \A k \in Cleaners \ {c} : guard'[k] = guard[k],
         protection' = protection, removed' = removed, DOMAIN docker' = Ids,
         \A i \in Ids : /\ docker'[i] = None <=> docker[i] = None
                        /\ docker[i] # None => docker'[i].kind = docker[i].kind,
         Planned(c)' = Planned(c), Spared(c)' = Spared(c),
         IdsOf(ToSet(queue'[c])) \subseteq IdsOf(ToSet(queue[c]))
  PROVE  Contract!GiveUp(c)
<1>1. Grants(c)' \in SUBSET Grants(c)
  BY DEF Grants
<1>2. /\ [k \in Cleaners |-> Grants(k)'] = [[k \in Cleaners |-> Grants(k)] EXCEPT ![c] = Grants(c)']
      /\ \A k \in Cleaners : Spared(k)' = Spared(k)
      /\ \A k \in Cleaners : Planned(k)' = Planned(k)
  BY OthersGrants, QueuedIds DEF ContractInv, ReportInv
<1>3. [k \in Cleaners |-> Spared(k)'] = [k \in Cleaners |-> Spared(k)]
  BY <1>2
<1>4. /\ {k \in Cleaners : pc'[k] \notin {"idle"} \cup Planning} = {k \in Cleaners : pc[k] \notin {"idle"} \cup Planning}
      /\ {i \in Ids : docker'[i] # None} = {i \in Ids : docker[i] # None}
      /\ Shield' = Shield
  BY <1>2 DEF Planned, Shield
<1> QED
  BY <1>1, <1>2, <1>3, <1>4 DEF Contract!GiveUp

\* The engine's removal of the requested object is for the contract the deletion
\* of a granted one, which no entry of the protection file names.
LEMMA Deletes ==
  ASSUME ContractInv, NEW c \in Cleaners, pc[c] = "deleting", OthersRest(c),
         NEW id, id = request[c].id, docker[id] # None, docker' = Gone(id),
         \A k \in Cleaners \ {c} : guard'[k] = guard[k],
         protection' = protection, removed' = removed \cup {[by |-> c, id |-> id]},
         pc'[c] \in {"next", "deleting"},
         IdsOf(ToSet(queue'[c])) \cup {id} = IdsOf(ToSet(queue[c]))
  PROVE  Contract!Delete(c, id) /\ id \in Ids /\ id \notin Shield
<1>1. EngineInv /\ id = Head(queue[c]).id /\ queue[c] \in Seq(plan[c].targets) /\ queue[c] # <<>>
      /\ request[c].kind = Head(queue[c]).kind /\ \A t \in plan[c].targets : t.id \in Ids
  BY DEF ContractInv, ReportInv, TargetInv, Accounts, Busy
<1>2. PICK t \in plan[c].targets : t = Head(queue[c])
  BY <1>1, HeadTailProperties
<1>3. id \in Ids /\ docker[id].id = id /\ Genuine(docker[id])
  BY <1>1, <1>2 DEF EngineInv
<1>4. docker[id].kind = request[c].kind
  BY <1>1, <1>2, <1>3, ObjectAssumption DEF ContractInv, Granting, Genuine
<1>5. id \notin Shield
  <2>1. /\ ~Protected(protection, request[c].item)
        /\ request[c].item.id = id /\ request[c].item.kind = docker[id].kind
    BY <1>4 DEF ContractInv, RequestInv, Granting
  <2>2. docker[id].kind # "label"
    BY <1>3 DEF Genuine, Kinds
  <2>3. [kind |-> docker[id].kind, value |-> id] \notin protection
    BY <2>1, <2>2 DEF Protected, EntryMatches
  <2> QED
    BY <2>3 DEF Shield
<1>6. id \in Grants(c)
  <2>1. id \in IdsOf(ToSet(queue[c]))
    OBVIOUS
  <2>2. request[c].kind = "image" => IsImage(id)
    BY <1>4 DEF IsImage
  <2> QED
    BY <2>1, <2>2 DEF Grants, ContractInv, Granting
<1>7. Grants(c)' = Grants(c) \ {id}
  BY DEF Grants
<1>8. /\ [k \in Cleaners |-> Grants(k)'] = [[k \in Cleaners |-> Grants(k)] EXCEPT ![c] = Grants(c)']
      /\ \A k \in Cleaners \ {c} : Spared(k)' = Spared(k)
      /\ \A k \in Cleaners \ {c} : Planned(k)' = Planned(k)
  <2>1. \A k \in Cleaners \ {c} : \A i \in Ids :
          [by |-> k, id |-> i] \in removed' <=> [by |-> k, id |-> i] \in removed
    OBVIOUS
  <2> QED
    BY <2>1, OthersGrants, QueuedIds DEF ContractInv, ReportInv
<1>9. [k \in Cleaners |-> Grants(k)'] = [[k \in Cleaners |-> Grants(k)] EXCEPT ![c] = @ \ {id}]
  BY <1>7, <1>8
<1>10. Spared(c)' = Spared(c) /\ Planned(c)' = Planned(c)
  BY DEF Spared, Planned, Planning, Surveying
<1>11. [k \in Cleaners |-> Spared(k)'] = [k \in Cleaners |-> Spared(k)]
  BY <1>8, <1>10
<1>12. /\ {k \in Cleaners : pc'[k] \notin {"idle"} \cup Planning} = {k \in Cleaners : pc[k] \notin {"idle"} \cup Planning}
       /\ {i \in Ids : docker'[i] # None} = {i \in Ids : docker[i] # None} \ {id}
       /\ Shield' = Shield \ {id}
  BY <1>1, <1>3, <1>8, <1>10 DEF Planned, Shield, Gone, EngineInv
<1> QED
  BY <1>3, <1>5, <1>6, <1>9, <1>11, <1>12 DEF Contract!Delete

\* What a plan takes its snapshot of includes what is shielded.
LEMMA TakesSnapshot ==
  ASSUME ContractInv, NEW c \in Cleaners, ReadProtection(c)
  PROVE  Contract!Snapshot(c)
<1>0. TargetInv /\ GuardInv
  BY DEF ContractInv, ReportInv, RequestInv
<1>1. /\ UNCHANGED <<docker, protection, queue, removed>> /\ pc[c] = "loaded" /\ pc'[c] = "snapped"
      /\ guard'[c] = protection /\ protection # Unreadable
  BY <1>0 DEF ReadProtection, TargetInv, CleanersDomain, GuardInv, engineVars, storeVars, historyVars
<1>2. /\ OthersRest(c) /\ \A k \in Cleaners \ {c} : guard'[k] = guard[k]
  BY <1>0, PlanningAccounts, OthersGuards DEF PlanStep
<1>3. /\ [k \in Cleaners |-> Spared(k)'] = [[k \in Cleaners |-> Spared(k)] EXCEPT ![c] = Spared(c)']
      /\ \A k \in Cleaners \ {c} : Grants(k)' = Grants(k)
      /\ \A k \in Cleaners \ {c} : Planned(k)' = Planned(k)
  BY <1>0, <1>1, <1>2, OthersGrants, QueuedIds
<1>4. Spared(c)' = NamedBy(protection)
  BY <1>1 DEF Spared, NamedBy, Surveying
<1>5. Shield \subseteq NamedBy(protection)
  <2> SUFFICES ASSUME NEW i \in Shield
               PROVE  \E o \in ObjectStates : o.id = i /\ [kind |-> o.kind, value |-> i] \in protection
    BY DEF Shield, NamedBy
  <2>1. i \in Ids /\ docker[i].id = i /\ Genuine(docker[i]) /\ [kind |-> docker[i].kind, value |-> i] \in protection
    BY <1>0 DEF Shield, TargetInv, EngineInv
  <2> QED
    BY <2>1 DEF Genuine
<1>6. \A k \in Cleaners : Grants(k)' = Grants(k)
  BY <1>1, <1>3 DEF Grants
<1>7. ~Planned(c) /\ ~Planned(c)'
  BY <1>1 DEF Planned, Planning, Surveying
<1>8. {k \in Cleaners : pc'[k] \notin {"idle"} \cup Planning} = {k \in Cleaners : pc[k] \notin {"idle"} \cup Planning}
  BY <1>3, <1>7 DEF Planned
<1>9. [k \in Cleaners |-> Grants(k)'] = [k \in Cleaners |-> Grants(k)]
  BY <1>6
<1>10. Shield' = Shield /\ {i \in Ids : docker'[i] # None} = {i \in Ids : docker[i] # None}
  BY <1>1 DEF Shield
<1>11. NamedBy(protection) \in SUBSET Ids
  BY DEF NamedBy
<1> QED
  BY <1>1, <1>3, <1>4, <1>5, <1>7, <1>8, <1>9, <1>10, <1>11 DEF Contract!Snapshot, Planned

\* A new plan takes its grants, which its snapshot did not name; one that fails
\* takes none.
LEMMA TakesGrants ==
  ASSUME ContractInv, NEW c \in Cleaners, Prepare(c) \/ PlanningFails(c)
  PROVE  Contract!Grant(c)
<1>0. TargetInv /\ GuardInv
  BY DEF ContractInv, ReportInv, RequestInv
<1>1. OthersRest(c) /\ Accounts(c)' /\ \A k \in Cleaners \ {c} : guard'[k] = guard[k]
  BY <1>0, PrepareAccounts, PlanningAccounts, OthersGuards DEF PlanStep
<1>2. /\ UNCHANGED <<docker, protection, removed>>
      /\ pc[c] \in {"idle", "loaded", "snapped", "surveyed", "collected"}
      /\ pc'[c] \in {"next", "failed"}
  BY <1>0 DEF Prepare, PlanningFails, TargetInv, CleanersDomain, engineVars, storeVars, historyVars
<1>3. Grants(c)' \in SUBSET (Ids \ Spared(c))
  <2>1. CASE Prepare(c)
    <3>1. pc[c] = "collected"
      BY <2>1 DEF Prepare
    <3>2. PICK obs : plan'[c].targets = PlannedTargets(c, obs)
      BY <1>0, <2>1, PrepareAccounts
    <3>3. \A t \in plan'[c].targets :
            /\ t.id \in Ids /\ \E p \in ObjectStates : p.id = t.id /\ p.kind = t.kind
            /\ [kind |-> t.kind, value |-> t.id] \notin guard[c]
      BY <1>0, <3>1, <3>2, PlannedTargetsAre DEF TargetInv
    <3>4. ASSUME NEW t \in plan'[c].targets, t.id \in NamedBy(guard[c])
          PROVE  FALSE
      <4>1. PICK o \in ObjectStates : o.id = t.id /\ [kind |-> o.kind, value |-> t.id] \in guard[c]
        BY <3>4 DEF NamedBy
      <4>2. PICK p \in ObjectStates : p.id = t.id /\ p.kind = t.kind
        BY <3>3
      <4>3. o.kind = t.kind
        BY <4>1, <4>2, ObjectAssumption
      <4> QED
        BY <3>3, <4>1, <4>3
    <3>5. Spared(c) = NamedBy(guard[c])
      BY <3>1 DEF Spared, Surveying
    <3>6. \A i \in IdsOf(ToSet(queue'[c])) : \E t \in plan'[c].targets : t.id = i
      BY <1>1 DEF Accounts, IdsOf, ToSet
    <3> QED
      BY <3>3, <3>4, <3>5, <3>6 DEF Grants
  <2>2. CASE PlanningFails(c)
    <3>1. queue'[c] = <<>>
      BY <1>0, <2>2, PlanningAccounts
    <3> QED
      BY <3>1 DEF Grants, IdsOf, ToSet
  <2> QED
    BY <2>1, <2>2
<1>4. /\ [k \in Cleaners |-> Grants(k)'] = [[k \in Cleaners |-> Grants(k)] EXCEPT ![c] = Grants(c)']
      /\ [k \in Cleaners |-> Spared(k)'] = [[k \in Cleaners |-> Spared(k)] EXCEPT ![c] = Spared(c)']
      /\ \A k \in Cleaners \ {c} : Planned(k)' = Planned(k)
  BY <1>0, <1>1, <1>2, OthersGrants, QueuedIds
<1>5. Spared(c)' = Ids /\ ~Planned(c) /\ Planned(c)'
  BY <1>2 DEF Spared, Planned, Planning, Surveying
<1>6. {k \in Cleaners : pc'[k] \notin {"idle"} \cup Planning} = {k \in Cleaners : pc[k] \notin {"idle"} \cup Planning} \cup {c}
  BY <1>4, <1>5 DEF Planned
<1>7. Shield' = Shield /\ {i \in Ids : docker'[i] # None} = {i \in Ids : docker[i] # None}
  BY <1>2 DEF Shield
<1> QED
  BY <1>2, <1>3, <1>4, <1>5, <1>6, <1>7 DEF Contract!Grant, Planned

\* The removals a step makes spare what the protection file names.
SparesShield == \A x \in removed' \ removed : x.id \notin Shield

\* Every step is one of the contract's.
LEMMA StepOfContract ==
  ASSUME Undisturbed, ContractInv, [Next]_vars
  PROVE  [Contract!Next]_(Contract!vars) /\ SparesShield
<1>0. TargetInv /\ EngineInv /\ GuardInv /\ ~Lossy
  BY DEF Undisturbed, ContractInv, ReportInv, RequestInv, TargetInv
<1>1. DOMAIN docker' = Ids
  BY <1>0, TargetInvStep DEF TargetInv, EngineInv
<1>2. CASE UNCHANGED <<pc, queue, guard, removed>>
  <2>1. Contract!World
    BY <1>2 DEF Contract!World, Shield, Grants, Spared
  <2> QED
    BY <1>2, <2>1 DEF Contract!Next, SparesShield
<1>3. CASE EditProtection \/ EngineChanges \/ Tick \/ EditConfig \/ UNCHANGED vars
  BY <1>2, <1>3 DEF EditProtection, EngineChanges, Tick, EditConfig, vars, cleanerVars, historyVars
<1>4. ~StrayTakesEffect
  BY DEF StrayTakesEffect, ContractInv
<1>5. ASSUME NEW c \in Cleaners, PlanStep(c) \/ CleanerStep(c) \/ Crash(c)
      PROVE  (\/ Contract!Snapshot(c) \/ Contract!Grant(c) \/ Contract!GiveUp(c)
              \/ \E i \in Ids : Contract!Delete(c, i)
              \/ UNCHANGED <<pc, queue, guard, removed>>) /\ SparesShield
  <2>0. \A k \in Cleaners \ {c} : guard'[k] = guard[k]
    BY <1>0, <1>5, OthersGuards
  <2>1. CASE Prepare(c) \/ PlanningFails(c)
    BY <2>1, TakesGrants DEF Prepare, PlanningFails, historyVars, SparesShield
  <2>11. CASE ReadProtection(c)
    BY <2>11, TakesSnapshot DEF ReadProtection, historyVars, SparesShield
  <2>2. CASE ListContainers(c) \/ ListOthers(c)
    BY <2>2 DEF ListContainers, ListOthers, historyVars, SparesShield
  <2>3. ASSUME UNCHANGED <<docker, protection, queue, removed>>, OthersRest(c),
               Planned(c)' = Planned(c), Spared(c)' = Spared(c)
        PROVE  Contract!GiveUp(c) /\ SparesShield
    BY <1>1, <2>0, <2>3, GivesUp DEF SparesShield
  <2>12. CASE LoadConfig(c)
    <3>1. UNCHANGED <<docker, protection, queue, removed>> /\ pc[c] = "idle" /\ pc'[c] = "loaded"
      BY <1>0, <2>12 DEF LoadConfig, storeVars, engineVars, historyVars, TargetInv, CleanersDomain
    <3>2. OthersRest(c)
      BY <1>0, <2>12, PlanningAccounts
    <3>3. Planned(c)' = Planned(c) /\ Spared(c)' = Spared(c)
      BY <3>1 DEF Planned, Spared, Planning, Surveying
    <3> QED
      BY <2>3, <3>1, <3>2, <3>3
  <2>4. CASE \/ LockTarget(c) \/ FinishPass(c) \/ AbortPass(c)
             \/ InspectContainers(c) \/ ReadBuildCache(c)
    <3>1. UNCHANGED <<docker, protection, queue, removed>>
      BY <2>4 DEF LockTarget, FinishPass, AbortPass, InspectContainers, ReadBuildCache,
                  LockShared, storeVars, engineVars, historyVars
    <3>2. OthersRest(c)
      BY <1>0, <2>4 DEF LockTarget, FinishPass, AbortPass, InspectContainers, ReadBuildCache,
                        OthersRest, TargetInv, CleanersDomain
    <3>3. \/ pc[c] \notin {"idle"} \cup Planning /\ pc'[c] \notin {"idle"} \cup Planning
          \/ pc[c] \in Surveying /\ pc'[c] \in Surveying /\ guard' = guard
      BY <1>0, <2>4 DEF LockTarget, FinishPass, AbortPass, InspectContainers, ReadBuildCache,
                        TargetInv, CleanersDomain, Planning, Surveying
    <3>4. Planned(c)' = Planned(c) /\ Spared(c)' = Spared(c)
      BY <3>3 DEF Planned, Spared, NamedBy, Planning
    <3> QED
      BY <2>3, <3>1, <3>2, <3>4
  <2>5. ASSUME NEW status, Settle(c, status), pc[c] \in Busy
        PROVE  /\ OthersRest(c) /\ protection' = protection /\ pc'[c] = "next"
               /\ Planned(c)' = Planned(c) /\ Spared(c)' = Spared(c)
               /\ IdsOf(ToSet(queue'[c])) = IdsOf(ToSet(queue[c])) \ {Head(queue[c]).id}
               /\ Head(queue[c]).id \in IdsOf(ToSet(queue[c]))
    <3>1. queue[c] \in Seq(plan[c].targets) /\ OnceEach(queue[c]) /\ queue[c] # <<>>
      BY <1>0, <2>5 DEF TargetInv, Accounts
    <3>2. queue'[c] = Tail(queue[c]) /\ pc'[c] = "next" /\ protection' = protection
      BY <1>0, <2>5 DEF Settle, Unlock, TargetInv, CleanersDomain
    <3>3. Planned(c)' = Planned(c) /\ Spared(c)' = Spared(c)
      BY <2>5, <3>2 DEF Planned, Spared, Busy, Planning, Surveying
    <3> QED
      BY <1>0, <2>5, <3>1, <3>2, <3>3, SettleAccounts, TailLosesHead DEF Busy
  <2>6. ASSUME NEW status, Settle(c, status), pc[c] \in Busy, UNCHANGED <<docker, removed>>
        PROVE  Contract!GiveUp(c) /\ SparesShield
    BY <1>1, <2>0, <2>5, <2>6, GivesUp DEF SparesShield
  <2>7. CASE ReloadConfig(c)
    <3>1. CASE Settle(c, "skipped")
      BY <2>6, <2>7, <3>1 DEF ReloadConfig, Busy, engineVars, historyVars
    <3>2. CASE ~Settle(c, "skipped")
      <4>1. /\ OthersRest(c) /\ pc[c] \in {"guarded", "listed"}
            /\ pc'[c] \in {"listing", "deleting"}
        BY <1>0, <2>7, <3>2 DEF ReloadConfig, OthersRest, TargetInv, CleanersDomain
      <4>2. Planned(c)' = Planned(c) /\ Spared(c)' = Spared(c)
        BY <4>1 DEF Planned, Spared, Planning, Surveying
      <4> QED
        BY <2>3, <2>7, <3>2, <4>1, <4>2 DEF ReloadConfig, storeVars, engineVars, historyVars
    <3> QED
      BY <3>1, <3>2
  <2>8. CASE InventoryFails(c)
    BY <2>6, <2>8 DEF InventoryFails, Busy, engineVars, historyVars
  <2>9. CASE Revalidate(c)
    <3>1. CASE Settle(c, "skipped")
      BY <2>6, <2>9, <3>1 DEF Revalidate, Busy, engineVars, historyVars
    <3>2. CASE ~Settle(c, "skipped")
      <4>1. /\ OthersRest(c) /\ pc[c] \in {"guarded", "listed"}
            /\ pc'[c] \in {"listing", "deleting"}
        BY <1>0, <2>9, <3>2 DEF Revalidate, OthersRest, TargetInv, CleanersDomain
      <4>2. Planned(c)' = Planned(c) /\ Spared(c)' = Spared(c)
        BY <4>1 DEF Planned, Spared, Planning, Surveying
      <4> QED
        BY <2>3, <2>9, <3>2, <4>1, <4>2 DEF Revalidate, storeVars, engineVars, historyVars
    <3> QED
      BY <3>1, <3>2
  <2>10. CASE EngineAnswers(c)
    <3> DEFINE Answered(r, reply) ==
                 /\ docker' = reply.docker
                 /\ removed' = removed \cup Vanished(r, reply.docker)
                 /\ IF reply.answer = "removed" /\ request[c].refs # {r.ref}
                    THEN /\ request' = [request EXCEPT ![c].refs = @ \ {r.ref}]
                         /\ UNCHANGED <<storeVars, pc, plan, queue, guard, view, report>>
                    ELSE Settle(c, StatusOf(reply.answer))
    <3>0. PICK r \in Sent(c) : \E reply \in Effects(r) : Answered(r, reply)
      BY <2>10 DEF EngineAnswers
    <3>1. PICK reply \in Effects(r) : Answered(r, reply)
      BY <3>0
    <3>2. /\ pc[c] = "deleting" /\ r.id \in Ids /\ r.id = Head(queue[c]).id /\ r.id = request[c].id
      BY <1>0, <2>10, SentIs DEF EngineAnswers
    <3>3. /\ OthersRest(c) /\ protection' = protection /\ pc'[c] \in {"next", "deleting"}
          /\ Planned(c)' = Planned(c) /\ Spared(c)' = Spared(c)
          /\ IdsOf(ToSet(queue'[c])) \subseteq IdsOf(ToSet(queue[c]))
          /\ IdsOf(ToSet(queue'[c])) \cup {r.id} = IdsOf(ToSet(queue[c]))
      <4>1. CASE Settle(c, StatusOf(reply.answer))
        BY <2>5, <3>2, <4>1 DEF Busy
      <4>2. CASE /\ request' = [request EXCEPT ![c].refs = @ \ {r.ref}]
                 /\ UNCHANGED <<storeVars, pc, plan, queue, guard, view, report>>
        <5>1. queue[c] \in Seq(plan[c].targets) /\ OnceEach(queue[c]) /\ queue[c] # <<>>
          BY <1>0, <3>2 DEF TargetInv, Accounts, Busy
        <5>2. r.id \in IdsOf(ToSet(queue[c]))
          BY <3>2, <5>1, TailLosesHead
        <5>3. Planned(c)' = Planned(c) /\ Spared(c)' = Spared(c)
          BY <3>2, <4>2 DEF Planned, Spared, NamedBy, Planning, Surveying
        <5> QED
          BY <1>0, <3>2, <4>2, <5>2, <5>3 DEF OthersRest, TargetInv, CleanersDomain, storeVars
      <4> QED
        BY <3>1, <4>1, <4>2
    <3>4. CASE /\ \A i \in Ids : /\ docker'[i] = None <=> docker[i] = None
                                 /\ docker[i] # None => docker'[i].kind = docker[i].kind
               /\ Vanished(r, docker') = {}
      <4>1. removed' = removed
        BY <3>1, <3>4
      <4>2. Contract!GiveUp(c)
        BY <1>1, <2>0, <3>2, <3>3, <3>4, <4>1, GivesUp
      <4> QED
        BY <4>1, <4>2 DEF SparesShield
    <3>5. CASE /\ docker[r.id] # None /\ docker' = Gone(r.id)
               /\ Vanished(r, docker') = {[by |-> c, id |-> r.id]}
      <4>1. removed' = removed \cup {[by |-> c, id |-> r.id]}
        BY <3>1, <3>5
      <4>2. Contract!Delete(c, r.id) /\ r.id \notin Shield
        BY <2>0, <3>2, <3>3, <3>5, <4>1, Deletes
      <4> QED
        BY <3>2, <4>1, <4>2 DEF SparesShield
    <3> QED
      BY <3>1, <3>2, <3>4, <3>5, AnswerTakesOne
  <2> QED
    BY <1>0, <1>5, <2>1, <2>2, <2>4, <2>7, <2>8, <2>9, <2>10, <2>11, <2>12
    DEF PlanStep, CleanerStep, LoseAnswer, Crash
<1> QED
  <2>1. ASSUME NEW c \in Cleaners, PlanStep(c) \/ CleanerStep(c) \/ Crash(c)
        PROVE  [Contract!Next]_(Contract!vars) /\ SparesShield
    BY <1>2, <1>5, <2>1 DEF Contract!Next
  <2> QED
    BY <1>3, <1>2, <1>4, <2>1 DEF Next

\* Execution implements the contract: whatever editors, clients, clocks and the
\* other cleaners do meanwhile, a plan grants nothing that its snapshot of the
\* protection file named, an entry added while its inventory is awaited may come
\* too late for the grants, and an answered pass removes only what was granted to
\* it, each grant once, and never what the file names when it is removed.
THEOREM ExecutorImplementsContract ==
  ASSUME Undisturbed
  PROVE  Spec => ImplementsContract
<1>1. Init => Contract!Init
  <2> SUFFICES ASSUME Init
               PROVE  Contract!Init
    OBVIOUS
  <2>1. \A c \in Cleaners : pc[c] = "idle" /\ queue[c] = <<>>
    BY DEF Init
  <2>2. \A c \in Cleaners : Grants(c) = {}
    BY <2>1 DEF Grants, IdsOf, ToSet
  <2> QED
    BY <2>1, <2>2 DEF Init, Contract!Init, Shield, Spared, Planning, Surveying
<1>2. ContractInv /\ [Next]_vars => ContractInv'
  BY ContractInvStep
<1>3. ContractInv /\ [Next]_vars => [Contract!Next]_(Contract!vars)
  BY StepOfContract
<1> QED
  BY <1>1, <1>2, <1>3, ContractInvInit, PTL DEF Spec, ImplementsContract, Contract!Spec

\* A completed protection update never races a deletion whose answer is awaited:
\* in the very step that removes it, no entry of the file names the object.
THEOREM NeverRemovesProtected ==
  ASSUME Undisturbed
  PROVE  Spec => NoProtectedRemoval
<1>1. ContractInv /\ [Next]_vars => ContractInv'
  BY ContractInvStep
<1>2. ContractInv /\ [Next]_vars => [\A x \in removed' \ removed : x.id \notin Shield]_vars
  BY StepOfContract DEF SparesShield
<1> QED
  BY <1>1, <1>2, ContractInvInit, PTL DEF Spec, NoProtectedRemoval

=============================================================================
