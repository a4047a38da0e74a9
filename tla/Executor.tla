------------------------------- MODULE Executor -------------------------------
(***************************************************************************)
(* Applying a cleanup plan (execute_plan in src/src/executor.rs) against   *)
(* an engine, a configuration file and a protection file that other        *)
(* processes change at the same time.                                      *)
(*                                                                         *)
(* A cleaner is one `clean --apply` or daemon pass, or one confirmed plan  *)
(* of the TUI.  It plans once, without a lock: load the configuration,     *)
(* take a snapshot of the protection file, list the resources and decide.  *)
(* Then it handles its targets one by one: lock the protection file,       *)
(* reload the configuration, list the resources again, rebuild the plan,   *)
(* send the delete request and wait for the answer; the lock is dropped    *)
(* when the target has its outcome.                                        *)
(*                                                                         *)
(* The engine is external.  Its reaction to a request is what the code     *)
(* relies on: it refuses to remove what is in use, answers "missing" for   *)
(* what is gone, and removes an image when its last tag goes.              *)
(***************************************************************************)
EXTENDS ProtectionStore, Policy

CONSTANTS
  Ids,          \* identities a request can name
  Objects,      \* the states others may put an engine object in
  InitDocker,   \* engine contents at the start
  Configs,      \* valid configuration files (contents and parsed policy)
  Broken,       \* a configuration file that does not load
  Histories,    \* observation records an earlier pass may have left
  MaxClock,     \* bound on the clock
  EngineMay,    \* what happens to the engine: a subset of EngineEvents
  Lossy         \* may a process stop waiting for an answer, or die

Cleaners == Readers
EngineEvents == {"change", "vanish", "fail", "overprune"}

ASSUME ExecutorAssumption ==
  /\ MaxClock \in Nat
  /\ Lossy \in BOOLEAN
  /\ EngineMay \subseteq EngineEvents
  /\ Broken \notin Configs
  /\ None \notin Objects
  /\ \A o \in Objects : o.id \in Ids /\ o.kind \in Kinds
  /\ \A contents \in InitDocker :
       /\ DOMAIN contents = Ids
       /\ \A i \in Ids : contents[i] # None => contents[i].id = i /\ contents[i].kind \in Kinds

\* Every state an object can be given from outside.
ObjectStates ==
  Objects \cup {o \in UNION {{contents[i] : i \in Ids} : contents \in InitDocker} : o # None}

\* No two images share a name.
TagsUnique(contents) ==
  \A i, j \in Ids :
    (i # j /\ contents[i] # None /\ contents[j] # None
           /\ contents[i].kind = "image" /\ contents[j].kind = "image")
      => contents[i].names \cap contents[j].names = {}

\* The tags of images.
Tags == UNION {o.names \ {o.id} : o \in {p \in ObjectStates : p.kind = "image"}}

\* The engine has finitely many objects.  An identity belongs to one kind, and
\* an image can be named by its id.  Tags are ordered as strings are.
ASSUME ObjectAssumption ==
  /\ IsFiniteSet(Ids)
  /\ \A t \in Tags : Rank[t] \in Int
  /\ \A s, t \in Tags : Rank[s] = Rank[t] => s = t
  /\ \A o, p \in ObjectStates : o.id = p.id => o.kind = p.kind
  /\ \A o \in ObjectStates :
       /\ {"id", "kind", "names"} \subseteq DOMAIN o
       /\ o.kind = "image" => o.id \in o.names
       /\ \A names \in SUBSET o.names : [o EXCEPT !.names = names] # None
  /\ \A contents \in InitDocker : TagsUnique(contents)

VARIABLES
  docker,     \* [Ids -> the object with that id, or None]
  clock,      \* seconds
  config,     \* contents of the configuration file
  pc,         \* [Cleaners -> where the pass stands]
  plan,       \* [Cleaners -> the immutable plan: its configuration, its
              \*  observations and its removal targets]
  queue,      \* [Cleaners -> the targets still to be handled, in order]
  guard,      \* [Cleaners -> the protection entries it decides with: the
              \*  snapshot while it plans, later those read under the guard]
  view,       \* [Cleaners -> what the engine answered to its inventory]
  request,    \* [Cleaners -> the delete in progress, or None]
  report,     \* [Cleaners -> the outcomes execute_plan will return]
  stray,      \* requests whose sender no longer waits for the answer
  removed     \* history: objects the engine removed on a cleaner's request

engineVars  == <<docker, clock, config>>
cleanerVars == <<pc, plan, queue, guard, view, request, report>>
historyVars == <<stray, removed>>
vars == <<storeVars, engineVars, cleanerVars, historyVars>>

-----------------------------------------------------------------------------
(* The engine *)

Present == {docker[i] : i \in {j \in Ids : docker[j] # None}}

ContainersIn(objects) == {o \in objects : o.kind = "container"}

UsedBy(containers) == UNION {c.uses : c \in containers}

CacheIn(objects) == {o \in objects : o.kind = "build-cache"}

OthersIn(objects) == objects \ (ContainersIn(objects) \cup CacheIn(objects))

\* Containers name the networks they are attached to; images and volumes they
\* reference by identity.
ReferenceKey(object) == IF object.kind = "network" THEN object.name ELSE object.id

\* An inventory item is an engine object seen with the references of the
\* container list that was read beside it; an image without tags is dangling.
Item(object, listed) ==
  [object EXCEPT !.referenced = @ \/ ReferenceKey(object) \in UsedBy(listed),
                 !.dangling = object.kind = "image" /\ object.names = {object.id}]

\* Inspection gives each listed container its state as of now and drops the
\* ones that are gone; it happens only when a rule needs container states.
NeedsContainerState(cfg) ==
  \E n \in DOMAIN cfg.rules["container"] :
    \/ cfg.rules["container"][n].running_ttl # None
    \/ cfg.rules["container"][n].stopped_ttl # None

Inspected(cfg, listed) ==
  IF ~NeedsContainerState(cfg) THEN listed
  ELSE {[o EXCEPT !.state = docker[o.id].state, !.since = docker[o.id].since] :
          o \in {p \in listed : docker[p.id] # None}}

Inventory(listed, containers, others, cache) ==
  containers \cup {Item(o, listed) : o \in others} \cup cache

\* Build-cache records are read only for a configuration with a cache rule.
CacheRecords(cfg) == IF cfg.cache = None THEN {} ELSE CacheIn(Present)

InUse(object) == ReferenceKey(object) \in UsedBy(ContainersIn(Present))

Gone(id) == [docker EXCEPT ![id] = None]

Reply(answer, contents) == [answer |-> answer, docker |-> contents]

RemoveContainer(r) ==
  IF docker[r.id] = None THEN Reply("missing", docker)
  ELSE IF docker[r.id].state = "running" /\ ~r.force THEN Reply("refused", docker)
  ELSE Reply("removed", Gone(r.id))

\* Volumes and networks are not forced: the engine's own check is the last barrier.
RemoveUnused(r) ==
  IF docker[r.id] = None THEN Reply("missing", docker)
  ELSE IF InUse(docker[r.id]) THEN Reply("refused", docker)
  ELSE Reply("removed", Gone(r.id))

\* An image is removed by name: while another tag is left, only the tag goes.
\* By its id it is removed when at most one tag names it.
RemoveImageName(r) ==
  LET owners == {o \in Present : o.kind = "image" /\ r.ref \in o.names}
      image  == CHOOSE o \in owners : TRUE
      tags   == image.names \ {image.id}
  IN  IF owners = {} THEN Reply("missing", docker)
      ELSE IF r.ref \in tags /\ tags # {r.ref}
           THEN Reply("removed", [docker EXCEPT ![image.id].names = @ \ {r.ref}])
      ELSE IF InUse(image) \/ Cardinality(tags) > 1 THEN Reply("refused", docker)
      ELSE Reply("removed", Gone(image.id))

\* A prune filtered by one id removes that record or nothing; an engine that
\* does not know the filter removes another record as well.
PruneRecord(r) ==
  IF docker[r.id] = None THEN Reply("pruned nothing", docker)
  ELSE IF docker[r.id].referenced THEN Reply("pruned nothing", docker)
  ELSE Reply("removed", Gone(r.id))

PruneTooMuch(r) ==
  {Reply("unexpected", [Gone(r.id) EXCEPT ![o.id] = None]) :
     o \in {p \in Present : p.kind = "build-cache" /\ p.id # r.id /\ ~p.referenced}}

Effects(r) ==
  (IF "fail" \in EngineMay THEN {Reply("error", docker)} ELSE {})
  \cup
  CASE r.kind = "container"   -> {RemoveContainer(r)}
    [] r.kind = "image"       -> {RemoveImageName(r)}
    [] r.kind = "build-cache" ->
         {PruneRecord(r)} \cup IF "overprune" \in EngineMay THEN PruneTooMuch(r) ELSE {}
    [] OTHER                  -> {RemoveUnused(r)}

\* The engine's owner starts, stops, renames, attaches, retags or recreates
\* objects, or removes them.
EngineChanges ==
  /\ \/ "change" \in EngineMay /\ \E o \in Objects : docker' = [docker EXCEPT ![o.id] = o]
     \/ "vanish" \in EngineMay /\ \E i \in Ids : docker' = Gone(i)
  /\ TagsUnique(docker')
  /\ UNCHANGED <<storeVars, clock, config, cleanerVars, historyVars>>

Tick ==
  /\ clock < MaxClock
  /\ clock' = clock + 1
  /\ UNCHANGED <<storeVars, docker, config, cleanerVars, historyVars>>

\* Someone edits or breaks the configuration file.
EditConfig ==
  /\ config' \in Configs \cup {Broken}
  /\ UNCHANGED <<storeVars, docker, clock, cleanerVars, historyVars>>

-----------------------------------------------------------------------------
(* The cleaner *)

\* The steps during which a cleaner holds the protection guard.
Busy == {"guarded", "listing", "inspected", "listed", "deleting"}

\* The steps in which a cleaner has its snapshot and waits for its inventory.
Surveying == {"snapped", "surveyed", "collected"}
Planning == {"loaded"} \cup Surveying

NoView == [listed |-> None, containers |-> None, others |-> None, cache |-> None]
NoPlan == [cfg |-> None, obs |-> {}, targets |-> {}]

Target(d) ==
  [kind |-> d.resource.kind, id |-> d.resource.id,
   disposition |-> d.disposition, rule |-> d.rule]

KindOrder == <<"container", "image", "volume", "network", "build-cache">>
KindRank(kind) == CHOOSE n \in DOMAIN KindOrder : KindOrder[n] = kind

\* ordered_removal_targets(): by kind, cache children before their parents,
\* then by name.  CachePass has the depth computation; here any order of the
\* records that puts a child first stands for it.
MustPrecede(a, b, inventory) ==
  \/ KindRank(a.kind) < KindRank(b.kind)
  \/ a.kind = "build-cache" /\ b.kind = "build-cache"
     /\ \E i \in inventory : i.id = a.id /\ b.id \in i.parents

Orders(targets, inventory) ==
  {s \in SetToSeqs(targets) :
     \A m, n \in DOMAIN s : m < n => ~MustPrecede(s[n], s[m], inventory)}

\* prepare_cleanup(): the configuration file is read first, then the protection
\* file, whose lock snapshot() drops before the inventory is awaited.
LoadConfig(c) ==
  /\ pc[c] = "idle"
  /\ config # Broken
  /\ plan' = [plan EXCEPT ![c].cfg = config]
  /\ pc' = [pc EXCEPT ![c] = "loaded"]
  /\ UNCHANGED <<storeVars, engineVars, queue, guard, view, request, report, historyVars>>

ReadProtection(c) ==
  /\ pc[c] = "loaded"
  /\ exclusive = Nobody
  /\ protection # Unreadable
  /\ guard' = [guard EXCEPT ![c] = protection]
  /\ pc' = [pc EXCEPT ![c] = "snapped"]
  /\ UNCHANGED <<storeVars, engineVars, plan, queue, view, request, report, historyVars>>

\* The inventory the last answers make.
Viewed(c) == Inventory(view[c].listed, view[c].containers, view[c].others, view[c].cache)

\* The inventory is in: its observations are folded and the plan is built.
Prepare(c) ==
  /\ pc[c] = "collected"
  /\ \E history \in Histories :
       LET obs     == Folded(history, Viewed(c), clock)
           targets == {Target(d) : d \in Removals(BuildPlan(plan[c].cfg, Viewed(c), clock, guard[c], obs))}
       IN  /\ plan' = [plan EXCEPT ![c].obs = obs, ![c].targets = targets]
           /\ \E order \in Orders(targets, Viewed(c)) : queue' = [queue EXCEPT ![c] = order]
  /\ guard' = [guard EXCEPT ![c] = {}]
  /\ view' = [view EXCEPT ![c] = NoView]
  /\ pc' = [pc EXCEPT ![c] = "next"]
  /\ UNCHANGED <<storeVars, engineVars, request, report, historyVars>>

\* A failure while it plans ends the command before it changed anything.
PlanningFails(c) ==
  /\ \/ pc[c] = "idle" /\ config = Broken
     \/ pc[c] = "loaded" /\ exclusive = Nobody /\ protection = Unreadable
     \/ pc[c] \in {"snapped", "surveyed"} /\ "fail" \in EngineMay
  /\ plan' = [plan EXCEPT ![c] = NoPlan]
  /\ guard' = [guard EXCEPT ![c] = {}]
  /\ view' = [view EXCEPT ![c] = NoView]
  /\ pc' = [pc EXCEPT ![c] = "failed"]
  /\ UNCHANGED <<storeVars, engineVars, queue, request, report, historyVars>>

\* Mutant: a failed target ends the loop.
SettleStopsOnFailure(c, status) ==
  /\ report' = [report EXCEPT ![c] = @ \cup {[id |-> Head(queue[c]).id, status |-> status]}]
  /\ queue' = [queue EXCEPT ![c] = IF status = "failed" THEN <<>> ELSE Tail(@)]
  /\ guard' = [guard EXCEPT ![c] = {}]
  /\ view' = [view EXCEPT ![c] = NoView]
  /\ request' = [request EXCEPT ![c] = None]
  /\ pc' = [pc EXCEPT ![c] = "next"]
  /\ Unlock(c)
  /\ UNCHANGED plan

\* The head of the queue has its outcome; the protection guard is dropped.
Settle(c, status) ==
  /\ report' = [report EXCEPT ![c] = @ \cup {[id |-> Head(queue[c]).id, status |-> status]}]
  /\ queue' = [queue EXCEPT ![c] = Tail(@)]
  /\ guard' = [guard EXCEPT ![c] = {}]
  /\ view' = [view EXCEPT ![c] = NoView]
  /\ request' = [request EXCEPT ![c] = None]
  /\ pc' = [pc EXCEPT ![c] = "next"]
  /\ Unlock(c)
  /\ UNCHANGED plan

\* Mutant: snapshot() instead of locked_snapshot(): read under the lock, not held.
LockTargetUnheld(c) ==
  /\ pc[c] = "next"
  /\ queue[c] # <<>>
  /\ exclusive = Nobody
  /\ protection # Unreadable
  /\ guard' = [guard EXCEPT ![c] = protection]
  /\ pc' = [pc EXCEPT ![c] = "guarded"]
  /\ UNCHANGED <<storeVars, engineVars, plan, queue, view, request, report, historyVars>>

LockTarget(c) ==
  /\ pc[c] = "next"
  /\ queue[c] # <<>>
  /\ LockShared(c)
  /\ guard' = [guard EXCEPT ![c] = protection]
  /\ pc' = [pc EXCEPT ![c] = "guarded"]
  /\ UNCHANGED <<engineVars, plan, queue, view, request, report, historyVars>>

\* Mutant: an unreadable protection file is tried again for ever.
AbortPassRetries(c) ==
  /\ pc[c] = "next"
  /\ queue[c] # <<>>
  /\ protection = Unreadable
  /\ UNCHANGED vars

\* locked_snapshot() fails and `?` leaves execute_plan: its report is lost.
AbortPass(c) ==
  /\ pc[c] = "next"
  /\ queue[c] # <<>>
  /\ exclusive = Nobody
  /\ protection = Unreadable
  /\ pc' = [pc EXCEPT ![c] = "failed"]
  /\ report' = [report EXCEPT ![c] = {}]
  /\ UNCHANGED <<storeVars, engineVars, plan, queue, guard, view, request, historyVars>>

FinishPass(c) ==
  /\ pc[c] = "next"
  /\ queue[c] = <<>>
  /\ pc' = [pc EXCEPT ![c] = "done"]
  /\ UNCHANGED <<storeVars, engineVars, plan, queue, guard, view, request, report, historyVars>>

\* revalidate(): the configuration must still be the file the plan was made of.
ReloadConfig(c) ==
  /\ pc[c] = "guarded"
  /\ \/ /\ config = plan[c].cfg
        /\ pc' = [pc EXCEPT ![c] = "listing"]
        /\ UNCHANGED <<storeVars, plan, queue, guard, view, request, report>>
     \/ /\ config # plan[c].cfg
        /\ Settle(c, "skipped")
  /\ UNCHANGED <<engineVars, historyVars>>

\* read_docker_lists(): the lists are requested together and may be taken at
\* different moments.  Planning and revalidation take the same inventory.
ListContainers(c) ==
  /\ pc[c] \in {"snapped", "listing"}
  /\ view[c].listed = None
  /\ view' = [view EXCEPT ![c].listed = ContainersIn(Present)]
  /\ UNCHANGED <<storeVars, engineVars, pc, plan, queue, guard, request, report, historyVars>>

ListOthers(c) ==
  /\ pc[c] \in {"snapped", "listing"}
  /\ view[c].others = None
  /\ view' = [view EXCEPT ![c].others = OthersIn(Present)]
  /\ UNCHANGED <<storeVars, engineVars, pc, plan, queue, guard, request, report, historyVars>>

\* inspect_container_states(), then read_build_cache(), once the lists are in.
InspectContainers(c) ==
  /\ pc[c] \in {"snapped", "listing"}
  /\ view[c].listed # None
  /\ view[c].others # None
  /\ view' = [view EXCEPT ![c].containers = Inspected(plan[c].cfg, view[c].listed)]
  /\ pc' = [pc EXCEPT ![c] = IF @ = "snapped" THEN "surveyed" ELSE "inspected"]
  /\ UNCHANGED <<storeVars, engineVars, plan, queue, guard, request, report, historyVars>>

ReadBuildCache(c) ==
  /\ pc[c] \in {"surveyed", "inspected"}
  /\ view' = [view EXCEPT ![c].cache = CacheRecords(plan[c].cfg)]
  /\ pc' = [pc EXCEPT ![c] = IF @ = "surveyed" THEN "collected" ELSE "listed"]
  /\ UNCHANGED <<storeVars, engineVars, plan, queue, guard, request, report, historyVars>>

InventoryFails(c) ==
  /\ pc[c] \in {"listing", "inspected"}
  /\ "fail" \in EngineMay
  /\ Settle(c, "skipped")
  /\ UNCHANGED <<engineVars, historyVars>>

\* The decisions of the rebuilt plan that still authorize target t.
StillAuthorized(t, decisions) ==
  {d \in decisions :
     /\ d.resource.kind = t.kind
     /\ d.resource.id = t.id
     /\ d.action = "remove"
     /\ d.disposition = t.disposition
     /\ d.rule = t.rule}

Revalidated(c) ==
  StillAuthorized(Head(queue[c]),
    BuildPlan(plan[c].cfg, Viewed(c), clock, guard[c], plan[c].obs))

\* image_removal_names(): every tag, or the id of a dangling image.
ImageRefs(item) ==
  IF item.names \ {item.id} = {} THEN {item.id} ELSE item.names \ {item.id}

DeleteRequest(c, item) ==
  [by    |-> c,
   kind  |-> item.kind,
   id    |-> item.id,
   item  |-> item,
   force |-> item.state = "running",
   refs  |-> IF item.kind = "image" THEN ImageRefs(item) ELSE {item.id}]

Revalidate(c) ==
  /\ pc[c] = "listed"
  /\ \/ /\ Revalidated(c) # {}
        /\ \E d \in Revalidated(c) :
             request' = [request EXCEPT ![c] = DeleteRequest(c, d.resource)]
        /\ pc' = [pc EXCEPT ![c] = "deleting"]
        /\ UNCHANGED <<storeVars, plan, queue, guard, view, report>>
     \/ /\ Revalidated(c) = {}
        /\ Settle(c, "skipped")
  /\ UNCHANGED <<engineVars, historyVars>>

\* The first of them, in the order of the search names, which are sorted.
FirstRefs(refs) == {ref \in refs : \A other \in refs \ {ref} : Rank[ref] < Rank[other]}

\* The single HTTP request now under way: an image takes one for each name.
Sent(c) ==
  {[by |-> c, kind |-> request[c].kind, id |-> request[c].id,
    force |-> request[c].force, ref |-> ref] : ref \in FirstRefs(request[c].refs)}

Vanished(r, contents) ==
  {[by |-> r.by, id |-> i] : i \in {j \in Ids : docker[j] # None /\ contents[j] = None}}

\* Mutant: nothing to delete counts as deleted.
StatusOptimistic(answer) ==
  CASE answer \in {"removed", "missing", "pruned nothing"} -> "removed"
    [] answer = "refused" -> "skipped"
    [] OTHER -> "failed"

\* classify_delete_error() and classify_prune_response(): 404, 409 and an empty
\* prune skip the target, any other error or an unexpected record fails it.
StatusOf(answer) ==
  CASE answer = "removed" -> "removed"
    [] answer \in {"missing", "refused", "pruned nothing"} -> "skipped"
    [] OTHER -> "failed"

\* The engine handles the request and delete_target() reads the answer; only a
\* success goes on to the next name of an image.
EngineAnswers(c) ==
  /\ pc[c] = "deleting"
  /\ \E r \in Sent(c) : \E reply \in Effects(r) :
       /\ docker' = reply.docker
       /\ removed' = removed \cup Vanished(r, reply.docker)
       /\ IF reply.answer = "removed" /\ request[c].refs # {r.ref}
          THEN /\ request' = [request EXCEPT ![c].refs = @ \ {r.ref}]
               /\ UNCHANGED <<storeVars, pc, plan, queue, guard, view, report>>
          ELSE Settle(c, StatusOf(reply.answer))
  /\ UNCHANGED <<clock, config, stray>>

\* Mutant: a lost answer counts as a skipped target.
LoseAnswerSkips(c) ==
  /\ Lossy
  /\ pc[c] = "deleting"
  /\ \E r \in Sent(c) : stray' = stray \cup {r}
  /\ Settle(c, "skipped")
  /\ UNCHANGED <<engineVars, removed>>

\* The connection breaks or times out: the target failed, the lock is dropped,
\* and the engine may still be working on the request.
LoseAnswer(c) ==
  /\ Lossy
  /\ pc[c] = "deleting"
  /\ \E r \in Sent(c) : stray' = stray \cup {r}
  /\ Settle(c, "failed")
  /\ UNCHANGED <<engineVars, removed>>

\* The process dies: the kernel drops its lock, its plan and report are gone.
Crash(c) ==
  /\ Lossy
  /\ pc[c] \in {"next"} \cup Busy
  /\ IF pc[c] = "deleting" THEN \E r \in Sent(c) : stray' = stray \cup {r}
                           ELSE UNCHANGED stray
  /\ pc' = [pc EXCEPT ![c] = "crashed"]
  /\ queue' = [queue EXCEPT ![c] = <<>>]
  /\ guard' = [guard EXCEPT ![c] = {}]
  /\ view' = [view EXCEPT ![c] = NoView]
  /\ request' = [request EXCEPT ![c] = None]
  /\ report' = [report EXCEPT ![c] = {}]
  /\ Unlock(c)
  /\ UNCHANGED <<engineVars, plan, removed>>

StrayTakesEffect ==
  /\ \E r \in stray : \E reply \in Effects(r) :
       /\ docker' = reply.docker
       /\ removed' = removed \cup Vanished(r, reply.docker)
       /\ stray' = stray \ {r}
  /\ UNCHANGED <<storeVars, clock, config, cleanerVars>>

EditProtection ==
  /\ \E e \in Editors : EditorStep(e)
  /\ UNCHANGED <<engineVars, cleanerVars, historyVars>>

-----------------------------------------------------------------------------
Init ==
  /\ StoreInit
  /\ docker \in InitDocker
  /\ clock = 0
  /\ config \in Configs
  /\ pc = [c \in Cleaners |-> "idle"]
  /\ plan = [c \in Cleaners |-> NoPlan]
  /\ queue = [c \in Cleaners |-> <<>>]
  /\ guard = [c \in Cleaners |-> {}]
  /\ view = [c \in Cleaners |-> NoView]
  /\ request = [c \in Cleaners |-> None]
  /\ report = [c \in Cleaners |-> {}]
  /\ stray = {}
  /\ removed = {}

CleanerStep(c) ==
  \/ LockTarget(c) \/ AbortPass(c) \/ FinishPass(c)
  \/ ReloadConfig(c)
  \/ ListContainers(c) \/ ListOthers(c) \/ InspectContainers(c) \/ ReadBuildCache(c)
  \/ InventoryFails(c)
  \/ Revalidate(c)
  \/ EngineAnswers(c) \/ LoseAnswer(c)

PlanStep(c) == LoadConfig(c) \/ ReadProtection(c) \/ Prepare(c) \/ PlanningFails(c)

Next ==
  \/ \E c \in Cleaners : PlanStep(c) \/ CleanerStep(c) \/ Crash(c)
  \/ StrayTakesEffect
  \/ EditProtection
  \/ EngineChanges \/ Tick \/ EditConfig

Spec == Init /\ [][Next]_vars

\* A pass keeps going: its own steps, the engine's answers and an editor's
\* commit are never postponed for ever.  flock wakes the waiting cleaner each
\* time an editor lets go, so taking the lock is strongly fair.  Nothing makes
\* people, clocks or crashes move.
Fairness ==
  /\ \A c \in Cleaners : WF_vars(CleanerStep(c)) /\ SF_vars(LockTarget(c))
  /\ WF_vars(\E e \in Editors :
               (CommitUpdate(e) \/ AbandonUpdate(e)) /\ UNCHANGED <<engineVars, cleanerVars, historyVars>>)

FairSpec == Spec /\ Fairness

-----------------------------------------------------------------------------
(* Properties *)

\* The protection entries a cleaner decides with are those in the file until
\* the target has its outcome, and the lock is held exactly that long: an
\* update can neither slip in before the delete nor be locked out for ever.
GuardCoversDelete ==
  \A c \in Cleaners :
    /\ c \in shared <=> pc[c] \in Busy
    /\ pc[c] \in Busy => exclusive = Nobody /\ guard[c] = protection

\* While a delete request is under way, the resource it was made for is
\* protected neither by the protection file as it is now nor by the
\* configuration the plan was made of.
RequestsUnprotected ==
  \A c \in Cleaners : request[c] # None =>
    /\ ~Protected(protection, request[c].item)
    /\ ~Selects(plan[c].cfg.protect, request[c].item)

IdsOf(outcomes) == {o.id : o \in outcomes}

\* One failing target neither aborts the pass nor makes it forget another:
\* every planned target is either waiting or has exactly one outcome.
TargetsAccounted ==
  \A c \in Cleaners : pc[c] \notin {"idle", "failed", "crashed"} \cup Planning =>
    /\ IdsOf(report[c]) \cup IdsOf(ToSet(queue[c])) = IdsOf(plan[c].targets)
    /\ IdsOf(report[c]) \cap IdsOf(ToSet(queue[c])) = {}
    /\ \A o, p \in report[c] : o.id = p.id => o = p

\* A pass that returns a report names every object the engine removed for it:
\* as removed or, when the answer was lost, as failed.  Only an engine that
\* prunes more than it was asked to takes one that is not named, and then a
\* build-cache target is reported as failed.
RemovalsReported ==
  \A c \in Cleaners : pc[c] = "done" =>
    \A x \in removed : x.by = c =>
      \E o \in report[c] :
        \/ o.id = x.id /\ o.status \in {"removed", "failed"}
        \/ o.status = "failed" /\ \E t \in plan[c].targets : t.id = o.id /\ t.kind = "build-cache"

\* The converse: what the report calls removed has been removed.
ReportTruthful ==
  \A c \in Cleaners : \A o \in report[c] :
    o.status = "removed" => [by |-> c, id |-> o.id] \in removed

\* The present objects a readable protection file names by kind and id.
Shield ==
  {i \in Ids :
     /\ docker[i] # None
     /\ protection # Unreadable
     /\ [kind |-> docker[i].kind, value |-> i] \in protection}

\* The ids a cleaner may still remove: they are queued and it has not removed
\* them, which an image may be before all its names have been tried.
Grants(c) == {i \in IdsOf(ToSet(queue[c])) : [by |-> c, id |-> i] \notin removed}

\* The ids that entries name by kind and id, whatever state their object is in.
NamedBy(entries) ==
  {i \in Ids : \E o \in ObjectStates : o.id = i /\ [kind |-> o.kind, value |-> i] \in entries}

\* What a plan must not grant: once it has its snapshot, what that names.
Spared(c) == IF pc[c] \in Surveying THEN NamedBy(guard[c]) ELSE Ids

\* Execution implements the contract.
Contract == INSTANCE DeletionContract WITH
  planned <- {c \in Cleaners : pc[c] \notin {"idle"} \cup Planning},
  spared  <- [c \in Cleaners |-> Spared(c)],
  granted <- [c \in Cleaners |-> Grants(c)],
  present <- {i \in Ids : docker[i] # None},
  shield  <- Shield

ImplementsContract == Contract!Spec

\* A completed protection update never races a deletion: nothing is removed
\* for a cleaner while the protection file names it.
NoProtectedRemoval ==
  [][\A x \in removed' \ removed : x.id \notin Shield]_vars

\* A pass that took up its targets ends, whatever happens around it.
PassEnds == \A c \in Cleaners : pc[c] = "next" ~> pc[c] \in {"done", "failed", "crashed"}

\* Every cleaner gives the lock back, so an editor waiting for it is held up by
\* one target at a time and not by a whole pass.
LockFreed == \A c \in Cleaners : c \in shared ~> c \notin shared

=============================================================================
