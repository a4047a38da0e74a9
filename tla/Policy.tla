------------------------------- MODULE Policy -------------------------------
(***************************************************************************)
(* The pure part of a cleanup pass: what docker_maid decides about one     *)
(* inventory snapshot (src/src/plan.rs), which runtime protection entry    *)
(* covers a resource (src/src/state.rs) and how long a resource has been   *)
(* observed unreferenced (src/src/observation.rs).                         *)
(*                                                                         *)
(* Strings are members of small sets.  A glob, a regular expression or a   *)
(* name part is the set of labels or names it matches, so a selector is a  *)
(* record [labels, names] of two such sets, and item.names is the set of   *)
(* the item's search names.  Rendered reasons and tables are left out.     *)
(* Timestamps are whole seconds; durations are milliseconds because the    *)
(* code floors them to seconds when it compares.                           *)
(***************************************************************************)
EXTENDS Integers, FiniteSets, Sequences, SequencesExt

CONSTANTS
  None,     \* the Rust None
  Regex,    \* [protection value |-> the names it matches as an expression]
  Rank      \* [id or tag |-> its place in the order of strings]

ASSUME NoneAssumption == None \notin Int

Kinds == {"container", "image", "volume", "network", "build-cache"}

-----------------------------------------------------------------------------
(* Ages and durations *)

\* Duration::as_secs
AsSecs(duration) == duration \div 1000

\* An age is unknown for a missing or a future timestamp.
AgeSeconds(now, timestamp) ==
  IF timestamp = None THEN None
  ELSE IF now < timestamp THEN None
  ELSE now - timestamp

\* The comparison every age policy makes: a known age, an existing floor.
MeetsFloor(age, floor) ==
  /\ age # None
  /\ floor # None
  /\ age >= AsSecs(floor)

-----------------------------------------------------------------------------
(* The record of when resources were first observed unreferenced *)

ObservedKinds == {"image", "volume", "network"}

\* The clocks of obs that still belong to this very incarnation of item.
ClockOf(obs, item) ==
  {e \in obs : e.kind = item.kind /\ e.id = item.id /\ e.created = item.created}

FirstUnreferenced(obs, item, now) ==
  LET carried == ClockOf(obs, item)
  IN  IF carried = {} THEN now ELSE (CHOOSE e \in carried : TRUE).first

Folded(obs, inventory, now) ==
  {[kind    |-> item.kind,
    id      |-> item.id,
    created |-> item.created,
    first   |-> FirstUnreferenced(obs, item, now)] :
      item \in {i \in inventory : i.kind \in ObservedKinds /\ ~i.referenced}}

UnreferencedAge(obs, item, now) ==
  LET clock == ClockOf(obs, item)
  IN  IF item.kind \notin ObservedKinds \/ clock = {} THEN None
      ELSE AgeSeconds(now, (CHOOSE e \in clock : TRUE).first)

-----------------------------------------------------------------------------
(* Protection and selection *)

\* A label entry covers every kind but the build cache, whose records have no
\* labels; any other entry is typed, and only a container entry is a regex.
EntryMatches(entry, item) ==
  IF entry.kind = "label"
  THEN entry.value \in item.labels
  ELSE /\ entry.kind = item.kind
       /\ \/ entry.value \in {item.id, item.name} \cup item.names
          \/ /\ entry.kind = "container"
             /\ Regex[entry.value] \cap ({item.name} \cup item.names) # {}

Protected(entries, item) == \E e \in entries : EntryMatches(e, item)

Selects(selector, item) ==
  \/ selector.labels \cap item.labels # {}
  \/ selector.names \cap item.names # {}

\* The rules of one kind are tried in order and the first match decides.
FirstRule(rules, item) ==
  LET hits == {i \in DOMAIN rules : Selects(rules[i].select, item)}
  IN  IF hits = {} THEN None
      ELSE rules[CHOOSE i \in hits : \A j \in hits : i <= j]

RuleDisposition(rule) ==
  IF rule.scope = "all" THEN "authorized-unscoped" ELSE "owned"

-----------------------------------------------------------------------------
(* The build-cache rule looks at the whole cache: an age floor, then a     *)
(* byte budget met by removing the least recently used records first.      *)

LastUsed(item) == IF item.since # None THEN item.since ELSE item.created

Bytes(cache) ==
  MapThenSumSet(LAMBDA i : i.size, {i \in cache : i.size # None})

CacheOlder(a, b) ==
  \/ LastUsed(a) < LastUsed(b)
  \/ LastUsed(a) = LastUsed(b) /\ Rank[a.id] < Rank[b.id]

CacheExpired(rule, cache, now) ==
  {i \in cache : ~i.referenced /\ MeetsFloor(AgeSeconds(now, LastUsed(i)), rule.older_than)}

CacheCandidates(cache, expired) ==
  {i \in cache \ expired : ~i.referenced /\ i.size # None /\ LastUsed(i) # None}

\* Mutant: the records in use are left out of the total.
OverBudgetIdleOnly(rule, cache, expired) ==
  LET candidates == CacheCandidates(cache, expired)
      idle == {i \in cache \ expired : ~i.referenced}
  IN  {i \in candidates :
         Bytes(idle) - Bytes({j \in candidates : CacheOlder(j, i)}) > rule.max_bytes}

\* From the oldest on, whatever is met while the rest is over the budget.
OverBudget(rule, cache, expired) ==
  LET candidates == CacheCandidates(cache, expired)
      retained   == Bytes(cache) - Bytes(expired)
  IN  {i \in candidates :
         retained - Bytes({j \in candidates : CacheOlder(j, i)}) > rule.max_bytes}

CacheRemovals(rule, inventory, now) ==
  IF rule = None THEN {}
  ELSE LET cache   == {i \in inventory : i.kind = "build-cache"}
           expired == CacheExpired(rule, cache, now)
       IN  expired \cup (IF rule.max_bytes = None THEN {}
                         ELSE OverBudget(rule, cache, expired))

-----------------------------------------------------------------------------
(* Decisions *)

KeepDecision(item, disposition, rule) ==
  [resource |-> item, disposition |-> disposition, rule |-> rule, action |-> "keep"]

RemoveDecision(item, disposition, rule) ==
  [resource |-> item, disposition |-> disposition, rule |-> rule, action |-> "remove"]

Unowned(item) == KeepDecision(item, "unowned", None)

ContainerFloor(rule, item) ==
  CASE item.state = "running" -> rule.running_ttl
    [] item.state = "stopped" -> rule.stopped_ttl
    [] OTHER -> None

ContainerEligible(rule, item, age) == MeetsFloor(age, ContainerFloor(rule, item))

ImageEligible(rule, item, age) ==
  /\ ~item.referenced
  /\ rule.tags \cap item.names # {} \/ (rule.dangling /\ item.dangling)
  /\ MeetsFloor(age, rule.unused_for)

VolumeEligible(rule, item, age) ==
  /\ ~item.referenced
  /\ MeetsFloor(age, rule.orphan_for)

NetworkEligible(rule, item, age) ==
  /\ rule.orphan
  /\ ~item.referenced
  /\ MeetsFloor(age, rule.orphan_for)

Eligible(rule, item, now, obs) ==
  CASE item.kind = "container" -> ContainerEligible(rule, item, AgeSeconds(now, item.since))
    [] item.kind = "image"     -> ImageEligible(rule, item, UnreferencedAge(obs, item, now))
    [] item.kind = "volume"    -> VolumeEligible(rule, item, UnreferencedAge(obs, item, now))
    [] item.kind = "network"   -> NetworkEligible(rule, item, UnreferencedAge(obs, item, now))
    [] OTHER -> FALSE

\* Containers, images, volumes and networks: the first rule owns the decision.
DecideByRule(cfg, item, now, obs) ==
  LET rule == FirstRule(cfg.rules[item.kind], item)
  IN  IF rule = None THEN Unowned(item)
      ELSE IF Eligible(rule, item, now, obs)
           THEN RemoveDecision(item, RuleDisposition(rule), rule.name)
           ELSE KeepDecision(item, RuleDisposition(rule), rule.name)

DecideBuildCache(cfg, item, removals) ==
  IF cfg.cache = None THEN Unowned(item)
  ELSE IF ~item.referenced /\ item \in removals
       THEN RemoveDecision(item, "authorized-unscoped", "build-cache")
       ELSE KeepDecision(item, "authorized-unscoped", "build-cache")

\* Mutant: only the configuration protects, the runtime entries are not asked.
DecideWithoutRuntime(cfg, item, now, removals, entries, obs) ==
  IF Selects(cfg.protect, item)
  THEN KeepDecision(item, "protected", None)
  ELSE CASE item.kind = "build-cache" -> DecideBuildCache(cfg, item, removals)
         [] item.kind = "network" /\ item.system -> KeepDecision(item, "protected", None)
         [] OTHER -> DecideByRule(cfg, item, now, obs)

Decide(cfg, item, now, removals, entries, obs) ==
  IF Protected(entries, item) \/ Selects(cfg.protect, item)
  THEN KeepDecision(item, "protected", None)
  ELSE CASE item.kind = "build-cache" -> DecideBuildCache(cfg, item, removals)
         [] item.kind = "network" /\ item.system -> KeepDecision(item, "protected", None)
         [] OTHER -> DecideByRule(cfg, item, now, obs)

\* The plan of a snapshot: one decision for each item.
BuildPlan(cfg, inventory, now, entries, obs) ==
  LET removals == CacheRemovals(cfg.cache, inventory, now)
  IN  {Decide(cfg, item, now, removals, entries, obs) : item \in inventory}

Removals(plan) == {d \in plan : d.action = "remove"}

=============================================================================
