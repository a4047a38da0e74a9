---------------------------- MODULE CommandProofs ----------------------------
(***************************************************************************)
(* What the end of a command tells its caller.  `spawn`, for any number of *)
(* spawners, policies and ids: no pass removes a container that has never  *)
(* been started, and the exit code and the report tell what exists.  The   *)
(* commands around the cleanup, with any step failing and any stdout: the  *)
(* exit code tells the outcome, and the events of a daemon tell which pass *)
(* they belong to.                                                         *)
(***************************************************************************)
EXTENDS Spawn, CommandReport, FiniteSetTheorems, SequenceTheorems, WellFoundedInduction, TLAPS

-----------------------------------------------------------------------------
(* Spawn: a container that was never started is in the state "created",    *)
(* which to the policy is neither running nor stopped, so that no age      *)
(* floor applies to it                                                     *)

States == {"created", "running", "paused", "exited"}

Phases == {"idle", "image", "create", "start", "name"}

Requests == [owner : Owners \cup {None}, name : Names \cup {None}]

Container ==
  [body : {ContainerBody(r) : r \in Requests}, name : Ids \cup Names,
   state : States, age : Nat]

EngineTypes == containers \in [Ids -> Container \cup {None}]

CommandTypes ==
  /\ request \in [Spawners -> Requests]
  /\ phase \in [Spawners -> Phases]
  /\ mine \in [Spawners -> Ids \cup {None}]
  /\ \A s \in Spawners : phase[s] \in {"start", "name"} => mine[s] \in Ids

\* What is there and was never started is as it was created.
FreshUntilStarted ==
  \A id \in Ids :
    containers[id] # None /\ id \notin started => containers[id].state = "created"

SpawnInv == EngineTypes /\ CommandTypes /\ FreshUntilStarted /\ SparedUntilStarted

-----------------------------------------------------------------------------
\* No rule removes a container that is neither running nor stopped: whichever
\* rule claims it, it has no age floor to meet.
LEMMA OtherIsKept ==
  ASSUME NEW c, NEW item, NEW now, NEW removals, NEW entries, NEW obs,
         item.kind = "container", item.state = "other"
  PROVE  Decide(c, item, now, removals, entries, obs).action = "keep"
<1>1. ASSUME NEW rule, NEW age
      PROVE  ~ContainerEligible(rule, item, age)
  BY DEF ContainerEligible, ContainerFloor, MeetsFloor
<1>2. ASSUME NEW rule
      PROVE  ~Eligible(rule, item, now, obs)
  BY <1>1 DEF Eligible
<1>3. DecideByRule(c, item, now, obs).action = "keep"
  BY <1>2 DEF DecideByRule, Unowned, KeepDecision
<1>4. QED
  BY <1>3 DEF Decide, KeepDecision

\* So a cleaner takes only what has been started.
LEMMA ReclaimTakesStarted ==
  ASSUME FreshUntilStarted, NEW id \in Ids, Reclaim(id)
  PROVE  id \in started
<1>1. SUFFICES ASSUME id \notin started  PROVE FALSE
  OBVIOUS
<1>2. containers[id].state = "created"
  BY <1>1 DEF FreshUntilStarted, Reclaim
<1>3. Item(id).kind = "container" /\ Item(id).state = "other"
  BY <1>2 DEF Item, StateSnapshot, ResourceState
<1>4. Decide(cfg, Item(id), MaxAge, {}, {}, {}).action = "keep"
  BY <1>3, OtherIsKept
<1>5. QED
  BY <1>4 DEF Reclaim

-----------------------------------------------------------------------------
(* What the steps do to the command that takes them *)

\* A command ends: no other one is at another step, and its request is gone.
LEMMA EndKeepsCommand ==
  ASSUME CommandTypes, NEW s \in Spawners, NEW how, EndSpawn(s, how), UNCHANGED mine
  PROVE  CommandTypes'
<1>1. request' \in [Spawners -> Requests]
  BY DEF CommandTypes, EndSpawn, NoRequest, Requests
<1>2. phase' = [phase EXCEPT ![s] = "idle"]
  BY DEF EndSpawn, Go
<1>3. phase' \in [Spawners -> Phases]
  BY <1>2 DEF CommandTypes, Phases
<1>4. \A t \in Spawners : phase'[t] \in {"start", "name"} => mine'[t] \in Ids
  BY <1>2 DEF CommandTypes
<1>5. QED
  BY <1>1, <1>3, <1>4 DEF CommandTypes

\* A command goes on to another step; once it has a container it keeps its id.
LEMMA GoKeepsCommand ==
  ASSUME CommandTypes, NEW s \in Spawners, NEW step \in Phases, Go(s, step), UNCHANGED request,
         mine' \in [Spawners -> Ids \cup {None}],
         \A t \in Spawners : t # s => mine'[t] = mine[t],
         step \in {"start", "name"} => mine'[s] \in Ids
  PROVE  CommandTypes'
BY DEF CommandTypes, Go

\* A request is noted: who asks has no container yet.
LEMMA ValidateKeepsCommand ==
  ASSUME CommandTypes, NEW s \in Spawners, Validate(s)
  PROVE  CommandTypes'
<1>1. UNCHANGED mine
  BY DEF Validate
<1>2. CASE Go(s, "image") /\ \E r \in Requests : request' = [request EXCEPT ![s] = r]
  BY <1>1, <1>2 DEF Go, CommandTypes, Phases
<1>3. PICK a \in Shapes :
        IF a.valid
        THEN \E name \in (IF a.named THEN Names ELSE {None}),
                owner \in (IF a.owned THEN Owners ELSE {None}) :
               /\ request' = [request EXCEPT ![s] = [owner |-> owner, name |-> name]]
               /\ Go(s, "image")
        ELSE EndSpawn(s, "usage")
  BY DEF Validate
<1>4. CASE a.valid
  BY <1>2, <1>3, <1>4 DEF Requests
<1>5. CASE ~a.valid
  BY <1>1, <1>3, <1>5, EndKeepsCommand
<1>6. QED
  BY <1>4, <1>5

\* The steps that ask the engine go on, or end the command.
LEMMA AskingKeepsCommand ==
  ASSUME CommandTypes, NEW s \in Spawners,
         InspectImage(s) \/ Create(s) \/ StartContainer(s) \/ Report(s) \/ CrashSpawn(s)
  PROVE  CommandTypes'
<1>1. CASE UNCHANGED mine /\ \E how : EndSpawn(s, how)
  BY <1>1, EndKeepsCommand
<1>2. CASE InspectImage(s)
  BY <1>1, <1>2, GoKeepsCommand DEF InspectImage, CommandTypes, Phases
<1>3. CASE Create(s)
  <2>1. CASE \E id \in Ids : mine' = [mine EXCEPT ![s] = id] /\ Go(s, "start") /\ UNCHANGED request
    BY <2>1, GoKeepsCommand DEF CommandTypes, Phases
  <2>2. QED
    BY <1>1, <1>3, <2>1 DEF Create
<1>4. CASE StartContainer(s)
  BY <1>1, <1>4, GoKeepsCommand DEF StartContainer, CommandTypes, Phases
<1>5. CASE Report(s) \/ CrashSpawn(s)
  BY <1>1, <1>5 DEF Report, CrashSpawn
<1>6. QED
  BY <1>2, <1>3, <1>4, <1>5

-----------------------------------------------------------------------------
(* What the steps do to the containers *)

\* A container that is created is in the state of that name.
LEMMA NewIsFresh ==
  ASSUME CommandTypes, NEW s \in Spawners, NEW id \in Ids
  PROVE  /\ NewContainer(request[s], id) \in Container
         /\ NewContainer(request[s], id).state = "created"
<1>1. request[s] \in Requests
  BY DEF CommandTypes
<1>2. (IF request[s].name = None THEN id ELSE request[s].name) \in Ids \cup Names
  BY <1>1 DEF Requests
<1>3. QED
  BY <1>1, <1>2 DEF NewContainer, Container, States

\* A container changes its state only when it has been started, or is by this.
LEMMA TurnKeeps ==
  ASSUME SpawnInv, NEW id \in Ids, NEW state \in States, containers[id] # None,
         containers' = Turns(id, state), id \in started', started \subseteq started',
         UNCHANGED reclaimed
  PROVE  EngineTypes' /\ FreshUntilStarted' /\ SparedUntilStarted'
<1>1. containers[id] \in Container
  BY DEF SpawnInv, EngineTypes
<1>2. containers' = [containers EXCEPT ![id] = [@ EXCEPT !.state = state, !.age = 0]]
  BY <1>1 DEF Turns, SpawnInv, EngineTypes
<1>3. [containers[id] EXCEPT !.state = state, !.age = 0] \in Container
  BY <1>1 DEF Container
<1>4. EngineTypes'
  BY <1>2, <1>3 DEF SpawnInv, EngineTypes
<1>5. FreshUntilStarted'
  BY <1>2 DEF SpawnInv, EngineTypes, FreshUntilStarted
<1>6. QED
  BY <1>4, <1>5 DEF SpawnInv, SparedUntilStarted

\* A container is removed.
LEMMA GoneKeeps ==
  ASSUME SpawnInv, NEW id \in Ids, containers' = [containers EXCEPT ![id] = None],
         UNCHANGED started, reclaimed' \subseteq reclaimed \cup started
  PROVE  EngineTypes' /\ FreshUntilStarted' /\ SparedUntilStarted'
BY DEF SpawnInv, EngineTypes, FreshUntilStarted, SparedUntilStarted

\* Nothing changes for the containers.
LEMMA SameKeeps ==
  ASSUME SpawnInv, UNCHANGED <<containers, started, reclaimed>>
  PROVE  EngineTypes' /\ FreshUntilStarted' /\ SparedUntilStarted'
BY DEF SpawnInv, EngineTypes, FreshUntilStarted, SparedUntilStarted

\* The command's own steps.
LEMMA SpawnerKeeps ==
  ASSUME SpawnInv, NEW s \in Spawners,
         Validate(s) \/ InspectImage(s) \/ Create(s) \/ StartContainer(s) \/ Report(s)
         \/ CrashSpawn(s)
  PROVE  SpawnInv'
<1>1. CommandTypes'
  BY ValidateKeepsCommand, AskingKeepsCommand DEF SpawnInv
<1>2. CASE UNCHANGED <<containers, started, reclaimed>>
  BY <1>1, <1>2, SameKeeps DEF SpawnInv
<1>3. CASE Create(s)
  <2>1. ASSUME NEW id \in Ids, Creates(s, id)
        PROVE  SpawnInv'
    <3>1. containers' = [containers EXCEPT ![id] = NewContainer(request[s], id)]
      BY <2>1 DEF Creates
    <3>2. EngineTypes'
      BY <3>1, NewIsFresh DEF SpawnInv, EngineTypes
    <3>3. FreshUntilStarted'
      BY <1>3, <3>1, NewIsFresh DEF Create, SpawnInv, EngineTypes, FreshUntilStarted
    <3>4. QED
      BY <1>1, <1>3, <3>2, <3>3 DEF Create, SpawnInv, SparedUntilStarted
  <2>2. QED
    BY <1>2, <1>3, <2>1 DEF Create
<1>4. CASE StartContainer(s)
  <2>1. CASE /\ containers[mine[s]] # None
             /\ containers' = IF containers[mine[s]].state = "running" THEN containers
                              ELSE Started(mine[s])
             /\ started' = started \cup {mine[s]}
    <3>1. mine[s] \in Ids
      BY <1>4 DEF StartContainer, SpawnInv, CommandTypes
    <3>2. CASE containers' = Started(mine[s])
      BY <1>1, <1>4, <2>1, <3>1, <3>2, TurnKeeps DEF Started, States, StartContainer, SpawnInv
    <3>3. CASE UNCHANGED containers
      BY <1>1, <1>4, <2>1, <3>3
         DEF StartContainer, SpawnInv, EngineTypes, FreshUntilStarted, SparedUntilStarted
    <3>4. QED
      BY <2>1, <3>2, <3>3
  <2>2. QED
    BY <1>2, <1>4, <2>1 DEF StartContainer
<1>5. CASE Validate(s) \/ InspectImage(s) \/ Report(s) \/ CrashSpawn(s)
  BY <1>2, <1>5 DEF Validate, InspectImage, Report, CrashSpawn, spawnHistory
<1>6. QED
  BY <1>3, <1>4, <1>5

\* Everybody else's steps.
LEMMA OthersKeep ==
  ASSUME SpawnInv, NEW id \in Ids,
         Reclaim(id) \/ UserStarts(id) \/ Pauses(id) \/ UserRemoves(id) \/ Exits(id)
  PROVE  SpawnInv'
<1>1. CommandTypes'
  BY DEF Reclaim, UserStarts, Pauses, UserRemoves, Exits, requestVars, SpawnInv, CommandTypes
<1>2. CASE Reclaim(id)
  BY <1>1, <1>2, GoneKeeps, ReclaimTakesStarted DEF Reclaim, SpawnInv
<1>3. CASE UserStarts(id)
  BY <1>1, <1>3, TurnKeeps DEF UserStarts, Started, States, SpawnInv
<1>4. CASE Pauses(id)
  <2>1. containers[id] \in Container /\ id \in started
    BY <1>4 DEF Pauses, SpawnInv, EngineTypes, FreshUntilStarted
  <2>2. [containers[id] EXCEPT !.state = IF @ = "paused" THEN "running" ELSE "paused"] \in Container
    BY <2>1 DEF Container, States
  <2>3. EngineTypes' /\ FreshUntilStarted'
    BY <1>4, <2>1, <2>2 DEF Pauses, spawnHistory, SpawnInv, EngineTypes, FreshUntilStarted
  <2>4. QED
    BY <1>1, <1>4, <2>3 DEF Pauses, spawnHistory, SpawnInv, SparedUntilStarted
<1>5. CASE UserRemoves(id)
  BY <1>1, <1>5, GoneKeeps DEF UserRemoves, spawnHistory, SpawnInv
<1>6. CASE Exits(id)
  <2>1. id \in started
    BY <1>6 DEF Exits, SpawnInv, FreshUntilStarted
  <2>2. CASE containers' = Turns(id, "exited")
    BY <1>1, <1>6, <2>1, <2>2, TurnKeeps DEF Exits, spawnHistory, States, SpawnInv
  <2>3. CASE containers' = [containers EXCEPT ![id] = None]
    BY <1>1, <1>6, <2>3, GoneKeeps DEF Exits, spawnHistory, SpawnInv
  <2>4. QED
    BY <1>6, <2>2, <2>3 DEF Exits, Exited
<1>7. QED
  BY <1>2, <1>3, <1>4, <1>5, <1>6

\* Time goes by.
LEMMA TickKeeps ==
  ASSUME SpawnInv, Tick
  PROVE  SpawnInv'
<1>1. ASSUME NEW id \in Ids, containers[id] \in Container
      PROVE  /\ [containers[id] EXCEPT !.age = @ + 1] \in Container
             /\ [containers[id] EXCEPT !.age = @ + 1].state = containers[id].state
  BY <1>1 DEF Container
<1>2. EngineTypes'
  BY <1>1 DEF Tick, SpawnInv, EngineTypes
<1>3. FreshUntilStarted'
  <2> SUFFICES ASSUME NEW id \in Ids, containers'[id] # None, id \notin started'
               PROVE  containers'[id].state = "created"
    BY DEF FreshUntilStarted
  <2>1. id \notin started /\ containers[id] \in Container \cup {None}
    BY DEF Tick, spawnHistory, SpawnInv, EngineTypes
  <2>2. containers'[id] = IF containers[id] # None /\ containers[id].age < MaxAge
                          THEN [containers[id] EXCEPT !.age = @ + 1] ELSE containers[id]
    BY DEF Tick
  <2>3. containers[id] # None
    BY <2>2
  <2>4. QED
    BY <1>1, <2>1, <2>2, <2>3 DEF SpawnInv, FreshUntilStarted
<1>4. QED
  BY <1>2, <1>3 DEF Tick, spawnHistory, requestVars, SpawnInv, CommandTypes, SparedUntilStarted

-----------------------------------------------------------------------------
LEMMA SpawnInvInit == SpawnInit => SpawnInv
BY DEF SpawnInit, SpawnInv, EngineTypes, CommandTypes, Phases, FreshUntilStarted,
       SparedUntilStarted, NoRequest, Requests

LEMMA SpawnInvStep ==
  ASSUME SpawnInv, [SpawnNext]_spawnVars
  PROVE  SpawnInv'
<1>1. CASE Tick
  BY <1>1, TickKeeps
<1>2. CASE ImageMoves \/ UNCHANGED spawnVars
  BY <1>2 DEF ImageMoves, spawnVars, requestVars, spawnHistory, SpawnInv, EngineTypes,
              CommandTypes, FreshUntilStarted, SparedUntilStarted
<1>3. QED
  BY <1>1, <1>2, SpawnerKeeps, OthersKeep DEF SpawnNext

\* No pass removes a sandbox between its creation and its start, whatever the
\* policy says and whatever happens to the commands in between; nor does one
\* ever remove a sandbox whose start has failed.
THEOREM NeverReclaimedUnstarted == SpawnSpec => []SparedUntilStarted
<1>1. SpawnInv => SparedUntilStarted
  BY DEF SpawnInv
<1>2. QED
  BY <1>1, SpawnInvInit, SpawnInvStep, PTL DEF SpawnSpec

-----------------------------------------------------------------------------
(* What has exited is due                                                  *)

\* A policy under which the time a container has been stopped is what decides:
\* the configuration protects no sandbox by its stamp or its name, and whichever
\* rule claims it has a floor, which a container that has reached MaxAge has met.
Prompt(policy) ==
  /\ \A owner \in Owners \cup {None} : policy.protect.labels \cap Stamp(owner) = {}
  /\ policy.protect.names \cap (Ids \cup Names) = {}
  /\ policy.rules["container"] \in Seq(ToSet(policy.rules["container"]))
  /\ \A rule \in ToSet(policy.rules["container"]) :
       /\ rule # None
       /\ rule.stopped_ttl \in Nat /\ AsSecs(rule.stopped_ttl) <= MaxAge

\* Where some rule selects an item, the first of those decides.
LEMMA SomeRuleDecides ==
  ASSUME NEW rules, rules \in Seq(ToSet(rules)), NEW item,
         \A rule \in ToSet(rules) : rule # None,
         NEW hit \in ToSet(rules), Selects(hit.select, item)
  PROVE  FirstRule(rules, item) \in ToSet(rules)
<1> DEFINE hits == {i \in DOMAIN rules : Selects(rules[i].select, item)}
<1>1. DOMAIN rules \subseteq Nat /\ ToSet(rules) = {rules[i] : i \in DOMAIN rules}
  BY DEF ToSet
<1>2. hits # {} /\ hits \subseteq Nat
  BY <1>1
<1>3. \E i \in hits : \A j \in hits : i <= j
  <2> HIDE DEF hits
  <2>1. PICK i \in hits : \A j \in hits : ~(<<j, i>> \in OpToRel(<, Nat))
    BY <1>2, NatLessThanWellFounded, WFMin
  <2>2. \A j \in hits : ~(j < i)
    BY <1>2, <2>1 DEF OpToRel
  <2>3. QED
    BY <1>2, <2>2
<1>4. (CHOOSE i \in hits : \A j \in hits : i <= j) \in hits
  BY <1>3
<1>5. QED
  BY <1>1, <1>2, <1>4 DEF FirstRule

\* A sandbox that has been exited for MaxAge has met the floor of every rule of
\* a prompt policy.
LEMMA ExitedMeetsFloors ==
  ASSUME SpawnInv, NEW id \in Ids, containers[id] # None,
         containers[id].state = "exited", containers[id].age = MaxAge,
         NEW rule, rule.stopped_ttl \in Nat, AsSecs(rule.stopped_ttl) <= MaxAge
  PROVE  Eligible(rule, Item(id), MaxAge, {})
<1>1. ResourceState(containers[id].state) = "stopped"
  BY DEF ResourceState
<1>2. Item(id).kind = "container" /\ Item(id).state = "stopped" /\ Item(id).since = 0
  BY <1>1, SpawnAssumption DEF Item, StateSnapshot
<1>3. AgeSeconds(MaxAge, Item(id).since) = MaxAge
  BY <1>2, NoneAssumption, SpawnAssumption DEF AgeSeconds
<1>4. rule.stopped_ttl # None /\ MaxAge # None
  BY NoneAssumption, SpawnAssumption
<1>5. MeetsFloor(MaxAge, rule.stopped_ttl)
  BY <1>4, SpawnAssumption DEF MeetsFloor, AsSecs
<1>6. QED
  BY <1>2, <1>3, <1>5 DEF Eligible, ContainerEligible, ContainerFloor

\* Every sandbox carries the stamp of its owner, whatever happens to it.
LEMMA EverySandboxIsStamped ==
  ASSUME SpawnInv, NEW id \in Ids, containers[id] # None
  PROVE  /\ <<managed_key, "true">> \in Item(id).labels
         /\ \E owner \in Owners \cup {None} : Item(id).labels = Stamp(owner)
         /\ Item(id).names \subseteq Ids \cup Names
<1>1. containers[id] \in Container
  BY DEF SpawnInv, EngineTypes
<1>2. PICK r \in Requests : containers[id].body = ContainerBody(r)
  BY <1>1 DEF Container
<1>3. QED
  <2>1. r.owner \in Owners \cup {None} /\ Item(id).labels = Stamp(r.owner)
    BY <1>2 DEF ContainerBody, Item, Requests
  <2>2. Item(id).names = {id, containers[id].name} /\ containers[id].name \in Ids \cup Names
    BY <1>1 DEF Item, Container
  <2>3. QED
    BY <2>1, <2>2 DEF Stamp

LEMMA PolicyStays == cfg \in Policies /\ [SpawnNext]_spawnVars => cfg' \in Policies
BY DEF SpawnNext, spawnVars, Validate, InspectImage, Create, StartContainer, Report, CrashSpawn,
       Reclaim, UserStarts, Pauses, UserRemoves, Exits, Tick, ImageMoves

\* An exited sandbox is due once it has been stopped for as long as the policy
\* allows, if some rule adopts the stamp: whatever its start, pauses, users and
\* restarts did to it on the way, it is still labelled, is still there to be
\* inventoried, and the time of its end is known.
THEOREM ExitedSandboxesAreDue ==
  ASSUME \A policy \in Policies : Prompt(policy)
  PROVE  SpawnSpec => []ExitedIsDue
<1> DEFINE DueInv == SpawnInv /\ cfg \in Policies
<1>1. SpawnInit => DueInv
  BY SpawnInvInit DEF SpawnInit
<1>2. DueInv /\ [SpawnNext]_spawnVars => DueInv'
  BY SpawnInvStep, PolicyStays
<1>3. DueInv => ExitedIsDue
  <2> SUFFICES ASSUME DueInv,
                      NEW adopting \in ToSet(cfg.rules["container"]),
                      <<managed_key, "true">> \in adopting.select.labels,
                      NEW id \in Ids, containers[id] # None,
                      containers[id].state = "exited", containers[id].age = MaxAge
               PROVE  Decide(cfg, Item(id), MaxAge, {}, {}, {}).action = "remove"
    BY DEF ExitedIsDue
  <2> DEFINE rule == FirstRule(cfg.rules["container"], Item(id))
  <2>1. Prompt(cfg)
    OBVIOUS
  <2>2. Selects(adopting.select, Item(id))
    BY EverySandboxIsStamped DEF Selects
  <2>3. rule \in ToSet(cfg.rules["container"])
    BY <2>1, <2>2, SomeRuleDecides DEF Prompt
  <2>4. rule # None /\ rule.stopped_ttl \in Nat /\ AsSecs(rule.stopped_ttl) <= MaxAge
    BY <2>1, <2>3 DEF Prompt
  <2>5. Eligible(rule, Item(id), MaxAge, {})
    BY <2>4, ExitedMeetsFloors
  <2>6. ~Protected({}, Item(id)) /\ ~Selects(cfg.protect, Item(id))
    <3>1. cfg.protect.labels \cap Item(id).labels = {}
      BY <2>1, EverySandboxIsStamped DEF Prompt
    <3>2. cfg.protect.names \cap Item(id).names = {}
      BY <2>1, EverySandboxIsStamped DEF Prompt
    <3>3. QED
      BY <3>1, <3>2 DEF Protected, Selects
  <2>7. Item(id).kind = "container"
    BY DEF Item
  <2>8. DecideByRule(cfg, Item(id), MaxAge, {}).action = "remove"
    BY <2>4, <2>5, <2>7 DEF DecideByRule, RemoveDecision
  <2>9. QED
    BY <2>6, <2>7, <2>8 DEF Decide
<1>4. QED
  BY <1>1, <1>2, <1>3, PTL DEF SpawnSpec

-----------------------------------------------------------------------------
(* What the exit code tells *)

Endings == {"none", "usage", "docker", "success", "crashed"}

Own(s) == {id \in Ids : made[id] = s}

\* Ids are given out once, to a command, and only what was created is there.
MadeTypes ==
  /\ made \in [Ids -> Spawners \cup {None}]
  /\ ended \in [Spawners -> Endings]
  /\ reported \in [Spawners -> Ids \cup Names \cup {None}]
  /\ \A id \in Ids : containers[id] # None => made[id] # None

\* What a command has created, by how far it has come.
Stage(s) ==
  /\ phase[s] # "idle" => ended[s] = "none"
  /\ phase[s] \in {"image", "create"} => Own(s) = {}
  /\ phase[s] = "idle" /\ ended[s] \in {"none", "usage"} => Own(s) = {}
  /\ phase[s] \in {"start", "name"} \/ ended[s] = "success" =>
       mine[s] \in Ids /\ Own(s) = {mine[s]}
  /\ phase[s] = "name" \/ ended[s] = "success" => mine[s] \in started
  /\ ended[s] = "success" /\ containers[mine[s]] # None =>
       reported[s] \in {mine[s], containers[mine[s]].name}

StageInv == SpawnInv /\ MadeTypes /\ \A s \in Spawners : Stage(s)

\* The key of the managed label is one the survey looks for.
LEMMA ManagedIsKnown == IsKnown(managed_key)
<1> DEFINE hits == {n \in DOMAIN VOCABULARY : Matches(VOCABULARY[n], managed_key)}
<1>1. DOMAIN VOCABULARY = 1..4
  BY DEF VOCABULARY
<1>2. VOCABULARY[1].key # managed_key /\ VOCABULARY[1].matching = "exact"
  BY DEF VOCABULARY, managed_key
<1>3. VOCABULARY[3].key[1] # managed_key[1] /\ VOCABULARY[3].matching = "prefix"
  BY DEF VOCABULARY, managed_key
<1>4. VOCABULARY[4].key[1] # managed_key[1] /\ VOCABULARY[4].matching = "prefix"
  BY DEF VOCABULARY, managed_key
<1>5. VOCABULARY[2].matching = "exact" /\ VOCABULARY[2].key = managed_key
  BY DEF VOCABULARY, managed_key
<1>6. hits = {2}
  BY <1>1, <1>2, <1>3, <1>4, <1>5 DEF Matches
<1>7. (CHOOSE n \in hits : \A k \in hits : n <= k) = 2
  BY <1>6
<1>8. Lookup(managed_key) = VOCABULARY[2]
  BY <1>6, <1>7 DEF Lookup
<1>9. QED
  BY <1>1, <1>8, VocabularyAssumption DEF IsKnown

\* The stage of a command whose own state does not change: what it created is
\* what it was, under the name it had.
NamesKept ==
  \A id \in Ids : made[id] # None /\ containers'[id] # None =>
    containers[id] # None /\ containers'[id].name = containers[id].name

Aside(s) ==
  /\ phase'[s] = phase[s] /\ ended'[s] = ended[s]
  /\ mine'[s] = mine[s] /\ reported'[s] = reported[s]

LEMMA AsideKeeps ==
  ASSUME StageInv, NEW s \in Spawners, Aside(s), NamesKept, started \subseteq started',
         Own(s)' = Own(s)
  PROVE  Stage(s)'
<1>1. ended[s] = "success" /\ containers'[mine[s]] # None =>
        reported[s] \in {mine[s], containers'[mine[s]].name}
  <2> SUFFICES ASSUME ended[s] = "success", containers'[mine[s]] # None
               PROVE  reported[s] \in {mine[s], containers'[mine[s]].name}
    OBVIOUS
  <2>1. mine[s] \in Ids /\ made[mine[s]] = s
    BY DEF StageInv, Stage, Own
  <2>2. s # None
    BY SpawnAssumption
  <2>3. QED
    BY <2>1, <2>2 DEF NamesKept, StageInv, Stage
<1>2. QED
  BY <1>1 DEF StageInv, Stage, Aside

\* The containers are left alone, or one of them turns or goes.
LEMMA SameNames ==
  ASSUME StageInv, UNCHANGED containers
  PROVE  NamesKept
BY DEF StageInv, MadeTypes, NamesKept

LEMMA TurnsKeepNames ==
  ASSUME StageInv, NEW id \in Ids, NEW state, containers[id] # None,
         containers' = Turns(id, state)
  PROVE  NamesKept
<1>1. containers[id] \in Container
  BY DEF StageInv, SpawnInv, EngineTypes
<1>2. containers' = [containers EXCEPT ![id] = [@ EXCEPT !.state = state, !.age = 0]]
  BY <1>1 DEF Turns, StageInv, SpawnInv, EngineTypes
<1>3. [containers[id] EXCEPT !.state = state, !.age = 0].name = containers[id].name
  BY <1>1 DEF Container
<1>4. QED
  BY <1>2, <1>3 DEF StageInv, SpawnInv, EngineTypes, NamesKept

LEMMA GoneKeepsNames ==
  ASSUME StageInv, NEW id \in Ids, containers' = [containers EXCEPT ![id] = None]
  PROVE  NamesKept
BY DEF StageInv, SpawnInv, EngineTypes, NamesKept

\* A command that fails or is killed has told nothing.
LEMMA FailureTellsNothing ==
  ASSUME StageInv, NEW s \in Spawners, NEW how \in {"docker", "crashed"}, EndSpawn(s, how)
  PROVE  Stage(s)'
BY DEF EndSpawn, Go, Stage, StageInv, SpawnInv, CommandTypes, MadeTypes

\* A command leaves the other ones where they are.
LEMMA StepsAside ==
  ASSUME StageInv, NEW s \in Spawners, NEW t \in Spawners, s # t,
         Validate(s) \/ InspectImage(s) \/ Create(s) \/ StartContainer(s) \/ Report(s)
         \/ CrashSpawn(s)
  PROVE  Aside(t)
<1>1. ASSUME NEW step, Go(s, step)  PROVE phase'[t] = phase[t]
  BY <1>1 DEF Go, StageInv, SpawnInv, CommandTypes
<1>2. ASSUME NEW how, EndSpawn(s, how)  PROVE phase'[t] = phase[t] /\ ended'[t] = ended[t]
  BY <1>1, <1>2 DEF EndSpawn, StageInv, MadeTypes
<1>3. CASE Validate(s)
  BY <1>1, <1>2, <1>3 DEF Validate, Aside
<1>4. CASE InspectImage(s)
  BY <1>1, <1>2, <1>4 DEF InspectImage, Aside
<1>5. CASE Create(s)
  <2>1. phase'[t] = phase[t] /\ ended'[t] = ended[t]
    BY <1>1, <1>2, <1>5 DEF Create
  <2>2. mine'[t] = mine[t]
    BY <1>5 DEF Create, StageInv, SpawnInv, CommandTypes
  <2>3. QED
    BY <1>5, <2>1, <2>2 DEF Create, Aside
<1>6. CASE StartContainer(s)
  BY <1>1, <1>2, <1>6 DEF StartContainer, Aside
<1>7. CASE Report(s)
  <2>1. reported'[t] = reported[t]
    BY <1>7 DEF Report, StageInv, MadeTypes
  <2>2. QED
    BY <1>2, <1>7, <2>1 DEF Report, Aside
<1>8. CASE CrashSpawn(s)
  BY <1>2, <1>8 DEF CrashSpawn, Aside
<1>9. QED
  BY <1>3, <1>4, <1>5, <1>6, <1>7, <1>8

\* The endings are those the exit codes stand for.
LEMMA EndingsKept ==
  ASSUME StageInv, NEW s \in Spawners, NEW how \in Endings, EndSpawn(s, how)
  PROVE  ended' \in [Spawners -> Endings]
BY DEF EndSpawn, StageInv, MadeTypes

LEMMA StartStage ==
  ASSUME StageInv, NEW s \in Spawners, StartContainer(s)
  PROVE  MadeTypes' /\ (\A t \in Spawners : Stage(t)')
<1>1. mine[s] \in Ids /\ mine[s] \in DOMAIN containers
  BY DEF StartContainer, StageInv, SpawnInv, CommandTypes, EngineTypes
<1>2. NamesKept
  BY <1>1, SameNames, TurnsKeepNames DEF StartContainer, Started
<1>3. MadeTypes'
  <2>1. ended' \in [Spawners -> Endings]
    BY EndingsKept DEF StartContainer, StageInv, MadeTypes, Endings
  <2>2. \A id \in Ids : containers'[id] # None => made[id] # None
    BY <1>2 DEF NamesKept, StartContainer, StageInv, MadeTypes, Turns, Started, SpawnInv, EngineTypes
  <2>3. QED
    BY <2>1, <2>2 DEF StartContainer, StageInv, MadeTypes
<1>4. Own(s)' = Own(s) /\ \A t \in Spawners : Own(t)' = Own(t)
  BY DEF StartContainer, Own
<1>5. Stage(s)'
  <2>1. CASE EndSpawn(s, "docker")
    BY <2>1, FailureTellsNothing
  <2>2. CASE Go(s, "name") /\ started' = started \cup {mine[s]} /\ UNCHANGED ended
    <3>1. phase'[s] = "name" /\ ended'[s] = "none"
      BY <2>2 DEF Go, StartContainer, StageInv, Stage, SpawnInv, CommandTypes
    <3>2. QED
      BY <1>1, <1>4, <2>2, <3>1 DEF StartContainer, StageInv, Stage
  <2>3. QED
    BY <2>1, <2>2 DEF StartContainer
<1>6. ASSUME NEW t \in Spawners, t # s  PROVE Stage(t)'
  <2>1. Aside(t)
    BY <1>6, StepsAside
  <2>2. started \subseteq started'
    BY DEF StartContainer
  <2>3. QED
    BY <1>2, <1>4, <2>1, <2>2, AsideKeeps
<1>7. QED
  BY <1>3, <1>5, <1>6

\* A command that asks about what it asked for before creates nothing.
LEMMA ValidateStage ==
  ASSUME StageInv, NEW s \in Spawners, Validate(s)
  PROVE  ended' \in [Spawners -> Endings] /\ Stage(s)'
<1>1. phase[s] = "idle" /\ ended[s] = "none" /\ Own(s) = {} /\ Own(s)' = Own(s)
  BY DEF Validate, StageInv, Stage, Own, spawnHistory
<1>2. CASE Go(s, "image") /\ UNCHANGED ended
  BY <1>1, <1>2 DEF Go, StageInv, Stage, SpawnInv, CommandTypes, MadeTypes
<1>3. CASE EndSpawn(s, "usage")
  BY <1>1, <1>3 DEF EndSpawn, Go, Endings, StageInv, Stage, SpawnInv, CommandTypes, MadeTypes
<1>4. QED
  BY <1>2, <1>3 DEF Validate

LEMMA InspectStage ==
  ASSUME StageInv, NEW s \in Spawners, InspectImage(s)
  PROVE  ended' \in [Spawners -> Endings] /\ Stage(s)'
<1>1. phase[s] = "image" /\ ended[s] = "none" /\ Own(s) = {} /\ Own(s)' = Own(s)
  BY DEF InspectImage, StageInv, Stage, Own, spawnHistory
<1>2. CASE Go(s, "create") /\ UNCHANGED ended
  BY <1>1, <1>2 DEF Go, StageInv, Stage, SpawnInv, CommandTypes, MadeTypes
<1>3. CASE EndSpawn(s, "usage") \/ EndSpawn(s, "docker")
  BY <1>1, <1>3 DEF EndSpawn, Go, Endings, StageInv, Stage, SpawnInv, CommandTypes, MadeTypes
<1>4. QED
  BY <1>2, <1>3 DEF InspectImage

\* The report names what was started, if it is there at all.
LEMMA ReportStage ==
  ASSUME StageInv, NEW s \in Spawners, Report(s)
  PROVE  /\ ended' \in [Spawners -> Endings] /\ reported' \in [Spawners -> Ids \cup Names \cup {None}]
         /\ Stage(s)'
<1>1. mine[s] \in Ids /\ Own(s) = {mine[s]} /\ mine[s] \in started /\ Own(s)' = Own(s)
  BY DEF Report, StageInv, Stage, Own, spawnHistory
<1>2. containers[mine[s]] # None => containers[mine[s]].name \in Ids \cup Names
  BY <1>1 DEF StageInv, SpawnInv, EngineTypes, Container
<1>3. PICK name \in Ids \cup Names :
        /\ reported' = [reported EXCEPT ![s] = name]
        /\ containers[mine[s]] # None => name \in {mine[s], containers[mine[s]].name}
  BY <1>1, <1>2 DEF Report
<1>4. reported' \in [Spawners -> Ids \cup Names \cup {None}] /\ reported'[s] = name
  BY <1>3 DEF StageInv, MadeTypes
<1>5. ended' \in [Spawners -> Endings] /\ ended'[s] = "success" /\ phase'[s] = "idle"
  BY DEF Report, EndSpawn, Go, Endings, StageInv, MadeTypes, SpawnInv, CommandTypes
<1>6. UNCHANGED <<mine, containers, made, started>>
  BY DEF Report, spawnHistory
<1>7. QED
  BY <1>1, <1>3, <1>4, <1>5, <1>6 DEF Stage

\* The steps that leave the engine alone.
LEMMA QuietStage ==
  ASSUME StageInv, NEW s \in Spawners,
         Validate(s) \/ InspectImage(s) \/ Report(s) \/ CrashSpawn(s)
  PROVE  MadeTypes' /\ (\A t \in Spawners : Stage(t)')
<1>1. UNCHANGED <<containers, made, started>>
  BY DEF Validate, InspectImage, Report, CrashSpawn, spawnHistory
<1>2. NamesKept /\ \A t \in Spawners : Own(t)' = Own(t)
  BY <1>1, SameNames DEF Own
<1>3. Stage(s)' /\ ended' \in [Spawners -> Endings]
         /\ reported' \in [Spawners -> Ids \cup Names \cup {None}]
  <2>1. CASE Validate(s) \/ InspectImage(s)
    BY <2>1, ValidateStage, InspectStage DEF Validate, InspectImage, StageInv, MadeTypes
  <2>2. CASE Report(s)
    BY <2>2, ReportStage
  <2>3. CASE CrashSpawn(s)
    BY <2>3, FailureTellsNothing, EndingsKept DEF CrashSpawn, StageInv, MadeTypes, Endings
  <2>4. QED
    BY <2>1, <2>2, <2>3
<1>4. ASSUME NEW t \in Spawners, t # s  PROVE Stage(t)'
  BY <1>1, <1>2, <1>4, StepsAside, AsideKeeps
<1>5. QED
  BY <1>1, <1>3, <1>4 DEF StageInv, MadeTypes

\* A container is created under an id nobody was given.
LEMMA CreateStage ==
  ASSUME StageInv, NEW s \in Spawners, Create(s)
  PROVE  MadeTypes' /\ (\A t \in Spawners : Stage(t)')
<1>1. phase[s] = "create" /\ ended[s] = "none" /\ Own(s) = {} /\ started' = started
         /\ reported' = reported
  BY DEF Create, StageInv, Stage
<1>2. ended' \in [Spawners -> Endings]
  BY EndingsKept DEF Create, StageInv, MadeTypes, Endings
<1>3. CASE UNCHANGED <<containers, made>>
  <2>1. EndSpawn(s, "docker")
    <3>1. ASSUME NEW id \in Ids, Creates(s, id), UNCHANGED made  PROVE FALSE
      BY <3>1, SpawnAssumption DEF Creates, Unused, StageInv, MadeTypes
    <3>2. QED
      BY <1>3, <3>1 DEF Create
  <2>2. NamesKept /\ \A t \in Spawners : Own(t)' = Own(t)
    BY <1>3, SameNames DEF Own
  <2>3. ASSUME NEW t \in Spawners, t # s  PROVE Stage(t)'
    BY <1>1, <2>2, <2>3, StepsAside, AsideKeeps
  <2>4. QED
    BY <1>1, <1>2, <1>3, <2>1, <2>3, FailureTellsNothing DEF StageInv, MadeTypes
<1>4. ASSUME NEW id \in Ids, Creates(s, id),
             \/ mine' = [mine EXCEPT ![s] = id] /\ Go(s, "start") /\ UNCHANGED ended
             \/ EndSpawn(s, "docker")
      PROVE  MadeTypes' /\ (\A t \in Spawners : Stage(t)')
  <2>1. /\ made[id] = None /\ made' = [made EXCEPT ![id] = s]
        /\ containers' = [containers EXCEPT ![id] = NewContainer(request[s], id)]
    BY <1>4 DEF Creates, Unused
  <2>2. Own(s)' = {id} /\ \A t \in Spawners : t # s => Own(t)' = Own(t)
    BY <1>1, <2>1, SpawnAssumption DEF Own, StageInv, MadeTypes
  <2>3. MadeTypes'
    BY <1>1, <1>2, <2>1, SpawnAssumption DEF StageInv, MadeTypes, SpawnInv, EngineTypes
  <2>4. NamesKept
    BY <2>1 DEF NamesKept, StageInv, MadeTypes, SpawnInv, EngineTypes
  <2>5. ASSUME NEW t \in Spawners, t # s  PROVE Stage(t)'
    BY <1>1, <2>2, <2>4, <2>5, StepsAside, AsideKeeps
  <2>6. CASE mine' = [mine EXCEPT ![s] = id] /\ Go(s, "start") /\ UNCHANGED ended
    <3>1. mine'[s] = id /\ phase'[s] = "start" /\ ended'[s] = "none"
      BY <1>1, <2>6 DEF Go, StageInv, SpawnInv, CommandTypes
    <3>2. Stage(s)'
      BY <2>2, <3>1 DEF Stage
    <3>3. QED
      BY <2>3, <2>5, <3>2
  <2>7. QED
    BY <1>4, <2>3, <2>5, <2>6, FailureTellsNothing
<1>5. QED
  BY <1>3, <1>4 DEF Create

\* What the others do leaves every command where it is.
LEMMA OthersStage ==
  ASSUME StageInv, NEW id \in Ids,
         Reclaim(id) \/ UserStarts(id) \/ Pauses(id) \/ UserRemoves(id) \/ Exits(id)
  PROVE  MadeTypes' /\ (\A t \in Spawners : Stage(t)')
<1>1. UNCHANGED requestVars /\ UNCHANGED made /\ started \subseteq started'
  BY DEF Reclaim, UserStarts, Pauses, UserRemoves, Exits, spawnHistory
<1>2. NamesKept
  <2>1. CASE Reclaim(id) \/ UserRemoves(id)
    BY <2>1, GoneKeepsNames DEF Reclaim, UserRemoves
  <2>2. CASE UserStarts(id) \/ Exits(id)
    BY <2>2, GoneKeepsNames, TurnsKeepNames DEF UserStarts, Exits, Started, Exited
  <2>3. CASE Pauses(id)
    <3>1. containers[id] \in Container
      BY <2>3 DEF Pauses, StageInv, SpawnInv, EngineTypes
    <3>2. [containers[id] EXCEPT !.state = IF @ = "paused" THEN "running" ELSE "paused"].name
            = containers[id].name
      BY <3>1 DEF Container
    <3>3. QED
      BY <2>3, <3>2 DEF Pauses, NamesKept, StageInv, SpawnInv, EngineTypes
  <2>4. QED
    BY <2>1, <2>2, <2>3
<1>3. MadeTypes'
  <2>1. ASSUME NEW i \in Ids, containers'[i] # None  PROVE containers[i] # None
    BY <2>1 DEF Reclaim, UserStarts, Pauses, UserRemoves, Exits, Started, Exited, Turns,
                StageInv, SpawnInv, EngineTypes
  <2>2. QED
    BY <1>1, <2>1 DEF requestVars, StageInv, MadeTypes
<1>4. QED
  BY <1>1, <1>2, <1>3, AsideKeeps DEF requestVars, Aside, Own

LEMMA TickStage ==
  ASSUME StageInv, Tick
  PROVE  MadeTypes' /\ (\A t \in Spawners : Stage(t)')
<1>1. UNCHANGED <<requestVars, made, started>>
  BY DEF Tick, spawnHistory
<1>2. ASSUME NEW id \in Ids, containers'[id] # None
      PROVE  containers[id] # None /\ containers'[id].name = containers[id].name
  <2>1. containers'[id] = IF containers[id] # None /\ containers[id].age < MaxAge
                          THEN [containers[id] EXCEPT !.age = @ + 1] ELSE containers[id]
    BY DEF Tick
  <2>2. containers[id] # None
    BY <1>2, <2>1
  <2>3. containers[id] \in Container
    BY <2>2 DEF StageInv, SpawnInv, EngineTypes
  <2>4. [containers[id] EXCEPT !.age = @ + 1].name = containers[id].name
    BY <2>3 DEF Container
  <2>5. QED
    BY <2>1, <2>2, <2>4
<1>3. NamesKept
  BY <1>2 DEF NamesKept
<1>4. MadeTypes'
  BY <1>1, <1>2 DEF requestVars, StageInv, MadeTypes
<1>5. QED
  BY <1>1, <1>3, <1>4, AsideKeeps DEF requestVars, Aside, Own

LEMMA StageInvStep ==
  ASSUME StageInv, [SpawnNext]_spawnVars, SpawnInv'
  PROVE  StageInv'
<1>1. CASE ImageMoves \/ UNCHANGED spawnVars
  <2>1. UNCHANGED <<containers, requestVars, made, started>>
    BY <1>1 DEF ImageMoves, spawnVars, spawnHistory
  <2>2. NamesKept /\ MadeTypes'
    BY <2>1, SameNames DEF requestVars, StageInv, MadeTypes
  <2>3. ASSUME NEW t \in Spawners  PROVE Stage(t)'
    BY <2>1, <2>2, AsideKeeps DEF requestVars, Aside, Own
  <2>4. QED
    BY <2>2, <2>3 DEF StageInv
<1>2. QED
  BY <1>1, QuietStage, CreateStage, StartStage, OthersStage, TickStage DEF SpawnNext, StageInv

\* What a spawn's exit code says is there is there, for any number of commands
\* that run at once and whatever cleaners, users and the engine do meanwhile: a
\* usage error has created nothing, a success one container, which has been
\* started, which the report names and which the survey recognises.
THEOREM ExitCodesReportWhatExists == SpawnSpec => []ReportsWhatExists
<1>1. SpawnInit => StageInv
  BY SpawnInvInit, SpawnAssumption DEF SpawnInit, StageInv, MadeTypes, Stage, Own, Endings, SpawnInv
<1>2. StageInv /\ [SpawnNext]_spawnVars => StageInv'
  BY SpawnInvStep, StageInvStep DEF StageInv
<1>3. StageInv => ReportsWhatExists
  <2> SUFFICES ASSUME StageInv, NEW s \in Spawners, ended[s] = "success",
                      containers[mine[s]] # None
               PROVE  \E l \in containers[mine[s]].body.labels : IsKnown(l[1])
    BY SpawnAssumption DEF ReportsWhatExists, StageInv, Stage, Own
  <2>1. containers[mine[s]] \in Container
    BY DEF StageInv, Stage, SpawnInv, EngineTypes
  <2>2. PICK r \in Requests : containers[mine[s]].body = ContainerBody(r)
    BY <2>1 DEF Container
  <2>3. <<managed_key, "true">> \in containers[mine[s]].body.labels
    BY <2>2 DEF ContainerBody, Stamp
  <2>4. <<managed_key, "true">>[1] = managed_key
    OBVIOUS
  <2>5. QED
    BY <2>3, <2>4, ManagedIsKnown
<1>4. QED
  BY <1>1, <1>2, <1>3, PTL DEF SpawnSpec

-----------------------------------------------------------------------------
(* What is left of a command *)

Words ==
  {"arguments", "load", "snapshot", "inventory", "record", "decide", "journal", "execute", "finish",
   "report", "conflict", "update", "last_pass", "identity", "terminal", "interval", "signals",
   "announce", "begin", "result", "wake", "clock", "prefixes", "propose", "proposal", "write",
   "install", "image", "create", "start", "observe", "screen", "session", "plan", "adopt", "stale",
   "shown", "prefix", "settings"}

\* The steps whose failure tells that nothing was changed before them.
Early ==
  {"arguments", "load", "conflict", "terminal", "interval", "prefixes", "propose", "proposal", "write",
   "install", "image", "prefix", "settings"}

\* The terminal loads and fails again after it has changed something.
Firm(v) == IF v = "tui" THEN {"arguments", "terminal"} ELSE Early

\* What the terminal does: before its session, and in it.
SessionWords ==
  {"load", "snapshot", "clock", "observe", "last_pass", "screen", "session", "inventory", "record",
   "plan", "adopt", "stale", "shown", "write", "update", "prefix", "journal", "execute", "finish"}
TuiWords == {"arguments", "terminal"} \cup SessionWords

Interactive == {"session", "stale", "shown"}

\* The only one of these steps that is left is the last of all.
EndsWith(steps, last, others) ==
  /\ Len(steps) > 0
  /\ \A n \in 1..Len(steps) : steps[n] = last <=> n = Len(steps)
  /\ \A n \in 1..Len(steps) : steps[n] \notin others

\* The rest of a one-shot command: early steps come before any that writes, only
\* observations are written by a preview, and a cleanup writes to its journal.
OnceLeft(v, steps) ==
  /\ steps \in Seq(Words) /\ Len(steps) > 0
  /\ IF v = "tui" THEN \A n \in 1..Len(steps) : steps[n] \in TuiWords
     ELSE EndsWith(steps, "report", {"announce", "begin", "result", "wake"} \cup Interactive)
  /\ v # "tui" => \A n \in 1..Len(steps) :
       /\ steps[n] = "write" => v = "config_write"
       /\ steps[n] = "install" => v = "init"
  /\ \A m, n \in 1..Len(steps) : m < n /\ Stores(steps[m]) # {} => steps[n] \notin Firm(v)
  /\ v \in {"plan", "clean"} => \A n \in 1..Len(steps) : Stores(steps[n]) \subseteq {"observations"}

\* The rest of a daemon before its loop, and of a round of it.
StartLeft(steps) ==
  /\ steps \in Seq(Words)
  /\ EndsWith(steps, "announce", {"report", "begin", "result", "wake"} \cup Interactive)
  /\ \A n \in 1..Len(steps) : Stores(steps[n]) = {}

RoundLeft(steps) ==
  /\ steps \in Seq(Words)
  /\ EndsWith(steps, "wake", {"report", "announce"} \cup Interactive)
  /\ \A n \in 1..Len(steps) :
       /\ steps[n] = "begin" => n = 1
       /\ steps[n] = "result" <=> n = Len(steps) - 1

\* The journal is written right before anything is removed.
Paired(steps) == \A n \in 1..Len(steps) : steps[n] = "execute" => n > 1 /\ steps[n - 1] = "journal"

LEMMA OnceSteps ==
  ASSUME NEW v \in OneShot
  PROVE  /\ OnceLeft(v, Steps(v)) /\ Paired(Steps(v))
         /\ v = "clean_apply" => \E n \in 1..Len(Steps(v)) : Steps(v)[n] = "finish"
<1> DEFINE s == Steps(v)
<1>1. CASE v \in {"plan", "clean"}
  <2>1. s = <<"arguments">> \o (PrepareSteps \o <<"report">>)
    BY <1>1 DEF Steps, Daemons
  <2> HIDE DEF s
  <2>2. s \in Seq(Words) /\ Len(s) = 7
    BY <2>1 DEF PrepareSteps, ApplySteps, Words
  <2>3. /\ s[1] = "arguments" /\ s[2] = "load" /\ s[3] = "snapshot" /\ s[4] = "inventory"
        /\ s[5] = "record" /\ s[6] = "decide" /\ s[7] = "report"
    BY <2>1 DEF PrepareSteps, ApplySteps
  <2>4. \A n \in 1..Len(s) : n = 1 \/ n = 2 \/ n = 3 \/ n = 4 \/ n = 5 \/ n = 6 \/ n = 7
    BY <2>2
  <2>5. EndsWith(s, "report", {"announce", "begin", "result", "wake"} \cup Interactive)
    BY <2>2, <2>3, <2>4 DEF EndsWith, Interactive
  <2>6. \A m, n \in 1..Len(s) : m < n /\ Stores(s[m]) # {} => s[n] \notin Firm(v)
    BY <1>1, <2>2, <2>3, <2>4 DEF Firm, Early, Stores
  <2>7. \A n \in 1..Len(s) : (s[n] = "write" => v = "config_write") /\ (s[n] = "install" => v = "init")
    BY <1>1, <2>2, <2>3, <2>4
  <2>8. Paired(s)
    BY <2>2, <2>3, <2>4 DEF Paired
  <2>9. \A n \in 1..Len(s) : Stores(s[n]) \subseteq {"observations"}
    BY <2>2, <2>3, <2>4 DEF Stores
  <2>10. OnceLeft(v, s)
    BY <1>1, <2>2, <2>5, <2>6, <2>7, <2>9 DEF OnceLeft
  <2> QED BY <1>1, <2>8, <2>10 DEF s
<1>2. CASE v = "clean_apply"
  <2>1. s = <<"arguments">> \o (PrepareSteps \o ApplySteps \o <<"report">>)
    BY <1>2 DEF Steps, Daemons
  <2> HIDE DEF s
  <2>2. s \in Seq(Words) /\ Len(s) = 10
    BY <2>1 DEF PrepareSteps, ApplySteps, Words
  <2>3. /\ s[1] = "arguments" /\ s[2] = "load" /\ s[3] = "snapshot" /\ s[4] = "inventory"
        /\ s[5] = "record" /\ s[6] = "decide" /\ s[7] = "journal" /\ s[8] = "execute"
        /\ s[9] = "finish" /\ s[10] = "report"
    BY <2>1 DEF PrepareSteps, ApplySteps
  <2>4. \A n \in 1..Len(s) : \/ n = 1 \/ n = 2 \/ n = 3 \/ n = 4 \/ n = 5 \/ n = 6
                             \/ n = 7 \/ n = 8 \/ n = 9 \/ n = 10
    BY <2>2
  <2>5. EndsWith(s, "report", {"announce", "begin", "result", "wake"} \cup Interactive)
    BY <2>2, <2>3, <2>4 DEF EndsWith, Interactive
  <2>6. \A m, n \in 1..Len(s) : m < n /\ Stores(s[m]) # {} => s[n] \notin Firm(v)
    BY <1>2, <2>2, <2>3, <2>4 DEF Firm, Early, Stores
  <2>7. \A n \in 1..Len(s) : (s[n] = "write" => v = "config_write") /\ (s[n] = "install" => v = "init")
    BY <1>2, <2>2, <2>3, <2>4
  <2>8. Paired(s)
    BY <2>2, <2>3, <2>4 DEF Paired
  <2>9. \E n \in 1..Len(s) : s[n] = "finish"
    BY <2>2, <2>3
  <2>10. OnceLeft(v, s)
    BY <1>2, <2>2, <2>5, <2>6, <2>7 DEF OnceLeft
  <2> QED BY <1>2, <2>8, <2>9, <2>10 DEF s
<1>3. CASE v = "status"
  <2>1. s = <<"arguments">> \o (PrepareSteps \o <<"last_pass", "identity", "report">>)
    BY <1>3 DEF Steps, Daemons
  <2> HIDE DEF s
  <2>2. s \in Seq(Words) /\ Len(s) = 9
    BY <2>1 DEF PrepareSteps, ApplySteps, Words
  <2>3. /\ s[1] = "arguments" /\ s[2] = "load" /\ s[3] = "snapshot" /\ s[4] = "inventory"
        /\ s[5] = "record" /\ s[6] = "decide" /\ s[7] = "last_pass" /\ s[8] = "identity"
        /\ s[9] = "report"
    BY <2>1 DEF PrepareSteps, ApplySteps
  <2>4. \A n \in 1..Len(s) : \/ n = 1 \/ n = 2 \/ n = 3 \/ n = 4 \/ n = 5 \/ n = 6
                             \/ n = 7 \/ n = 8 \/ n = 9
    BY <2>2
  <2>5. EndsWith(s, "report", {"announce", "begin", "result", "wake"} \cup Interactive)
    BY <2>2, <2>3, <2>4 DEF EndsWith, Interactive
  <2>6. \A m, n \in 1..Len(s) : m < n /\ Stores(s[m]) # {} => s[n] \notin Firm(v)
    BY <1>3, <2>2, <2>3, <2>4 DEF Firm, Early, Stores
  <2>7. \A n \in 1..Len(s) : (s[n] = "write" => v = "config_write") /\ (s[n] = "install" => v = "init")
    BY <1>3, <2>2, <2>3, <2>4
  <2>8. Paired(s)
    BY <2>2, <2>3, <2>4 DEF Paired
  <2>10. OnceLeft(v, s)
    BY <1>3, <2>2, <2>5, <2>6, <2>7 DEF OnceLeft
  <2> QED BY <1>3, <2>8, <2>10 DEF s
<1>4. CASE v = "protect"
  <2>1. s = <<"arguments">> \o <<"update", "snapshot", "report">>
    BY <1>4 DEF Steps, Daemons
  <2> HIDE DEF s
  <2>2. s \in Seq(Words) /\ Len(s) = 4
    BY <2>1 DEF Words
  <2>3. /\ s[1] = "arguments" /\ s[2] = "update" /\ s[3] = "snapshot" /\ s[4] = "report"
    BY <2>1
  <2>4. \A n \in 1..Len(s) : n = 1 \/ n = 2 \/ n = 3 \/ n = 4
    BY <2>2
  <2>5. EndsWith(s, "report", {"announce", "begin", "result", "wake"} \cup Interactive)
    BY <2>2, <2>3, <2>4 DEF EndsWith, Interactive
  <2>6. \A m, n \in 1..Len(s) : m < n /\ Stores(s[m]) # {} => s[n] \notin Firm(v)
    BY <1>4, <2>2, <2>3, <2>4 DEF Firm, Early, Stores
  <2>7. \A n \in 1..Len(s) : (s[n] = "write" => v = "config_write") /\ (s[n] = "install" => v = "init")
    BY <1>4, <2>2, <2>3, <2>4
  <2>8. Paired(s)
    BY <2>2, <2>3, <2>4 DEF Paired
  <2>10. OnceLeft(v, s)
    BY <1>4, <2>2, <2>5, <2>6, <2>7 DEF OnceLeft
  <2> QED BY <1>4, <2>8, <2>10 DEF s
<1>5. CASE v = "unprotect"
  <2>1. s = <<"arguments">> \o <<"conflict", "update", "snapshot", "report">>
    BY <1>5 DEF Steps, Daemons
  <2> HIDE DEF s
  <2>2. s \in Seq(Words) /\ Len(s) = 5
    BY <2>1 DEF Words
  <2>3. /\ s[1] = "arguments" /\ s[2] = "conflict" /\ s[3] = "update" /\ s[4] = "snapshot"
        /\ s[5] = "report"
    BY <2>1
  <2>4. \A n \in 1..Len(s) : n = 1 \/ n = 2 \/ n = 3 \/ n = 4 \/ n = 5
    BY <2>2
  <2>5. EndsWith(s, "report", {"announce", "begin", "result", "wake"} \cup Interactive)
    BY <2>2, <2>3, <2>4 DEF EndsWith, Interactive
  <2>6. \A m, n \in 1..Len(s) : m < n /\ Stores(s[m]) # {} => s[n] \notin Firm(v)
    BY <1>5, <2>2, <2>3, <2>4 DEF Firm, Early, Stores
  <2>7. \A n \in 1..Len(s) : (s[n] = "write" => v = "config_write") /\ (s[n] = "install" => v = "init")
    BY <1>5, <2>2, <2>3, <2>4
  <2>8. Paired(s)
    BY <2>2, <2>3, <2>4 DEF Paired
  <2>10. OnceLeft(v, s)
    BY <1>5, <2>2, <2>5, <2>6, <2>7 DEF OnceLeft
  <2> QED BY <1>5, <2>8, <2>10 DEF s
<1>6. CASE v = "stamp"
  <2>1. s = <<"arguments">> \o <<"report">>
    BY <1>6 DEF Steps, Daemons
  <2> HIDE DEF s
  <2>2. s \in Seq(Words) /\ Len(s) = 2
    BY <2>1 DEF Words
  <2>3. /\ s[1] = "arguments" /\ s[2] = "report"
    BY <2>1
  <2>4. \A n \in 1..Len(s) : n = 1 \/ n = 2
    BY <2>2
  <2>5. EndsWith(s, "report", {"announce", "begin", "result", "wake"} \cup Interactive)
    BY <2>2, <2>3, <2>4 DEF EndsWith, Interactive
  <2>6. \A m, n \in 1..Len(s) : m < n /\ Stores(s[m]) # {} => s[n] \notin Firm(v)
    BY <1>6, <2>2, <2>3, <2>4 DEF Firm, Early, Stores
  <2>7. \A n \in 1..Len(s) : (s[n] = "write" => v = "config_write") /\ (s[n] = "install" => v = "init")
    BY <1>6, <2>2, <2>3, <2>4
  <2>8. Paired(s)
    BY <2>2, <2>3, <2>4 DEF Paired
  <2>10. OnceLeft(v, s)
    BY <1>6, <2>2, <2>5, <2>6, <2>7 DEF OnceLeft
  <2> QED BY <1>6, <2>8, <2>10 DEF s
<1>7. CASE v = "config_check"
  <2>1. s = <<"arguments">> \o <<"load", "report">>
    BY <1>7 DEF Steps, Daemons
  <2> HIDE DEF s
  <2>2. s \in Seq(Words) /\ Len(s) = 3
    BY <2>1 DEF Words
  <2>3. /\ s[1] = "arguments" /\ s[2] = "load" /\ s[3] = "report"
    BY <2>1
  <2>4. \A n \in 1..Len(s) : n = 1 \/ n = 2 \/ n = 3
    BY <2>2
  <2>5. EndsWith(s, "report", {"announce", "begin", "result", "wake"} \cup Interactive)
    BY <2>2, <2>3, <2>4 DEF EndsWith, Interactive
  <2>6. \A m, n \in 1..Len(s) : m < n /\ Stores(s[m]) # {} => s[n] \notin Firm(v)
    BY <1>7, <2>2, <2>3, <2>4 DEF Firm, Early, Stores
  <2>7. \A n \in 1..Len(s) : (s[n] = "write" => v = "config_write") /\ (s[n] = "install" => v = "init")
    BY <1>7, <2>2, <2>3, <2>4
  <2>8. Paired(s)
    BY <2>2, <2>3, <2>4 DEF Paired
  <2>10. OnceLeft(v, s)
    BY <1>7, <2>2, <2>5, <2>6, <2>7 DEF OnceLeft
  <2> QED BY <1>7, <2>8, <2>10 DEF s
<1>8. CASE v = "config_survey"
  <2>1. s = <<"arguments">> \o <<"settings", "inventory", "snapshot", "clock", "report">>
    BY <1>8 DEF Steps, Daemons
  <2> HIDE DEF s
  <2>2. s \in Seq(Words) /\ Len(s) = 6
    BY <2>1 DEF Words
  <2>3. /\ s[1] = "arguments" /\ s[2] = "settings" /\ s[3] = "inventory" /\ s[4] = "snapshot"
        /\ s[5] = "clock" /\ s[6] = "report"
    BY <2>1
  <2>4. \A n \in 1..Len(s) : n = 1 \/ n = 2 \/ n = 3 \/ n = 4 \/ n = 5 \/ n = 6
    BY <2>2
  <2>5. EndsWith(s, "report", {"announce", "begin", "result", "wake"} \cup Interactive)
    BY <2>2, <2>3, <2>4 DEF EndsWith, Interactive
  <2>6. \A m, n \in 1..Len(s) : m < n /\ Stores(s[m]) # {} => s[n] \notin Firm(v)
    BY <1>8, <2>2, <2>3, <2>4 DEF Firm, Early, Stores
  <2>7. \A n \in 1..Len(s) : (s[n] = "write" => v = "config_write") /\ (s[n] = "install" => v = "init")
    BY <1>8, <2>2, <2>3, <2>4
  <2>8. Paired(s)
    BY <2>2, <2>3, <2>4 DEF Paired
  <2>10. OnceLeft(v, s)
    BY <1>8, <2>2, <2>5, <2>6, <2>7 DEF OnceLeft
  <2> QED BY <1>8, <2>8, <2>10 DEF s
<1>9. CASE v = "config_propose"
  <2>1. s = <<"arguments">> \o <<"settings", "inventory", "prefixes", "load", "snapshot", "clock", "propose", "report">>
    BY <1>9 DEF Steps, Daemons
  <2> HIDE DEF s
  <2>2. s \in Seq(Words) /\ Len(s) = 9
    BY <2>1 DEF Words
  <2>3. /\ s[1] = "arguments" /\ s[2] = "settings" /\ s[3] = "inventory" /\ s[4] = "prefixes"
        /\ s[5] = "load" /\ s[6] = "snapshot" /\ s[7] = "clock" /\ s[8] = "propose"
        /\ s[9] = "report"
    BY <2>1
  <2>4. \A n \in 1..Len(s) : \/ n = 1 \/ n = 2 \/ n = 3 \/ n = 4 \/ n = 5 \/ n = 6
                             \/ n = 7 \/ n = 8 \/ n = 9
    BY <2>2
  <2>5. EndsWith(s, "report", {"announce", "begin", "result", "wake"} \cup Interactive)
    BY <2>2, <2>3, <2>4 DEF EndsWith, Interactive
  <2>6. \A m, n \in 1..Len(s) : m < n /\ Stores(s[m]) # {} => s[n] \notin Firm(v)
    BY <1>9, <2>2, <2>3, <2>4 DEF Firm, Early, Stores
  <2>7. \A n \in 1..Len(s) : (s[n] = "write" => v = "config_write") /\ (s[n] = "install" => v = "init")
    BY <1>9, <2>2, <2>3, <2>4
  <2>8. Paired(s)
    BY <2>2, <2>3, <2>4 DEF Paired
  <2>10. OnceLeft(v, s)
    BY <1>9, <2>2, <2>5, <2>6, <2>7 DEF OnceLeft
  <2> QED BY <1>9, <2>8, <2>10 DEF s
<1>10. CASE v = "config_write"
  <2>1. s = <<"arguments">> \o <<"proposal", "inventory", "write", "report">>
    BY <1>10 DEF Steps, Daemons
  <2> HIDE DEF s
  <2>2. s \in Seq(Words) /\ Len(s) = 5
    BY <2>1 DEF Words
  <2>3. /\ s[1] = "arguments" /\ s[2] = "proposal" /\ s[3] = "inventory" /\ s[4] = "write"
        /\ s[5] = "report"
    BY <2>1
  <2>4. \A n \in 1..Len(s) : n = 1 \/ n = 2 \/ n = 3 \/ n = 4 \/ n = 5
    BY <2>2
  <2>5. EndsWith(s, "report", {"announce", "begin", "result", "wake"} \cup Interactive)
    BY <2>2, <2>3, <2>4 DEF EndsWith, Interactive
  <2>6. \A m, n \in 1..Len(s) : m < n /\ Stores(s[m]) # {} => s[n] \notin Firm(v)
    BY <1>10, <2>2, <2>3, <2>4 DEF Firm, Early, Stores
  <2>7. \A n \in 1..Len(s) : (s[n] = "write" => v = "config_write") /\ (s[n] = "install" => v = "init")
    BY <1>10, <2>2, <2>3, <2>4
  <2>8. Paired(s)
    BY <2>2, <2>3, <2>4 DEF Paired
  <2>10. OnceLeft(v, s)
    BY <1>10, <2>2, <2>5, <2>6, <2>7 DEF OnceLeft
  <2> QED BY <1>10, <2>8, <2>10 DEF s
<1>11. CASE v = "init"
  <2>1. s = <<"arguments">> \o <<"install", "report">>
    BY <1>11 DEF Steps, Daemons
  <2> HIDE DEF s
  <2>2. s \in Seq(Words) /\ Len(s) = 3
    BY <2>1 DEF Words
  <2>3. /\ s[1] = "arguments" /\ s[2] = "install" /\ s[3] = "report"
    BY <2>1
  <2>4. \A n \in 1..Len(s) : n = 1 \/ n = 2 \/ n = 3
    BY <2>2
  <2>5. EndsWith(s, "report", {"announce", "begin", "result", "wake"} \cup Interactive)
    BY <2>2, <2>3, <2>4 DEF EndsWith, Interactive
  <2>6. \A m, n \in 1..Len(s) : m < n /\ Stores(s[m]) # {} => s[n] \notin Firm(v)
    BY <1>11, <2>2, <2>3, <2>4 DEF Firm, Early, Stores
  <2>7. \A n \in 1..Len(s) : (s[n] = "write" => v = "config_write") /\ (s[n] = "install" => v = "init")
    BY <1>11, <2>2, <2>3, <2>4
  <2>8. Paired(s)
    BY <2>2, <2>3, <2>4 DEF Paired
  <2>10. OnceLeft(v, s)
    BY <1>11, <2>2, <2>5, <2>6, <2>7 DEF OnceLeft
  <2> QED BY <1>11, <2>8, <2>10 DEF s
<1>12. CASE v = "spawn"
  <2>1. s = <<"arguments">> \o <<"image", "create", "start", "report">>
    BY <1>12 DEF Steps, Daemons
  <2> HIDE DEF s
  <2>2. s \in Seq(Words) /\ Len(s) = 5
    BY <2>1 DEF Words
  <2>3. /\ s[1] = "arguments" /\ s[2] = "image" /\ s[3] = "create" /\ s[4] = "start"
        /\ s[5] = "report"
    BY <2>1
  <2>4. \A n \in 1..Len(s) : n = 1 \/ n = 2 \/ n = 3 \/ n = 4 \/ n = 5
    BY <2>2
  <2>5. EndsWith(s, "report", {"announce", "begin", "result", "wake"} \cup Interactive)
    BY <2>2, <2>3, <2>4 DEF EndsWith, Interactive
  <2>6. \A m, n \in 1..Len(s) : m < n /\ Stores(s[m]) # {} => s[n] \notin Firm(v)
    BY <1>12, <2>2, <2>3, <2>4 DEF Firm, Early, Stores
  <2>7. \A n \in 1..Len(s) : (s[n] = "write" => v = "config_write") /\ (s[n] = "install" => v = "init")
    BY <1>12, <2>2, <2>3, <2>4
  <2>8. Paired(s)
    BY <2>2, <2>3, <2>4 DEF Paired
  <2>10. OnceLeft(v, s)
    BY <1>12, <2>2, <2>5, <2>6, <2>7 DEF OnceLeft
  <2> QED BY <1>12, <2>8, <2>10 DEF s
<1>13. CASE v = "tui"
  <2>1. s = <<"arguments">> \o <<"terminal", "load", "snapshot", "clock", "observe", "last_pass", "screen", "session">>
    BY <1>13 DEF Steps, Daemons
  <2> HIDE DEF s
  <2>2. s \in Seq(Words) /\ Len(s) = 9
    BY <2>1 DEF Words
  <2>3. /\ s[1] = "arguments" /\ s[2] = "terminal" /\ s[3] = "load" /\ s[4] = "snapshot"
        /\ s[5] = "clock" /\ s[6] = "observe" /\ s[7] = "last_pass" /\ s[8] = "screen"
        /\ s[9] = "session"
    BY <2>1
  <2>4. \A n \in 1..Len(s) : \/ n = 1 \/ n = 2 \/ n = 3 \/ n = 4 \/ n = 5 \/ n = 6
                             \/ n = 7 \/ n = 8 \/ n = 9
    BY <2>2
  <2>5. \A n \in 1..Len(s) : s[n] \in TuiWords
    BY <2>2, <2>3, <2>4 DEF TuiWords, SessionWords
  <2>6. \A m, n \in 1..Len(s) : m < n /\ Stores(s[m]) # {} => s[n] \notin Firm(v)
    BY <1>13, <2>2, <2>3, <2>4 DEF Firm, Early, Stores
  <2>8. Paired(s)
    BY <2>2, <2>3, <2>4 DEF Paired
  <2>10. OnceLeft(v, s)
    BY <1>13, <2>2, <2>5, <2>6 DEF OnceLeft
  <2> QED BY <1>13, <2>8, <2>10 DEF s
<1> QED BY <1>1, <1>2, <1>3, <1>4, <1>5, <1>6, <1>7, <1>8, <1>9, <1>10, <1>11, <1>12, <1>13 DEF OneShot

LEMMA DaemonSteps == \A v \in Daemons : StartLeft(Steps(v)) /\ Paired(Steps(v))
<1> SUFFICES ASSUME NEW v \in Daemons PROVE StartLeft(Steps(v)) /\ Paired(Steps(v))
  OBVIOUS
<1> DEFINE s == Steps(v)
<1>1. s = <<"arguments">> \o <<"load", "interval", "signals", "announce">>
  BY DEF Steps, Daemons
<1> HIDE DEF s
<1>2. s \in Seq(Words) /\ Len(s) = 5
  BY <1>1 DEF Words
<1>3. s[1] = "arguments" /\ s[2] = "load" /\ s[3] = "interval" /\ s[4] = "signals" /\ s[5] = "announce"
  BY <1>1
<1>4. \A n \in 1..Len(s) : n = 1 \/ n = 2 \/ n = 3 \/ n = 4 \/ n = 5
  BY <1>2
<1>5. EndsWith(s, "announce", {"report", "begin", "result", "wake"} \cup Interactive)
  BY <1>2, <1>3, <1>4 DEF EndsWith, Interactive
<1>6. \A n \in 1..Len(s) : Stores(s[n]) = {}
  BY <1>2, <1>3, <1>4 DEF Stores
<1>7. Paired(s)
  BY <1>2, <1>3, <1>4 DEF Paired
<1> QED BY <1>2, <1>5, <1>6, <1>7 DEF s, StartLeft

LEMMA RoundSteps == RoundLeft(PassSteps) /\ Paired(PassSteps) /\ Head(PassSteps) = "begin"
<1> DEFINE s == PassSteps
<1>1. CASE verb \in Applies
  <2>1. s = <<"begin">> \o PrepareSteps \o <<"interval">> \o ApplySteps \o <<"result", "wake">>
    BY <1>1 DEF PassSteps
  <2> HIDE DEF s
  <2>2. s \in Seq(Words) /\ Len(s) = 12
    BY <2>1 DEF PrepareSteps, ApplySteps, Words
  <2>3. /\ s[1] = "begin" /\ s[2] = "load" /\ s[3] = "snapshot" /\ s[4] = "inventory"
        /\ s[5] = "record" /\ s[6] = "decide" /\ s[7] = "interval" /\ s[8] = "journal"
        /\ s[9] = "execute" /\ s[10] = "finish" /\ s[11] = "result" /\ s[12] = "wake"
    BY <2>1 DEF PrepareSteps, ApplySteps
  <2>4. \A n \in 1..Len(s) : \/ n = 1 \/ n = 2 \/ n = 3 \/ n = 4 \/ n = 5 \/ n = 6
                             \/ n = 7 \/ n = 8 \/ n = 9 \/ n = 10 \/ n = 11 \/ n = 12
    BY <2>2
  <2>5. EndsWith(s, "wake", {"report", "announce"} \cup Interactive)
    BY <2>2, <2>3, <2>4 DEF EndsWith, Interactive
  <2>6. \A n \in 1..Len(s) :
          /\ s[n] = "begin" => n = 1
          /\ s[n] = "result" <=> n = Len(s) - 1
    BY <2>2, <2>3, <2>4
  <2>7. Paired(s)
    BY <2>2, <2>3, <2>4 DEF Paired
  <2> QED BY <2>2, <2>3, <2>5, <2>6, <2>7 DEF s, RoundLeft
<1>2. CASE verb \notin Applies
  <2>1. s = <<"begin">> \o PrepareSteps \o <<"interval">> \o <<>> \o <<"result", "wake">>
    BY <1>2 DEF PassSteps
  <2> HIDE DEF s
  <2>2. s \in Seq(Words) /\ Len(s) = 9
    BY <2>1 DEF PrepareSteps, ApplySteps, Words
  <2>3. /\ s[1] = "begin" /\ s[2] = "load" /\ s[3] = "snapshot" /\ s[4] = "inventory"
        /\ s[5] = "record" /\ s[6] = "decide" /\ s[7] = "interval" /\ s[8] = "result"
        /\ s[9] = "wake"
    BY <2>1 DEF PrepareSteps, ApplySteps
  <2>4. \A n \in 1..Len(s) : n = 1 \/ n = 2 \/ n = 3 \/ n = 4 \/ n = 5 \/ n = 6 \/ n = 7 \/ n = 8 \/ n = 9
    BY <2>2
  <2>5. EndsWith(s, "wake", {"report", "announce"} \cup Interactive)
    BY <2>2, <2>3, <2>4 DEF EndsWith, Interactive
  <2>6. \A n \in 1..Len(s) :
          /\ s[n] = "begin" => n = 1
          /\ s[n] = "result" <=> n = Len(s) - 1
    BY <2>2, <2>3, <2>4
  <2>7. Paired(s)
    BY <2>2, <2>3, <2>4 DEF Paired
  <2> QED BY <2>2, <2>3, <2>5, <2>6, <2>7 DEF s, RoundLeft
<1> QED BY <1>1, <1>2

\* What is left after a step is again such a rest.
LEMMA OnceTail ==
  ASSUME NEW v, NEW steps, OnceLeft(v, steps), Tail(steps) # <<>>
  PROVE  OnceLeft(v, Tail(steps)) /\ Head(steps) # "report"
<1> DEFINE t == Tail(steps)
<1>1. steps \in Seq(Words) /\ Len(steps) > 0
  BY DEF OnceLeft
<1>2. t \in Seq(Words) /\ Len(t) = Len(steps) - 1 /\ \A n \in 1..Len(t) : t[n] = steps[n + 1]
  BY <1>1
<1>3. Len(t) > 0 /\ Head(steps) = steps[1]
  BY <1>1, <1>2, EmptySeq
<1> HIDE DEF t
<1>4. IF v = "tui" THEN \A n \in 1..Len(t) : t[n] \in TuiWords
      ELSE EndsWith(t, "report", {"announce", "begin", "result", "wake"} \cup Interactive)
  BY <1>2, <1>3, Z3 DEF OnceLeft, EndsWith
<1>8. v # "tui" => \A n \in 1..Len(t) : (t[n] = "write" => v = "config_write") /\ (t[n] = "install" => v = "init")
  <2> SUFFICES ASSUME v # "tui", NEW n \in 1..Len(t)
               PROVE  (t[n] = "write" => v = "config_write") /\ (t[n] = "install" => v = "init")
    OBVIOUS
  <2>1. n + 1 \in 1..Len(steps)
    BY <1>2
  <2>2. \A k \in 1..Len(steps) : (steps[k] = "write" => v = "config_write") /\ (steps[k] = "install" => v = "init")
    BY DEF OnceLeft
  <2> QED BY <1>2, <2>1, <2>2
<1>5. \A m, n \in 1..Len(t) : m < n /\ Stores(t[m]) # {} => t[n] \notin Firm(v)
  <2> SUFFICES ASSUME NEW m \in 1..Len(t), NEW n \in 1..Len(t), m < n, Stores(t[m]) # {}
               PROVE  t[n] \notin Firm(v)
    OBVIOUS
  <2>1. m + 1 \in 1..Len(steps) /\ n + 1 \in 1..Len(steps) /\ m + 1 < n + 1
    BY <1>2
  <2>2. Stores(steps[m + 1]) # {} => steps[n + 1] \notin Firm(v)
    BY <2>1 DEF OnceLeft
  <2> QED BY <1>2, <2>2
<1>6. v \in {"plan", "clean"} => \A n \in 1..Len(t) : Stores(t[n]) \subseteq {"observations"}
  <2> SUFFICES ASSUME v \in {"plan", "clean"}, NEW n \in 1..Len(t)
               PROVE  Stores(t[n]) \subseteq {"observations"}
    OBVIOUS
  <2>1. n + 1 \in 1..Len(steps)
    BY <1>2
  <2>2. Stores(steps[n + 1]) \subseteq {"observations"}
    BY <2>1 DEF OnceLeft
  <2> QED BY <1>2, <2>2
<1>7. Head(steps) # "report"
  BY <1>1, <1>2, <1>3 DEF OnceLeft, EndsWith, TuiWords, SessionWords
<1> QED BY <1>2, <1>3, <1>4, <1>5, <1>6, <1>7, <1>8 DEF t, OnceLeft

LEMMA StartTail ==
  ASSUME NEW steps, StartLeft(steps), Head(steps) # "announce"
  PROVE  StartLeft(Tail(steps)) /\ Tail(steps) # <<>>
<1> DEFINE t == Tail(steps)
<1>1. steps \in Seq(Words) /\ Len(steps) > 0
  BY DEF StartLeft, EndsWith
<1>2. t \in Seq(Words) /\ Len(t) = Len(steps) - 1 /\ \A n \in 1..Len(t) : t[n] = steps[n + 1]
  BY <1>1
<1>3. Head(steps) = steps[1]
  BY <1>1
<1> HIDE DEF t
<1>4. Len(t) > 0 /\ t # <<>>
  BY <1>1, <1>2, <1>3 DEF StartLeft, EndsWith
<1>5. EndsWith(t, "announce", {"report", "begin", "result", "wake"} \cup Interactive)
  BY <1>1, <1>2, <1>4 DEF StartLeft, EndsWith
<1> QED BY <1>2, <1>4, <1>5 DEF t, StartLeft

LEMMA RoundTail ==
  ASSUME NEW steps, RoundLeft(steps), Head(steps) # "wake"
  PROVE  /\ RoundLeft(Tail(steps)) /\ Tail(steps) # <<>>
         /\ Head(Tail(steps)) # "begin"
         /\ Head(Tail(steps)) = "wake" <=> Head(steps) = "result"
<1> DEFINE t == Tail(steps)
<1>1. steps \in Seq(Words) /\ Len(steps) > 0
  BY DEF RoundLeft, EndsWith
<1>2. t \in Seq(Words) /\ Len(t) = Len(steps) - 1 /\ \A n \in 1..Len(t) : t[n] = steps[n + 1]
  BY <1>1
<1>3. Head(steps) = steps[1]
  BY <1>1
<1> HIDE DEF t
<1>4. Len(t) > 0 /\ t # <<>>
  BY <1>1, <1>2, <1>3 DEF RoundLeft, EndsWith
<1>5. EndsWith(t, "wake", {"report", "announce"} \cup Interactive)
  BY <1>1, <1>2, <1>4 DEF RoundLeft, EndsWith
<1>6. \A n \in 1..Len(t) :
        /\ t[n] = "begin" => n = 1
        /\ t[n] = "result" <=> n = Len(t) - 1
  BY <1>1, <1>2 DEF RoundLeft
<1>7. Head(t) = t[1] /\ t[1] = steps[2]
  BY <1>2, <1>4
<1>8. Head(t) # "begin"
  BY <1>1, <1>2, <1>4, <1>7 DEF RoundLeft
<1>9. Head(t) = "wake" <=> Head(steps) = "result"
  BY <1>1, <1>2, <1>3, <1>4, <1>7 DEF RoundLeft, EndsWith
<1> QED BY <1>2, <1>4, <1>5, <1>6, <1>8, <1>9 DEF t, RoundLeft

LEMMA WakeLeft == RoundLeft(<<"wake">>)
  BY DEF RoundLeft, EndsWith, Words, Interactive

\* Whatever the session takes up is again such a rest.
LEMMA WorkLeft ==
  ASSUME NEW work \in SessionWork
  PROVE  /\ OnceLeft("tui", work \o <<"session">>) /\ Paired(work \o <<"session">>)
         /\ \A n \in 1..Len(work \o <<"session">>) : (work \o <<"session">>)[n] \notin Firm("tui")
<1> DEFINE S == SessionWords
           Calm == SessionWords \ {"execute"}
           w == work \o <<"session">>
<1>1. /\ RefreshSteps \in Seq(Calm) /\ <<"stale">> \in Seq(Calm) /\ <<"shown">> \in Seq(Calm)
      /\ <<"inventory", "write">> \in Seq(Calm) /\ <<"snapshot", "update">> \in Seq(Calm)
      /\ <<"snapshot">> \in Seq(Calm) /\ <<"prefix">> \in Seq(Calm) /\ <<"session">> \in Seq(Calm)
  BY DEF RefreshSteps, SessionWords
<1>2. CASE work \in Seq(Calm)
  <2>1. w \in Seq(Calm) /\ Len(w) > 0
    BY <1>1, <1>2, ConcatProperties
  <2> HIDE DEF w
  <2>2. \A n \in 1..Len(w) : w[n] \in Calm
    BY <2>1
  <2>3. Calm \subseteq Words /\ Calm \subseteq TuiWords /\ Calm \cap Firm("tui") = {} /\ "execute" \notin Calm
    BY DEF Words, TuiWords, SessionWords, Firm
  <2> HIDE DEF Calm
  <2>4. w \in Seq(Words)
    BY <2>1, <2>3
  <2>5. \A n \in 1..Len(w) : w[n] \notin Firm("tui") /\ w[n] \in TuiWords /\ w[n] # "execute"
    BY <2>2, <2>3
  <2>6. OnceLeft("tui", w)
    BY <2>1, <2>4, <2>5 DEF OnceLeft
  <2> QED BY <2>5, <2>6 DEF Paired, w
<1>3. CASE work = ApplySteps \o RefreshSteps
  <2>1. w = ApplySteps \o RefreshSteps \o <<"session">>
    BY <1>3
  <2> HIDE DEF w
  <2>2. w \in Seq(SessionWords) /\ w \in Seq(Words) /\ Len(w) = 11
    BY <2>1 DEF SessionWords, Words, ApplySteps, RefreshSteps
  <2>3. \A n \in 1..Len(w) : w[n] \in SessionWords
    BY <2>2, ElementOfSeq
  <2>4. SessionWords \subseteq TuiWords /\ SessionWords \cap Firm("tui") = {}
    BY DEF SessionWords, TuiWords, Firm
  <2>5. OnceLeft("tui", w) /\ \A n \in 1..Len(w) : w[n] \notin Firm("tui")
    BY <2>2, <2>3, <2>4 DEF OnceLeft
  <2>6. \A n \in 1..Len(w) : \/ n = 1 \/ n = 2 \/ n = 3 \/ n = 4 \/ n = 5 \/ n = 6
                             \/ n = 7 \/ n = 8 \/ n = 9 \/ n = 10 \/ n = 11
    BY <2>2
  <2>7. /\ w[1] = "journal" /\ w[2] = "execute" /\ w[3] = "finish" /\ w[4] = "load"
        /\ w[5] = "snapshot" /\ w[6] = "inventory" /\ w[7] = "record" /\ w[8] = "plan"
        /\ w[9] = "last_pass" /\ w[10] = "adopt" /\ w[11] = "session"
    BY <2>1 DEF ApplySteps, RefreshSteps
  <2>8. Paired(w)
    BY <2>2, <2>6, <2>7 DEF Paired
  <2> QED BY <2>5, <2>8 DEF w
<1>4. CASE work \in {RefreshSteps \o <<"stale">>, <<"inventory", "write">> \o RefreshSteps \o <<"shown">>,
                    <<"snapshot", "update">> \o RefreshSteps, <<"snapshot">>, <<"prefix">>}
  <2> HIDE DEF Calm, w
  <2>1. /\ RefreshSteps \o <<"stale">> \in Seq(Calm)
        /\ <<"inventory", "write">> \o RefreshSteps \in Seq(Calm)
        /\ <<"snapshot", "update">> \o RefreshSteps \in Seq(Calm)
    BY <1>1, ConcatProperties
  <2>2. <<"inventory", "write">> \o RefreshSteps \o <<"shown">> \in Seq(Calm)
    BY <1>1, <2>1, ConcatProperties
  <2>3. work \in Seq(Calm)
    BY <1>1, <1>4, <2>1, <2>2
  <2> QED BY <1>2, <2>3
<1> QED BY <1>3, <1>4 DEF SessionWork

\* A rest of a daemon, or of another command than the terminal, has no session.
LEMMA NoSession ==
  ASSUME NEW steps, todo = steps, todo # <<>>,
         StartLeft(steps) \/ RoundLeft(steps) \/ \E v \in OneShot \ {"tui"} : OnceLeft(v, steps)
  PROVE  Head(todo) # "session" /\ ~Shows
<1>1. todo \in Seq(Words) /\ Len(todo) > 0 /\ \A n \in 1..Len(todo) : todo[n] \notin Interactive
  BY DEF StartLeft, RoundLeft, OnceLeft, EndsWith
<1>2. DOMAIN todo = 1..Len(todo) /\ Head(todo) = todo[1]
  BY <1>1
<1> QED BY <1>1, <1>2 DEF Interactive, Shows, Left

-----------------------------------------------------------------------------
(* Exit codes *)

Events ==
  {"daemon_started", "pass_started", "plan", "action", "pass_summary", "pass_error", "table",
   "configuration_reload_requested", "daemon_stopped", "part"} \cup Daemons \cup OneShot
Docs == [event : Events, pass : Nat, pending : Nat, kept : Nat]

ReportTypes ==
  /\ verb \in Daemons \cup OneShot
  /\ targets \in Nat /\ kept \in Nat /\ pass \in Nat
  /\ output \in Seq(Docs) /\ stdout \in Seq(Docs)

Silent == output = <<>> /\ stdout = <<>> /\ errors = 0

\* A one-shot command has said nothing before its last step, and has changed
\* nothing before the last of its early ones.
OnceGoing ==
  /\ pass = 0
  /\ verb \in {"plan", "clean"} => changed \subseteq {"observations"}
  /\ IF todo # <<>>
     THEN /\ OnceLeft(verb, todo)
          /\ Silent
          /\ changed # {} => \A n \in 1..Len(todo) : todo[n] \notin Firm(verb)
          /\ verb = "clean_apply" => "journal" \in changed \/ \E n \in 1..Len(todo) : todo[n] = "finish"
     ELSE /\ verb = "clean_apply" => "journal" \in changed
          /\ verb # "tui" => \/ output = <<Document(verb)>> /\ stdout = <<>>
                             \/ output = <<>> /\ stdout = <<Document(verb)>>

\* A daemon has said and changed nothing before its loop.
DaemonGoing ==
  todo # <<>> =>
    \/ StartLeft(todo) /\ pass = 0 /\ changed = {} /\ Silent
    \/ RoundLeft(todo) /\ (Head(todo) # "begin" => pass > 0)

\* Nothing has been removed, or is about to be, without an entry in the journal.
Logged ==
  /\ "engine" \in changed => "journal" \in changed
  /\ \A n \in 1..Len(todo) :
       todo[n] = "execute" => "journal" \in changed \/ (n > 1 /\ todo[n - 1] = "journal")

ReportInv ==
  /\ ReportTypes /\ Logged
  /\ code = -1 => IF verb \in Daemons THEN DaemonGoing ELSE OnceGoing
  /\ ExitTellsOutcome

LEMMA OneIsList == \A S : <<>> \in Seq(S) /\ \A d \in S : <<d>> \in Seq(S)
  OBVIOUS

LEMMA DocumentType ==
  ASSUME ReportTypes, NEW event \in Events
  PROVE  Document(event) \in Docs /\ Announced(event) \in Seq(Docs)
<1>1. Document(event) \in Docs
  BY DEF ReportTypes, Document, Docs
<1>2. <<Document(event)>> \in Seq(Docs) /\ <<>> \in Seq(Docs)
  BY <1>1, OneIsList
<1> QED BY <1>1, <1>2 DEF Announced

LEMMA ResultType == ReportTypes => ResultEvents \in Seq(Docs)
<1> SUFFICES ASSUME ReportTypes PROVE ResultEvents \in Seq(Docs)
  OBVIOUS
<1> DEFINE actions == [n \in 1..targets |-> Document("action")]
<1>1. Document("plan") \in Docs /\ Document("action") \in Docs /\ Document("pass_summary") \in Docs
  BY DocumentType DEF Events
<1>2. targets \in Nat
  BY DEF ReportTypes
<1>3. actions \in Seq(Docs)
  BY <1>1, <1>2
<1>4. <<Document("plan")>> \in Seq(Docs) /\ <<Document("pass_summary")>> \in Seq(Docs) /\ <<>> \in Seq(Docs)
  BY <1>1, OneIsList
<1> QED BY <1>3, <1>4, ConcatProperties DEF ResultEvents

LEMMA ReportTypesStep ==
  ASSUME ReportTypes, [ReportNext]_reportVars
  PROVE  ReportTypes'
<1>1. CASE Succeed
  BY <1>1, CommandReportAssumption DEF Succeed, ReportTypes
<1>2. CASE Fail
  <2>1. output' \in {Announced("pass_error"), <<>>}
    BY <1>2 DEF Fail, ExitsWith
  <2>2. output' \in Seq(Docs)
    BY <2>1, DocumentType, OneIsList DEF Events
  <2> QED BY <1>2, <2>2 DEF Fail, ReportTypes
<1>3. CASE ClockFails
  BY <1>3 DEF ClockFails, ExitsWith, ReportTypes
<1>4. CASE ReportOnce
  <2>1. Document(verb) \in Docs
    BY DocumentType DEF Events, ReportTypes
  <2>2. output' \in Seq(Docs)
    BY <1>4, <2>1, OneIsList DEF ReportOnce
  <2> QED BY <1>4, <2>2 DEF ReportOnce, ReportTypes
<1>5. CASE AnnounceStart
  <2>1. output' \in Seq(Docs)
    BY <1>5, DocumentType DEF AnnounceStart, Events
  <2> QED BY <1>5, <2>1 DEF AnnounceStart, ReportTypes
<1>6. CASE BeginPass
  <2>1. Document("pass_started") \in Docs /\ pass + 1 \in Nat
    BY DocumentType DEF Events, ReportTypes
  <2>2. [Document("pass_started") EXCEPT !.pass = pass + 1] \in Docs
    BY <2>1 DEF Docs
  <2>3. output' \in Seq(Docs)
    BY <1>6, <2>2, OneIsList DEF BeginPass
  <2> QED BY <1>6, <2>1, <2>3 DEF BeginPass, ReportTypes
<1>7. CASE PassResult
  <2>1. output' \in Seq(Docs)
    BY <1>7, ResultType, DocumentType, OneIsList DEF PassResult, Events
  <2> QED BY <1>7, <2>1 DEF PassResult, ReportTypes
<1>8. CASE Wake
  <2>1. output' \in Seq(Docs)
    BY <1>8, DocumentType, OneIsList DEF Wake, Events
  <2> QED BY <1>8, <2>1 DEF Wake, ReportTypes
<1>9. CASE Write
  <2>1. output # <<>> /\ output \in Seq(Docs) /\ stdout \in Seq(Docs)
    BY <1>9 DEF Write, ReportTypes
  <2>2. /\ Head(output) \in Docs /\ Tail(output) \in Seq(Docs)
        /\ Document("part") \in Docs
    <3>1. Head(output) \in Docs /\ Tail(output) \in Seq(Docs)
      BY <2>1
    <3> QED BY <3>1, DocumentType DEF Events
  <2>3. stdout' \in {stdout, Append(stdout, Head(output)), Append(stdout, Document("part"))}
    BY <1>9 DEF Write
  <2>4. stdout' \in Seq(Docs)
    BY <2>1, <2>2, <2>3, AppendProperties
  <2>5. output' \in Seq(Docs)
    BY <1>9, <2>2, OneIsList DEF Write, ExitsWith
  <2> QED BY <1>9, <2>4, <2>5 DEF Write, ReportTypes
<1>10. CASE EndReport
  BY <1>10, OneIsList DEF EndReport, ExitsWith, ReportTypes
<1>11. CASE PipeBreaks
  BY <1>11 DEF PipeBreaks, ReportTypes
<1>12. CASE UNCHANGED reportVars
  BY <1>12 DEF reportVars, ReportTypes
<1>13. CASE ShowError \/ Interact
  BY <1>13 DEF ShowError, Interact, ReportTypes
<1> QED
  BY <1>1, <1>2, <1>3, <1>4, <1>5, <1>6, <1>7, <1>8, <1>9, <1>10, <1>11, <1>12, <1>13 DEF ReportNext

\* What is left of a command that has not ended.
LEMMA TodoType ==
  ASSUME IF verb \in Daemons THEN DaemonGoing ELSE OnceGoing
  PROVE  todo \in Seq(Words)
<1>1. CASE todo = <<>>
  BY <1>1, OneIsList
<1>2. CASE todo # <<>>
  BY <1>2 DEF DaemonGoing, OnceGoing, StartLeft, RoundLeft, OnceLeft
<1> QED BY <1>1, <1>2

\* The journal comes before the engine, whatever is left and whatever fails.
LEMMA LoggedStep ==
  ASSUME Logged, todo \in Seq(Words), ReportNext
  PROVE  Logged'
<1>1. CASE UNCHANGED <<changed, todo>>
  BY <1>1 DEF Logged
<1>2. ASSUME todo # <<>>
      PROVE  /\ Len(todo) > 0 /\ 1 \in 1..Len(todo) /\ Head(todo) = todo[1] /\ Head(todo) \in Words
             /\ Head(todo) = "execute" => "journal" \in changed
             /\ Len(Tail(todo)) = Len(todo) - 1
             /\ \A n \in 1..Len(Tail(todo)) : Tail(todo)[n] = todo[n + 1] /\ n + 1 \in 1..Len(todo)
  <2>1. Len(todo) > 0 /\ Head(todo) = todo[1] /\ Head(todo) \in Words
    BY <1>2
  <2>2. todo[1] = "execute" => "journal" \in changed
    BY <2>1 DEF Logged
  <2> QED BY <1>2, <2>1, <2>2
<1>3. ASSUME NEW step, todo # <<>>, step = Head(todo), changed' \in {changed, changed \cup Stores(step)}
      PROVE  /\ changed \subseteq changed'
             /\ "engine" \in changed' => "journal" \in changed'
  <2>1. "engine" \in Stores(step) => step = "execute"
    BY DEF Stores
  <2>2. step = "execute" => "journal" \in changed
    BY <1>2, <1>3
  <2> QED BY <1>3, <2>1, <2>2 DEF Logged
<1>4. ASSUME NEW rest, todo' = rest, Paired(rest), changed \subseteq changed',
             "engine" \in changed' => "journal" \in changed'
      PROVE  Logged'
  BY <1>4 DEF Logged, Paired
<1>5. Paired(<<>>) /\ Paired(<<"wake">>) /\ Paired(<<"session">>) /\ Paired(PassSteps)
  <2>1. Paired(<<>>) /\ Paired(<<"wake">>) /\ Paired(<<"session">>)
    BY DEF Paired
  <2> QED BY <2>1, RoundSteps
<1>6. ASSUME todo # <<>>, todo' = Tail(todo), changed' \in {changed, changed \cup Stores(Head(todo))},
             Head(todo) = "journal" => "journal" \in changed'
      PROVE  Logged'
  <2>1. changed \subseteq changed' /\ ("engine" \in changed' => "journal" \in changed')
    BY <1>3, <1>6
  <2>2. ASSUME NEW n \in 1..Len(todo'), todo'[n] = "execute", "journal" \notin changed'
        PROVE  n > 1 /\ todo'[n - 1] = "journal"
    <3>1. todo'[n] = todo[n + 1] /\ n + 1 \in 1..Len(todo)
      BY <1>2, <1>6, <2>2
    <3>2. todo[n] = "journal"
      <4>1. todo[n + 1] = "execute" /\ n + 1 > 1 /\ "journal" \notin changed /\ n + 1 - 1 = n
        BY <2>1, <2>2, <3>1
      <4> QED BY <3>1, <4>1 DEF Logged
    <3>3. n # 1
      BY <1>2, <1>6, <2>2, <3>2
    <3>4. n - 1 \in 1..Len(todo') /\ n - 1 + 1 = n
      BY <2>2, <3>3
    <3>5. todo'[n - 1] = todo[n - 1 + 1]
      BY <1>2, <1>6, <3>4
    <3> QED BY <2>2, <3>2, <3>3, <3>4, <3>5
  <2> QED BY <2>1, <2>2 DEF Logged
<1>7. CASE Succeed
  <2>1. /\ todo # <<>> /\ todo' = Tail(todo)
        /\ changed' \in {changed, changed \cup Stores(Head(todo))}
        /\ Head(todo) = "journal" => changed' = changed \cup Stores(Head(todo))
    BY <1>7 DEF Succeed, Running
  <2>2. Stores("journal") = {"journal"}
    BY DEF Stores
  <2> QED BY <1>6, <2>1, <2>2
<1>8. CASE Fail
  <2>1. todo # <<>> /\ todo' \in {<<>>, <<"wake">>} /\ changed' \in {changed, changed \cup Stores(Head(todo))}
    BY <1>8 DEF Fail, Running, ExitsWith
  <2> QED BY <1>3, <1>4, <1>5, <2>1
<1>9. CASE ShowError
  <2>1. todo # <<>> /\ todo' = <<"session">> /\ changed' \in {changed, changed \cup Stores(Head(todo))}
    BY <1>9 DEF ShowError, Running
  <2> QED BY <1>3, <1>4, <1>5, <2>1
<1>10. CASE Interact
  <2>1. changed' = changed /\ ("engine" \in changed' => "journal" \in changed')
    BY <1>10 DEF Interact, Logged
  <2>2. CASE \E work \in SessionWork : todo' = work \o <<"session">>
    <3>1. PICK work \in SessionWork : todo' = work \o <<"session">>
      BY <2>2
    <3>2. Paired(work \o <<"session">>)
      BY WorkLeft
    <3> QED BY <1>4, <2>1, <3>1, <3>2
  <2>3. CASE todo' = todo
    BY <1>1, <2>1, <2>3
  <2>4. CASE todo' = <<>>
    BY <1>4, <1>5, <2>1, <2>4
  <2> QED BY <1>10, <2>2, <2>3, <2>4 DEF Interact
<1>11. CASE ReportOnce \/ BeginPass \/ PassResult
  <2>1. todo # <<>> /\ todo' = Tail(todo) /\ changed' = changed /\ Head(todo) # "journal"
    BY <1>11 DEF ReportOnce, BeginPass, PassResult, Running
  <2> QED BY <1>6, <2>1
<1>12. CASE AnnounceStart \/ Wake \/ ClockFails \/ EndReport \/ Write
  <2>1. changed' = changed /\ ("engine" \in changed' => "journal" \in changed')
    BY <1>12 DEF AnnounceStart, Wake, ClockFails, EndReport, Write, Logged
  <2>2. todo' = todo \/ todo' \in {<<>>, PassSteps}
    BY <1>12 DEF AnnounceStart, Wake, ClockFails, EndReport, Write, ExitsWith
  <2> QED BY <1>1, <1>4, <1>5, <2>1, <2>2
<1>13. CASE PipeBreaks
  BY <1>1, <1>13 DEF PipeBreaks
<1> QED BY <1>7, <1>8, <1>9, <1>10, <1>11, <1>12, <1>13 DEF ReportNext

LEMMA ReportInvInit == ReportInit => ReportInv
<1> SUFFICES ASSUME ReportInit PROVE ReportInv
  OBVIOUS
<1>1. ReportTypes
  BY OneIsList DEF ReportInit, ReportTypes
<1>4. Logged
  <2>1. Paired(todo) /\ changed = {}
    BY <1>1, DaemonSteps, OnceSteps DEF ReportInit, ReportTypes
  <2> QED BY <2>1 DEF Paired, Logged
<1>2. CASE verb \in Daemons
  BY <1>1, <1>2, <1>4, DaemonSteps DEF ReportInit, ReportInv, DaemonGoing, Silent, ExitTellsOutcome
<1>3. CASE verb \in OneShot
  <2>1. OnceLeft(verb, todo) /\ todo # <<>>
    <3>1. OnceLeft(verb, todo)
      BY <1>3, OnceSteps DEF ReportInit
    <3>2. Len(todo) > 0
      BY <3>1 DEF OnceLeft
    <3> QED BY <3>1, <3>2
  <2>2. verb \notin Daemons
    BY <1>3 DEF OneShot, Daemons
  <2>3. verb = "clean_apply" => \E n \in 1..Len(todo) : todo[n] = "finish"
    BY <1>3, OnceSteps DEF ReportInit
  <2> QED BY <1>1, <1>4, <2>1, <2>2, <2>3 DEF ReportInit, ReportInv, OnceGoing, Silent, ExitTellsOutcome
<1> QED BY <1>1, <1>2, <1>3 DEF ReportTypes

\* Only an early step ends with a code that says what was refused.
LEMMA FailCodes ==
  ASSUME NEW step \in Words, step \notin Talking \ {"result"}, NEW kind \in ErrorKinds(step)
  PROVE  /\ ExitCode(kind) \in {3, 4, 5, 6, 7, 64}
         /\ ExitCode(kind) \in {3, 4, 64} => step \in Early
         /\ ExitCode(kind) = 4 => step = "terminal"
         /\ ExitCode(kind) = 64 => step \in {"arguments", "interval", "prefixes", "image", "install"}
         /\ ExitCode(kind) = 3 => step # "install"
<1>1. kind \in {"usage", "config_invalid", "state_io", "docker_unreachable", "internal", "tty_required"}
  BY DEF ErrorKinds, Words, Talking
<1>2. kind \in {"usage", "config_invalid", "tty_required"} => step \in Early
  BY DEF ErrorKinds, Words, Talking, Early
<1>3. kind = "tty_required" => step = "terminal"
  BY DEF ErrorKinds, Words, Talking
<1>4. kind = "usage" => step \in {"arguments", "interval", "prefixes", "image", "install"}
  BY DEF ErrorKinds, Words, Talking
<1>5. kind = "config_invalid" => step # "install"
  BY DEF ErrorKinds, Words, Talking
<1> QED BY <1>1, <1>2, <1>3, <1>4, <1>5 DEF ExitCode

LEMMA FailEnds ==
  ASSUME ReportTypes, Fail, pass = 0, todo \in Seq(Words)
  PROVE  /\ code' \in {3, 4, 5, 6, 7, 64} /\ errors' = errors + 1
         /\ code' \in {3, 4, 64} => Head(todo) \in Early
         /\ code' = 4 => Head(todo) = "terminal"
         /\ code' = 64 => Head(todo) \in {"arguments", "interval", "prefixes", "image", "install"}
         /\ code' = 3 => Head(todo) # "install"
         /\ changed' \in {changed, changed \cup Stores(Head(todo))}
         /\ UNCHANGED <<verb, targets, kept, pass, stdout, pipe>>
<1>1. Head(todo) \in Words /\ Head(todo) \notin Talking \ {"result"}
  BY DEF Fail, Running
<1>2. PICK kind \in ErrorKinds(Head(todo)) : ExitsWith(ExitCode(kind)) /\ errors' = errors + 1
  BY DEF Fail
<1> QED BY <1>1, <1>2, FailCodes DEF Fail, ExitsWith

\* The steps of a one-shot command.
LEMMA OnceStep ==
  ASSUME ReportInv, code = -1, verb \notin Daemons, ReportNext, code' = -1
  PROVE  OnceGoing'
<1>1. OnceGoing /\ ReportTypes /\ pass = 0 /\ verb' = verb
  BY DEF ReportInv, OnceGoing, ReportNext, Succeed, Fail, ShowError, Interact, ClockFails, ReportOnce, AnnounceStart, BeginPass,
     PassResult, Wake, Write, EndReport, PipeBreaks
<1>2. CASE Succeed
  <2>1. /\ todo # <<>> /\ OnceLeft(verb, todo) /\ Silent
        /\ todo' = Tail(todo) /\ UNCHANGED <<output, stdout, errors, pass>>
        /\ Head(todo) # "report"
    BY <1>1, <1>2 DEF Succeed, Running, OnceGoing, Talking
  <2>2. todo \in Seq(Words) /\ Len(todo) > 0 /\ Head(todo) = todo[1]
    BY <2>1 DEF OnceLeft
  <2>3. /\ todo' \in Seq(Words) /\ Len(todo') = Len(todo) - 1
        /\ \A n \in 1..Len(todo') : todo'[n] = todo[n + 1] /\ n + 1 \in 1..Len(todo)
    BY <2>1, <2>2
  <2>4. changed' \subseteq changed \cup Stores(todo[1])
    BY <1>2, <2>2 DEF Succeed
  <2>5. verb \in {"plan", "clean"} => changed' \subseteq {"observations"}
    BY <1>1, <2>1, <2>2, <2>4 DEF OnceGoing, OnceLeft
  <2>6. verb = "clean_apply" => "journal" \in changed' \/ \E n \in 1..Len(todo') : todo'[n] = "finish"
    <3> SUFFICES ASSUME verb = "clean_apply", "journal" \notin changed'
                 PROVE  \E n \in 1..Len(todo') : todo'[n] = "finish"
      OBVIOUS
    <3>1. PICK n \in 1..Len(todo) : todo[n] = "finish"
      BY <1>1, <1>2, <2>1 DEF OnceGoing, Succeed
    <3>2. n # 1
      <4>1. SUFFICES ASSUME Head(todo) = "finish" PROVE FALSE
        BY <2>2, <3>1
      <4>2. Stores("finish") = {"journal"}
        BY DEF Stores
      <4> QED BY <1>2, <4>1, <4>2 DEF Succeed
    <3>3. n - 1 \in 1..Len(todo') /\ todo'[n - 1] = todo[n]
      BY <2>2, <2>3, <3>1, <3>2
    <3> QED BY <3>1, <3>3
  <2>7. CASE todo' = <<>>
    <3>1. Len(todo) = 1
      BY <2>2, <2>3, <2>7
    <3>2. verb = "tui"
      BY <2>1, <2>2, <3>1 DEF OnceLeft, EndsWith
    <3> QED BY <1>1, <2>1, <2>5, <2>7, <3>2 DEF OnceGoing
  <2>8. CASE todo' # <<>>
    <3>1. OnceLeft(verb, todo')
      BY <2>1, <2>8, OnceTail
    <3>2. changed' # {} => \A n \in 1..Len(todo') : todo'[n] \notin Firm(verb)
      <4> SUFFICES ASSUME changed' # {}, NEW n \in 1..Len(todo') PROVE todo'[n] \notin Firm(verb)
        OBVIOUS
      <4>1. todo'[n] = todo[n + 1] /\ n + 1 \in 1..Len(todo) /\ 1 \in 1..Len(todo) /\ 1 < n + 1
        BY <2>2, <2>3
      <4>2. changed # {} \/ Stores(todo[1]) # {}
        BY <2>4
      <4>3. CASE changed # {}
        BY <1>1, <2>1, <4>1, <4>3 DEF OnceGoing
      <4>4. CASE Stores(todo[1]) # {}
        BY <2>1, <4>1, <4>4 DEF OnceLeft
      <4> QED BY <4>2, <4>3, <4>4
    <3> QED BY <1>1, <2>1, <2>5, <2>6, <2>8, <3>1, <3>2 DEF OnceGoing, Silent
  <2> QED BY <2>7, <2>8
<1>3. CASE ReportOnce
  <2>1. todo # <<>> /\ OnceLeft(verb, todo) /\ Silent /\ todo' = Tail(todo) /\ Head(todo) = "report"
    BY <1>1, <1>3 DEF ReportOnce, Running, OnceGoing
  <2>2. todo' = <<>>
    BY <2>1, OnceTail
  <2>3. verb = "clean_apply" => "journal" \in changed
    <3> SUFFICES ASSUME verb = "clean_apply", "journal" \notin changed PROVE FALSE
      OBVIOUS
    <3>1. PICK n \in 1..Len(todo) : todo[n] = "finish"
      BY <1>1, <2>1 DEF OnceGoing
    <3>2. todo \in Seq(Words) /\ Len(todo) > 0
      BY <2>1 DEF OnceLeft
    <3>3. Len(Tail(todo)) = Len(todo) - 1 /\ Head(todo) = todo[1]
      BY <3>2
    <3>4. Len(todo) = 1
      <4>1. Tail(todo) = <<>>
        BY <2>1, <2>2
      <4>2. Tail(todo) \in Seq(Words)
        BY <3>2
      <4>3. Len(Tail(todo)) = 0
        BY <4>1, <4>2, EmptySeq
      <4> QED BY <3>2, <3>3, <4>3
    <3> QED BY <2>1, <3>1, <3>3, <3>4
  <2> QED BY <1>1, <1>3, <2>1, <2>2, <2>3 DEF ReportOnce, OnceGoing, Silent, Document
<1>4. CASE Write
  <2>1. output # <<>> /\ todo = <<>> /\ stdout' = Append(stdout, Head(output)) /\ output' = Tail(output)
    BY <1>1, <1>4 DEF Write, OnceGoing, Silent, ExitsWith, ExitCode
  <2>2. verb # "tui" => output = <<Document(verb)>> /\ stdout = <<>>
    BY <1>1, <2>1 DEF OnceGoing
  <2>3. verb # "tui" => output' = <<>> /\ stdout' = <<Document(verb)>>
    BY <2>1, <2>2
  <2> QED BY <1>1, <1>4, <2>1, <2>3 DEF Write, OnceGoing, Document, ExitsWith, ExitCode
<1>5. CASE PipeBreaks
  BY <1>1, <1>5 DEF PipeBreaks, OnceGoing, Silent, Document
<1>6. CASE AnnounceStart \/ BeginPass \/ PassResult \/ Wake
  <2>1. todo # <<>> /\ OnceLeft(verb, todo) /\ Head(todo) \in {"announce", "begin", "result", "wake"}
    BY <1>1, <1>6 DEF AnnounceStart, BeginPass, PassResult, Wake, Running, OnceGoing
  <2>2. Len(todo) > 0 /\ Head(todo) = todo[1]
    BY <2>1 DEF OnceLeft
  <2>3. 1 \in 1..Len(todo)
    BY <2>1 DEF OnceLeft
  <2>4. todo[1] \notin {"announce", "begin", "result", "wake"}
    BY <2>1, <2>3 DEF OnceLeft, EndsWith, TuiWords, SessionWords
  <2> QED BY <2>1, <2>2, <2>4
<1>8. CASE ShowError \/ Interact
  <2>1. /\ todo # <<>> /\ OnceLeft(verb, todo) /\ Silent /\ (Head(todo) = "session" \/ Shows)
        /\ UNCHANGED <<output, stdout, errors, pass>>
    BY <1>1, <1>8 DEF ShowError, Interact, Running, OnceGoing
  <2>2. verb = "tui"
    BY <1>1, <2>1, NoSession DEF ReportTypes
  <2>3. CASE todo' = <<>>
    BY <1>1, <2>1, <2>2, <2>3 DEF OnceGoing
  <2>4. CASE todo' = todo /\ changed' = changed
    BY <1>1, <2>1, <2>2, <2>4 DEF OnceGoing, Silent
  <2>5. CASE todo' # <<>> /\ OnceLeft("tui", todo') /\ \A n \in 1..Len(todo') : todo'[n] \notin Firm("tui")
    BY <1>1, <2>1, <2>2, <2>5 DEF OnceGoing, Silent
  <2>6. CASE todo' = <<"session">>
    <3>1. OnceLeft("tui", <<"session">>) /\ \A n \in 1..Len(<<"session">>) : <<"session">>[n] \notin Firm("tui")
      BY DEF OnceLeft, Words, TuiWords, SessionWords, Firm
    <3> QED BY <2>5, <2>6, <3>1
  <2>7. CASE \E work \in SessionWork : todo' = work \o <<"session">>
    <3>1. PICK work \in SessionWork : todo' = work \o <<"session">>
      BY <2>7
    <3>2. OnceLeft("tui", todo') /\ \A n \in 1..Len(todo') : todo'[n] \notin Firm("tui")
      BY <3>1, WorkLeft
    <3>3. todo' # <<>>
      BY <3>2 DEF OnceLeft
    <3> QED BY <2>5, <3>2, <3>3
  <2> QED BY <1>8, <2>3, <2>4, <2>6, <2>7 DEF ShowError, Interact
<1>7. CASE Fail \/ ClockFails \/ EndReport
  <2>1. CASE Fail
    <3>1. todo # <<>> /\ OnceLeft(verb, todo)
      BY <1>1, <2>1 DEF OnceGoing, Fail, Running
    <3>2. todo \in Seq(Words)
      BY <3>1 DEF OnceLeft
    <3> QED BY <1>1, <2>1, <3>2, FailEnds
  <2>2. CASE ClockFails \/ EndReport
    BY <2>2 DEF ClockFails, EndReport, ExitsWith, ExitCode, Outcome
  <2> QED BY <1>7, <2>1, <2>2
<1> QED BY <1>2, <1>3, <1>4, <1>5, <1>6, <1>7, <1>8 DEF ReportNext

\* The steps of a daemon.
LEMMA DaemonStep ==
  ASSUME ReportInv, code = -1, verb \in Daemons, ReportNext, code' = -1
  PROVE  DaemonGoing'
<1>1. DaemonGoing /\ ReportTypes
  BY DEF ReportInv
<1>11. CASE ShowError \/ Interact
  <2>1. todo # <<>> /\ (Head(todo) = "session" \/ Shows)
    BY <1>11 DEF ShowError, Interact, Running
  <2> QED BY <1>1, <2>1, NoSession DEF DaemonGoing
<1>2. CASE Succeed
  <2>1. /\ todo # <<>> /\ todo' = Tail(todo) /\ UNCHANGED <<output, stdout, errors, pass>>
        /\ Head(todo) \notin Talking /\ changed' \subseteq changed \cup Stores(Head(todo))
    BY <1>2 DEF Succeed, Running
  <2>2. CASE StartLeft(todo) /\ pass = 0 /\ changed = {} /\ Silent
    <3>1. StartLeft(todo')
      BY <2>1, <2>2, StartTail DEF Talking
    <3>2. todo \in Seq(Words) /\ Len(todo) > 0
      BY <2>2 DEF StartLeft, EndsWith
    <3>3. Stores(Head(todo)) = {}
      <4>1. Head(todo) = todo[1] /\ 1 \in 1..Len(todo)
        BY <3>2
      <4> QED BY <2>2, <4>1 DEF StartLeft
    <3>4. changed' = {}
      BY <2>1, <2>2, <3>3
    <3> QED BY <2>1, <2>2, <3>1, <3>4 DEF DaemonGoing, Silent
  <2>3. CASE RoundLeft(todo) /\ (Head(todo) # "begin" => pass > 0)
    BY <2>1, <2>3, RoundTail DEF DaemonGoing, Talking
  <2> QED BY <1>1, <2>1, <2>2, <2>3 DEF DaemonGoing
<1>3. CASE Fail
  <2>1. todo # <<>> /\ Head(todo) \notin Talking \ {"result"}
    BY <1>3 DEF Fail, Running
  <2>2. CASE pass > 0
    <3>1. todo' = <<"wake">> /\ pass' = pass
      BY <1>3, <2>2 DEF Fail
    <3> QED BY <2>2, <3>1, WakeLeft DEF DaemonGoing
  <2>3. CASE ~(pass > 0)
    <3>1. todo \in Seq(Words)
      BY <1>1, <2>1 DEF DaemonGoing, StartLeft, RoundLeft
    <3>2. pass = 0
      BY <1>1, <2>3 DEF ReportTypes
    <3> QED BY <1>1, <1>3, <3>1, <3>2, FailEnds
  <2> QED BY <2>2, <2>3
<1>4. CASE ClockFails \/ EndReport
  BY <1>4 DEF ClockFails, EndReport, ExitsWith, ExitCode, Outcome
<1>5. CASE ReportOnce
  <2>1. todo # <<>> /\ Head(todo) = "report"
    BY <1>5 DEF ReportOnce, Running
  <2>2. todo \in Seq(Words) /\ Len(todo) > 0 /\ todo[1] # "report"
    BY <1>1, <2>1 DEF DaemonGoing, StartLeft, RoundLeft, EndsWith
  <2> QED BY <2>1, <2>2
<1>6. CASE AnnounceStart \/ Wake
  <2>1. todo' \in {PassSteps, <<>>} /\ pass' = pass
    BY <1>6 DEF AnnounceStart, Wake
  <2> QED BY <2>1, RoundSteps DEF DaemonGoing
<1>7. CASE BeginPass
  <2>1. todo # <<>> /\ todo' = Tail(todo) /\ Head(todo) = "begin" /\ pass' = pass + 1
    BY <1>7 DEF BeginPass, Running
  <2>2. RoundLeft(todo)
    <3>1. StartLeft(todo) => todo \in Seq(Words) /\ Len(todo) > 0 /\ todo[1] # "begin"
      BY DEF StartLeft, EndsWith
    <3> QED BY <1>1, <2>1, <3>1 DEF DaemonGoing
  <2>3. pass' > 0
    BY <1>1, <2>1 DEF ReportTypes
  <2> QED BY <2>1, <2>2, <2>3, RoundTail DEF DaemonGoing
<1>8. CASE PassResult
  <2>1. todo # <<>> /\ todo' = Tail(todo) /\ Head(todo) = "result" /\ pass' = pass
    BY <1>8 DEF PassResult, Running
  <2>2. RoundLeft(todo) /\ pass > 0
    <3>1. StartLeft(todo) => todo \in Seq(Words) /\ Len(todo) > 0 /\ todo[1] # "result"
      BY DEF StartLeft, EndsWith
    <3> QED BY <1>1, <2>1, <3>1 DEF DaemonGoing
  <2> QED BY <2>1, <2>2, RoundTail DEF DaemonGoing
<1>9. CASE Write
  <2>1. output # <<>> /\ UNCHANGED <<todo, pass, changed>>
    BY <1>9 DEF Write, ExitsWith, ExitCode
  <2> QED BY <1>1, <2>1 DEF DaemonGoing, Silent
<1>10. CASE PipeBreaks
  BY <1>1, <1>10 DEF PipeBreaks, DaemonGoing, Silent
<1> QED BY <1>2, <1>3, <1>4, <1>5, <1>6, <1>7, <1>8, <1>9, <1>10, <1>11 DEF ReportNext

\* How a command ends.
LEMMA EndStep ==
  ASSUME ReportInv, code = -1, ReportNext, code' # -1
  PROVE  ExitTellsOutcome'
<1>1. ReportTypes /\ (IF verb \in Daemons THEN DaemonGoing ELSE OnceGoing)
  BY DEF ReportInv
<1>7. Logged'
  BY <1>1, TodoType, LoggedStep DEF ReportInv
<1>2. CASE Fail
  <2>1. pass = 0 /\ todo # <<>>
    <3>1. ~(pass > 0) /\ todo # <<>>
      BY <1>2 DEF Fail, Running
    <3> QED BY <1>1, <3>1 DEF ReportTypes
  <2>2. todo \in Seq(Words) /\ Len(todo) > 0 /\ Head(todo) = todo[1]
    <3>1. todo \in Seq(Words)
      BY <1>1, <2>1 DEF DaemonGoing, OnceGoing, StartLeft, RoundLeft, OnceLeft
    <3> QED BY <2>1, <3>1
  <2>3. Head(todo) # "begin"
    BY <1>2 DEF Fail, Talking
  <2>4. Silent
    BY <1>1, <2>1, <2>3 DEF DaemonGoing, OnceGoing
  <2>5. ASSUME Head(todo) \in (IF verb \in Daemons THEN Early ELSE Firm(verb))
        PROVE  changed' \subseteq Stores(Head(todo))
    <3>1. changed = {}
      BY <1>1, <2>1, <2>2, <2>3, <2>5 DEF DaemonGoing, OnceGoing
    <3> QED BY <1>1, <1>2, <2>1, <2>2, <3>1, FailEnds
  <2>6. /\ code' \in {3, 4, 5, 6, 7, 64} /\ errors' = errors + 1 /\ stdout' = stdout /\ verb' = verb
        /\ code' \in {3, 4, 64} => Head(todo) \in Early
        /\ code' = 4 => Head(todo) = "terminal"
        /\ code' = 64 => Head(todo) \in {"arguments", "interval", "prefixes", "image", "install"}
        /\ code' = 3 => Head(todo) # "install"
    BY <1>1, <1>2, <2>1, <2>2, FailEnds
  <2>7. verb # "tui" => (Head(todo) = "write" => verb = "config_write") /\ (Head(todo) = "install" => verb = "init")
    <3>1. verb \in Daemons => Head(todo) \notin {"write", "install"}
      <4> SUFFICES ASSUME verb \in Daemons PROVE Head(todo) \notin {"write", "install"}
        OBVIOUS
      <4>1. StartLeft(todo) /\ 1 \in 1..Len(todo)
        BY <1>1, <2>1, <2>2, <2>3 DEF DaemonGoing
      <4>2. Stores(todo[1]) = {}
        BY <4>1 DEF StartLeft
      <4> QED BY <2>2, <4>2 DEF Stores
    <3>2. ASSUME verb \notin Daemons, verb # "tui"
          PROVE  (Head(todo) = "write" => verb = "config_write") /\ (Head(todo) = "install" => verb = "init")
      <4>1. OnceLeft(verb, todo) /\ 1 \in 1..Len(todo)
        BY <1>1, <2>1, <2>2, <3>2 DEF OnceGoing
      <4>2. (todo[1] = "write" => verb = "config_write") /\ (todo[1] = "install" => verb = "init")
        BY <3>2, <4>1 DEF OnceLeft
      <4> QED BY <2>2, <4>2
    <3> QED BY <3>1, <3>2
  <2>8. verb = "tui" => Head(todo) \in TuiWords
    <3> SUFFICES ASSUME verb = "tui" PROVE Head(todo) \in TuiWords
      OBVIOUS
    <3>1. OnceLeft(verb, todo) /\ 1 \in 1..Len(todo)
      BY <1>1, <2>1, <2>2 DEF OnceGoing, Daemons
    <3> QED BY <2>2, <3>1 DEF OnceLeft
  <2>9. /\ code' = 4 => changed' = {}
        /\ code' = 64 => changed' \subseteq (IF verb = "init" THEN {"skills"} ELSE {})
        /\ code' = 3 /\ verb # "tui" =>
             changed' \subseteq (IF verb = "config_write" THEN {"configuration"} ELSE {})
    <3>1. code' = 4 => changed' = {}
      <4>1. "terminal" \in Early /\ "terminal" \in Firm(verb) /\ Stores("terminal") = {}
        BY DEF Early, Firm, Stores
      <4> QED BY <2>5, <2>6, <4>1
    <3>2. ASSUME verb # "tui", code' \in {3, 64}
          PROVE  changed' \subseteq Stores(Head(todo)) /\ Head(todo) \in Early
      BY <2>5, <2>6, <3>2 DEF Firm
    <3>3. Head(todo) \in Early =>
            Stores(Head(todo)) = IF Head(todo) = "write" THEN {"configuration"}
                                 ELSE IF Head(todo) = "install" THEN {"skills"} ELSE {}
      BY DEF Early, Stores
    <3>4. code' = 3 /\ verb # "tui" =>
            changed' \subseteq (IF verb = "config_write" THEN {"configuration"} ELSE {})
      BY <2>6, <2>7, <3>2, <3>3
    <3>5. code' = 64 /\ verb # "tui" => changed' \subseteq (IF verb = "init" THEN {"skills"} ELSE {})
      BY <2>6, <2>7, <3>2, <3>3
    <3>6. code' = 64 /\ verb = "tui" => changed' = {}
      <4> SUFFICES ASSUME code' = 64, verb = "tui" PROVE changed' = {}
        OBVIOUS
      <4>1. Head(todo) = "arguments"
        BY <2>6, <2>8 DEF TuiWords, SessionWords
      <4>2. "arguments" \in Firm(verb) /\ Stores("arguments") = {} /\ verb \notin Daemons
        BY DEF Firm, Early, Stores, Daemons
      <4> QED BY <2>5, <4>1, <4>2
    <3> QED BY <3>1, <3>4, <3>5, <3>6
  <2> QED BY <1>7, <2>4, <2>6, <2>9 DEF ExitTellsOutcome, Silent, Logged
<1>3. CASE ClockFails
  BY <1>3, <1>7 DEF ClockFails, ExitsWith, ExitCode, ExitTellsOutcome, Logged
<1>4. CASE Write
  BY <1>4, <1>7 DEF Write, ExitsWith, ExitCode, ExitTellsOutcome, Logged
<1>5. CASE EndReport
  <2>1. /\ todo = <<>> /\ output = <<>> /\ code' = Outcome
        /\ UNCHANGED <<verb, targets, kept, changed, stdout, pipe>>
    BY <1>5 DEF EndReport, ExitsWith
  <2>2. CASE verb \in Daemons \cup {"tui"}
    <3>1. Outcome = 0 /\ verb \notin OneShot \ {"tui"}
      BY <2>2 DEF Outcome, Daemons, OneShot
    <3> QED BY <1>7, <2>1, <3>1 DEF ExitTellsOutcome, Logged
  <2>3. CASE verb \in OneShot \ {"tui"}
    <3>1. verb \notin Daemons
      BY <2>3 DEF OneShot, Daemons
    <3>2. stdout = <<Document(verb)>>
      BY <1>1, <2>1, <2>3, <3>1 DEF OnceGoing
    <3>3. Len(stdout) = 1 /\ stdout[1].pending = targets /\ stdout[1].kept = kept
      BY <3>2 DEF Document
    <3>4. /\ verb \in {"plan", "clean"} => changed \subseteq {"observations"}
          /\ verb = "clean_apply" => "journal" \in changed
      BY <1>1, <2>1, <3>1 DEF OnceGoing
    <3>5. Outcome \in {0, 1, 2}
      BY DEF Outcome
    <3>6. Outcome = 1 => verb \in {"plan", "clean"} /\ targets > 0
      BY DEF Outcome
    <3>7. Outcome = 2 => verb = "clean_apply" /\ kept > 0
      BY DEF Outcome
    <3>8. Outcome = 0 => IF verb \in Applies THEN kept = 0 ELSE verb \in {"plan", "clean"} => targets = 0
      BY <1>1, <2>3 DEF Outcome, Applies, ReportTypes, OneShot
    <3> QED BY <1>7, <2>1, <3>3, <3>4, <3>5, <3>6, <3>7, <3>8 DEF ExitTellsOutcome, Logged
  <2> QED BY <1>1, <2>2, <2>3 DEF ReportTypes
<1>6. CASE \/ Succeed \/ ShowError \/ Interact \/ ReportOnce \/ AnnounceStart \/ BeginPass
           \/ PassResult \/ Wake \/ PipeBreaks
  BY <1>6 DEF Succeed, ShowError, Interact, ReportOnce, AnnounceStart, BeginPass, PassResult, Wake, PipeBreaks
<1> QED BY <1>2, <1>3, <1>4, <1>5, <1>6 DEF ReportNext

LEMMA ReportInvStep == ReportInv /\ [ReportNext]_reportVars => ReportInv'
<1> SUFFICES ASSUME ReportInv, [ReportNext]_reportVars PROVE ReportInv'
  OBVIOUS
<1>1. ReportTypes'
  BY ReportTypesStep DEF ReportInv
<1>2. CASE UNCHANGED reportVars
  BY <1>1, <1>2 DEF reportVars, ReportInv, Logged, DaemonGoing, OnceGoing, Silent, Document, ExitTellsOutcome
<1>3. CASE ReportNext
  <2>1. code = -1 /\ verb' = verb
    BY <1>3 DEF ReportNext, Succeed, Fail, ShowError, Interact, ClockFails, ReportOnce, AnnounceStart, BeginPass, PassResult,
       Wake, Write, EndReport, PipeBreaks, Running
  <2>4. Logged'
    BY <1>3, <2>1, TodoType, LoggedStep DEF ReportInv
  <2>2. CASE code' = -1
    BY <1>1, <1>3, <2>1, <2>2, <2>4, OnceStep, DaemonStep DEF ReportInv, ExitTellsOutcome
  <2>3. CASE code' # -1
    BY <1>1, <1>3, <2>1, <2>3, <2>4, EndStep DEF ReportInv
  <2> QED BY <2>2, <2>3
<1> QED BY <1>2, <1>3

\* The exit code can be acted upon, whatever step has failed and whatever has
\* become of stdout.
THEOREM ExitCodesTellOutcomes == ReportSpec => []ExitTellsOutcome
<1>1. ReportInv => ExitTellsOutcome
  BY DEF ReportInv
<1> QED BY <1>1, ReportInvInit, ReportInvStep, PTL DEF ReportSpec

-----------------------------------------------------------------------------
(* The events of a daemon *)

Counted(said, events, n) == Cardinality({m \in 1..n : said[m].event \in events})

Begins  == {"pass_started"}
Answers == {"pass_summary", "pass_error"}

\* EventsPair of one event that comes after `begun` passes have begun and
\* `answered` of them have been answered.
Fits(document, begun, answered) ==
  /\ document.event \in {"pass_started", "configuration_reload_requested", "daemon_stopped"} => begun = answered
  /\ document.event = "pass_started" => document.pass = begun + 1
  /\ document.event \in {"plan", "action", "pass_summary", "pass_error"}
       => document.pass = begun /\ begun = answered + 1

Bracketed(said) ==
  \A n \in 1..Len(said) : Fits(said[n], Counted(said, Begins, n - 1), Counted(said, Answers, n - 1))

\* Counts are numbers, and only depend on what is counted.
LEMMA CountIsNumber ==
  ASSUME NEW said, NEW events, NEW n \in Nat
  PROVE  /\ Counted(said, events, n) \in Nat
         /\ IsFiniteSet({m \in 1..n : said[m].event \in events})
<1>1. IsFiniteSet(1..n)
  BY FS_Interval
<1>2. {m \in 1..n : said[m].event \in events} \in SUBSET (1..n)
  OBVIOUS
<1> QED BY <1>1, <1>2, FS_Subset, FS_CardinalityType DEF Counted

LEMMA CountsAgree ==
  ASSUME NEW s, NEW r, NEW events, NEW n \in Nat, \A m \in 1..n : s[m] = r[m]
  PROVE  Counted(s, events, n) = Counted(r, events, n)
<1>1. {m \in 1..n : s[m].event \in events} = {m \in 1..n : r[m].event \in events}
  OBVIOUS
<1> QED BY <1>1 DEF Counted

LEMMA CountNothing == \A said, events : Counted(said, events, 0) = 0
<1> SUFFICES ASSUME NEW said, NEW events PROVE Counted(said, events, 0) = 0
  OBVIOUS
<1>1. {m \in 1..0 : said[m].event \in events} = {}
  OBVIOUS
<1> QED BY <1>1, FS_EmptySet DEF Counted

LEMMA CountQuiet ==
  ASSUME NEW said, NEW events, NEW a \in Nat, NEW b \in Nat, a <= b,
         \A m \in (a + 1)..b : said[m].event \notin events
  PROVE  Counted(said, events, b) = Counted(said, events, a)
<1>1. \A m \in 1..b : m \in 1..a \/ m \in (a + 1)..b
  OBVIOUS
<1>2. 1..a \subseteq 1..b
  OBVIOUS
<1>3. {m \in 1..b : said[m].event \in events} = {m \in 1..a : said[m].event \in events}
  BY <1>1, <1>2
<1> QED BY <1>3 DEF Counted

LEMMA CountOne ==
  ASSUME NEW said, NEW events, NEW n \in Nat
  PROVE  Counted(said, events, n + 1)
           = Counted(said, events, n) + (IF said[n + 1].event \in events THEN 1 ELSE 0)
<1> DEFINE before == {m \in 1..n : said[m].event \in events}
<1>1. \A m \in (n + 1)..(n + 1) : m = n + 1
  OBVIOUS
<1>2. CASE said[n + 1].event \notin events
  <2>1. Counted(said, events, n + 1) = Counted(said, events, n)
    BY <1>1, <1>2, CountQuiet
  <2>2. Counted(said, events, n) \in Nat
    BY CountIsNumber
  <2> QED BY <1>2, <2>1, <2>2
<1>3. CASE said[n + 1].event \in events
  <2>1. \A m \in 1..(n + 1) : m \in 1..n \/ m = n + 1
    OBVIOUS
  <2>2. 1..n \subseteq 1..(n + 1) /\ n + 1 \in 1..(n + 1) /\ n + 1 \notin 1..n
    OBVIOUS
  <2>3. {m \in 1..(n + 1) : said[m].event \in events} = before \cup {n + 1}
    BY <1>3, <2>1, <2>2
  <2>4. IsFiniteSet(before) /\ n + 1 \notin before
    BY <2>2, CountIsNumber
  <2>5. Cardinality(before \cup {n + 1}) = Cardinality(before) + 1
    BY <2>4, FS_AddElement
  <2> QED BY <1>3, <2>3, <2>5 DEF Counted
<1> QED BY <1>2, <1>3

\* What has been said first is still bracketed without the rest.
LEMMA PrefixBracketed ==
  ASSUME NEW s \in Seq(Docs), NEW e \in Seq(Docs), Bracketed(s \o e)
  PROVE  Bracketed(s)
<1> DEFINE r == s \o e
<1>1. Len(s) \in Nat /\ Len(r) = Len(s) + Len(e) /\ Len(e) \in Nat
  BY ConcatProperties
<1>2. \A m \in 1..Len(s) : s[m] = r[m]
  OBVIOUS
<1> HIDE DEF r
<1> SUFFICES ASSUME NEW n \in 1..Len(s)
             PROVE  Fits(s[n], Counted(s, Begins, n - 1), Counted(s, Answers, n - 1))
  BY DEF Bracketed
<1>3. n \in 1..Len(r) /\ n - 1 \in Nat /\ \A m \in 1..(n - 1) : m \in 1..Len(s)
  BY <1>1
<1>4. \A events : Counted(s, events, n - 1) = Counted(r, events, n - 1)
  BY <1>2, <1>3, CountsAgree
<1>5. Fits(r[n], Counted(r, Begins, n - 1), Counted(r, Answers, n - 1))
  BY <1>3 DEF Bracketed, r
<1> QED BY <1>2, <1>4, <1>5

\* One more document that fits.
LEMMA OneFits ==
  ASSUME NEW s \in Seq(Docs), NEW d \in Docs, Bracketed(s),
         Fits(d, Counted(s, Begins, Len(s)), Counted(s, Answers, Len(s)))
  PROVE  /\ Bracketed(s \o <<d>>)
         /\ \A events : Counted(s \o <<d>>, events, Len(s \o <<d>>))
                          = Counted(s, events, Len(s)) + (IF d.event \in events THEN 1 ELSE 0)
<1> DEFINE r == s \o <<d>>
<1>1. Len(s) \in Nat /\ Len(r) = Len(s) + 1
  OBVIOUS
<1>2. (\A m \in 1..Len(s) : r[m] = s[m]) /\ r[Len(s) + 1] = d
  OBVIOUS
<1> HIDE DEF r
<1>3. \A events : \A n \in 0..Len(s) : Counted(r, events, n) = Counted(s, events, n)
  <2> SUFFICES ASSUME NEW events, NEW n \in 0..Len(s) PROVE Counted(r, events, n) = Counted(s, events, n)
    OBVIOUS
  <2>1. n \in Nat /\ \A m \in 1..n : m \in 1..Len(s)
    BY <1>1
  <2> QED BY <1>2, <2>1, CountsAgree
<1>4. Bracketed(r)
  <2> SUFFICES ASSUME NEW n \in 1..Len(r)
               PROVE  Fits(r[n], Counted(r, Begins, n - 1), Counted(r, Answers, n - 1))
    BY DEF Bracketed
  <2>1. n - 1 \in 0..Len(s)
    BY <1>1
  <2>2. CASE n \in 1..Len(s)
    <3>1. Fits(s[n], Counted(s, Begins, n - 1), Counted(s, Answers, n - 1))
      BY <2>2 DEF Bracketed
    <3> QED BY <1>2, <1>3, <2>1, <2>2, <3>1
  <2>3. CASE n \notin 1..Len(s)
    <3>1. n = Len(s) + 1 /\ n - 1 = Len(s)
      BY <1>1, <2>3
    <3>2. r[n] = d
      BY <1>2, <3>1
    <3>3. /\ Counted(r, Begins, n - 1) = Counted(s, Begins, Len(s))
          /\ Counted(r, Answers, n - 1) = Counted(s, Answers, Len(s))
      BY <1>3, <2>1, <3>1
    <3> QED BY <3>2, <3>3
  <2> QED BY <2>2, <2>3
<1>5. ASSUME NEW events
      PROVE  Counted(r, events, Len(r)) = Counted(s, events, Len(s)) + (IF d.event \in events THEN 1 ELSE 0)
  <2>1. Counted(r, events, Len(s) + 1)
          = Counted(r, events, Len(s)) + (IF r[Len(s) + 1].event \in events THEN 1 ELSE 0)
    BY <1>1, CountOne
  <2>2. Counted(r, events, Len(s)) = Counted(s, events, Len(s))
    BY <1>1, <1>3
  <2> QED BY <1>1, <1>2, <2>1, <2>2
<1> QED BY <1>4, <1>5 DEF r

\* Documents of the pass under way that neither begin nor end one.
LEMMA ManyFit ==
  ASSUME NEW s \in Seq(Docs), NEW e \in Seq(Docs), Bracketed(s), NEW begun,
         begun = Counted(s, Begins, Len(s)), begun = Counted(s, Answers, Len(s)) + 1,
         \A m \in 1..Len(e) : e[m].event \in {"plan", "action"} /\ e[m].pass = begun
  PROVE  /\ Bracketed(s \o e)
         /\ \A events \in {Begins, Answers} :
              Counted(s \o e, events, Len(s \o e)) = Counted(s, events, Len(s))
<1> DEFINE r == s \o e
<1>1. Len(s) \in Nat /\ Len(e) \in Nat /\ Len(r) = Len(s) + Len(e)
  BY ConcatProperties
<1>2. /\ \A m \in 1..Len(s) : r[m] = s[m]
      /\ \A m \in (Len(s) + 1)..Len(r) : r[m] = e[m - Len(s)] /\ m - Len(s) \in 1..Len(e)
  BY <1>1, ConcatProperties
<1> HIDE DEF r
<1>3. \A m \in (Len(s) + 1)..Len(r) : r[m].event \in {"plan", "action"} /\ r[m].pass = begun
  BY <1>2
<1>4. \A events : \A n \in 0..Len(s) : Counted(r, events, n) = Counted(s, events, n)
  <2> SUFFICES ASSUME NEW events, NEW n \in 0..Len(s) PROVE Counted(r, events, n) = Counted(s, events, n)
    OBVIOUS
  <2>1. n \in Nat /\ \A m \in 1..n : m \in 1..Len(s)
    BY <1>1
  <2> QED BY <1>2, <2>1, CountsAgree
<1>5. \A events \in {Begins, Answers} : \A n \in Len(s)..Len(r) :
        Counted(r, events, n) = Counted(s, events, Len(s))
  <2> SUFFICES ASSUME NEW events \in {Begins, Answers}, NEW n \in Len(s)..Len(r)
               PROVE  Counted(r, events, n) = Counted(s, events, Len(s))
    OBVIOUS
  <2>1. n \in Nat /\ Len(s) <= n /\ \A m \in (Len(s) + 1)..n : m \in (Len(s) + 1)..Len(r)
    BY <1>1
  <2>2. \A m \in (Len(s) + 1)..n : r[m].event \notin events
    BY <1>3, <2>1 DEF Begins, Answers
  <2>3. Counted(r, events, n) = Counted(r, events, Len(s))
    BY <1>1, <2>1, <2>2, CountQuiet
  <2> QED BY <1>1, <1>4, <2>3
<1>6. Bracketed(r)
  <2> SUFFICES ASSUME NEW n \in 1..Len(r)
               PROVE  Fits(r[n], Counted(r, Begins, n - 1), Counted(r, Answers, n - 1))
    BY DEF Bracketed
  <2>1. CASE n \in 1..Len(s)
    <3>1. Fits(s[n], Counted(s, Begins, n - 1), Counted(s, Answers, n - 1)) /\ n - 1 \in 0..Len(s)
      BY <1>1, <2>1 DEF Bracketed
    <3> QED BY <1>2, <1>4, <2>1, <3>1
  <2>2. CASE n \notin 1..Len(s)
    <3>1. n \in (Len(s) + 1)..Len(r) /\ n - 1 \in Len(s)..Len(r)
      BY <1>1, <2>2
    <3>2. Counted(r, Begins, n - 1) = begun /\ begun = Counted(r, Answers, n - 1) + 1
      BY <1>5, <3>1
    <3> QED BY <1>3, <3>1, <3>2 DEF Fits
  <2> QED BY <2>1, <2>2
<1> QED BY <1>1, <1>5, <1>6 DEF r

\* What is on stdout or on its way there.
Said == stdout \o output

\* A pass has begun and not been answered yet.
InPass == pass > 0 /\ todo # <<>> /\ Head(todo) \notin {"begin", "wake"}

\* Until the daemon ends, what it is about to write is bracketed too.
EventGoing ==
  /\ Bracketed(Said)
  /\ Counted(Said, Begins, Len(Said)) = pass
  /\ Counted(Said, Answers, Len(Said)) = IF InPass THEN pass - 1 ELSE pass
  /\ todo = <<>> => Said # <<>> /\ Last(Said).event = "daemon_stopped"

EventInv ==
  /\ ReportInv
  /\ verb \in Daemons /\ json => EventsPair /\ (code = -1 => EventGoing)

LEMMA SaidTypes ==
  ASSUME ReportTypes
  PROVE  /\ stdout \in Seq(Docs) /\ output \in Seq(Docs)
         /\ Said \in Seq(Docs) /\ Len(Said) \in Nat
         /\ pass \in Nat
<1>1. stdout \in Seq(Docs) /\ output \in Seq(Docs) /\ pass \in Nat
  BY DEF ReportTypes
<1>2. Said \in Seq(Docs)
  BY <1>1, ConcatProperties DEF Said
<1> QED BY <1>1, <1>2

\* The property of a stream that is bracketed.
LEMMA BracketsPair ==
  ASSUME ReportTypes, Bracketed(stdout),
         code = 0 /\ pipe # "closed" => Last(stdout).event = "daemon_stopped"
  PROVE  EventsPair
<1>1. DOMAIN stdout = 1..Len(stdout)
  BY SaidTypes
<1> QED BY <1>1 DEF Bracketed, Fits, Counted, Begins, Answers, EventsPair, Occurred

LEMMA EventInvInit == ReportInit => EventInv
<1> SUFFICES ASSUME ReportInit PROVE EventInv
  OBVIOUS
<1>1. ReportInv /\ ReportTypes
  BY ReportInvInit DEF ReportInv
<1>2. Said = <<>> /\ stdout = <<>> /\ pass = 0 /\ code = -1
  BY DEF ReportInit, Said
<1>3. Len(Said) = 0 /\ Bracketed(Said) /\ Bracketed(stdout)
  BY <1>2 DEF Bracketed
<1>4. EventsPair
  BY <1>1, <1>2, <1>3, BracketsPair
<1>5. verb \in Daemons => todo # <<>>
  BY DaemonSteps DEF ReportInit, StartLeft, EndsWith
<1>6. verb \in Daemons => EventGoing
  BY <1>2, <1>3, <1>5, CountNothing DEF EventGoing, InPass
<1> QED BY <1>1, <1>4, <1>6 DEF EventInv

\* A step that says one more event, none, or the result of a pass.
LEMMA SaysOne ==
  ASSUME ReportTypes, Bracketed(stdout), NEW d \in Docs, output' = <<d>>, stdout' = stdout,
         Fits(d, Counted(stdout, Begins, Len(stdout)), Counted(stdout, Answers, Len(stdout)))
  PROVE  /\ Bracketed(Said') /\ Said' # <<>> /\ Last(Said') = d
         /\ \A events : Counted(Said', events, Len(Said'))
                          = Counted(stdout, events, Len(stdout)) + (IF d.event \in events THEN 1 ELSE 0)
<1>1. Said' = stdout \o <<d>> /\ stdout \in Seq(Docs)
  BY SaidTypes DEF Said
<1>2. Said' # <<>> /\ Last(Said') = d
  BY <1>1 DEF Last
<1> QED BY <1>1, <1>2, OneFits

\* The steps of a daemon that writes events and does not end.
LEMMA EventStep ==
  ASSUME EventInv, code = -1, verb \in Daemons, json, ReportNext, code' = -1
  PROVE  EventGoing'
<1>1. ReportTypes /\ DaemonGoing /\ EventGoing
  BY DEF EventInv, ReportInv
<1>2. stdout \in Seq(Docs) /\ output \in Seq(Docs) /\ Len(stdout) \in Nat /\ pass \in Nat
  BY <1>1, SaidTypes
<1>3. ASSUME Running
      PROVE  /\ Said = stdout /\ Bracketed(stdout) /\ todo # <<>>
             /\ Counted(stdout, Begins, Len(stdout)) = pass
             /\ Counted(stdout, Answers, Len(stdout)) = IF InPass THEN pass - 1 ELSE pass
  BY <1>1, <1>2, <1>3, ConcatEmptySeq DEF Running, Said, EventGoing
<1>4. CASE Succeed
  <2>1. /\ Running /\ Head(todo) \notin Talking /\ todo' = Tail(todo)
        /\ UNCHANGED <<stdout, output, pass>>
    BY <1>4 DEF Succeed
  <2>2. Said' = Said
    BY <2>1 DEF Said
  <2>3. todo' # <<>> /\ InPass' = InPass
    <3>1. CASE StartLeft(todo) /\ pass = 0
      BY <2>1, <3>1, StartTail DEF InPass, Talking
    <3>2. CASE RoundLeft(todo) /\ pass > 0
      <4>1. Head(todo) \notin {"begin", "wake", "result"}
        BY <2>1 DEF Talking
      <4>2. todo' # <<>> /\ Head(todo') \notin {"begin", "wake"}
        BY <2>1, <3>2, <4>1, RoundTail
      <4> QED BY <2>1, <3>2, <4>1, <4>2 DEF InPass, Running
    <3> QED BY <1>1, <2>1, <3>1, <3>2 DEF DaemonGoing, Running, Talking
  <2> QED BY <1>1, <2>1, <2>2, <2>3 DEF EventGoing
<1>5. CASE Fail
  <2>1. Running /\ stdout' = stdout /\ Head(todo) \notin {"begin", "wake"} /\ pass' = pass
    BY <1>5 DEF Fail, Talking
  <2>2. pass > 0
    <3> SUFFICES ASSUME pass = 0 PROVE FALSE
      BY <1>2
    <3>1. todo \in Seq(Words)
      BY <1>1, <2>1 DEF DaemonGoing, Running, StartLeft, RoundLeft
    <3> QED BY <1>1, <1>5, <3>1, FailEnds
  <2>3. output' = <<Document("pass_error")>> /\ todo' = <<"wake">>
    BY <1>5, <2>2 DEF Fail, Announced
  <2>4. Document("pass_error") \in Docs
    BY <1>1, DocumentType DEF Events
  <2>5. InPass /\ ~InPass' /\ todo' # <<>>
    BY <2>1, <2>2, <2>3 DEF InPass, Running
  <2>6. Fits(Document("pass_error"), pass, pass - 1)
    BY <1>2 DEF Fits, Document
  <2>7. /\ Bracketed(Said')
        /\ Counted(Said', Begins, Len(Said')) = pass + 0
        /\ Counted(Said', Answers, Len(Said')) = pass - 1 + 1
    BY <1>1, <1>3, <2>1, <2>3, <2>4, <2>5, <2>6, SaysOne DEF Begins, Answers, Document
  <2> QED BY <1>2, <2>1, <2>5, <2>7 DEF EventGoing
<1>6. CASE AnnounceStart
  <2>1. /\ Running /\ Head(todo) = "announce" /\ stdout' = stdout /\ pass' = pass /\ todo' = PassSteps
        /\ output' = <<Document("daemon_started")>>
    BY <1>6 DEF AnnounceStart, Announced
  <2>2. ~InPass /\ ~InPass' /\ todo' # <<>>
    <3>1. RoundLeft(todo) => todo \in Seq(Words) /\ Len(todo) > 0 /\ todo[1] # "announce"
      BY DEF RoundLeft, EndsWith
    <3>2. pass = 0
      BY <1>1, <2>1, <3>1 DEF DaemonGoing, Running
    <3>3. PassSteps # <<>>
      BY RoundSteps DEF RoundLeft, EndsWith
    <3> QED BY <2>1, <3>2, <3>3, RoundSteps DEF InPass
  <2>3. Document("daemon_started") \in Docs /\ Document("daemon_started").event = "daemon_started"
    BY <1>1, DocumentType DEF Events, Document
  <2>4. Fits(Document("daemon_started"), pass, pass)
    BY <2>3 DEF Fits
  <2>5. /\ Bracketed(Said')
        /\ Counted(Said', Begins, Len(Said')) = pass + 0
        /\ Counted(Said', Answers, Len(Said')) = pass + 0
    BY <1>1, <1>3, <2>1, <2>2, <2>3, <2>4, SaysOne DEF Begins, Answers
  <2> QED BY <1>2, <2>1, <2>2, <2>5 DEF EventGoing
<1>7. CASE BeginPass
  <2> DEFINE d == [Document("pass_started") EXCEPT !.pass = pass + 1]
  <2>1. /\ Running /\ Head(todo) = "begin" /\ stdout' = stdout /\ pass' = pass + 1 /\ todo' = Tail(todo)
        /\ output' = <<d>>
    BY <1>7 DEF BeginPass
  <2>2. RoundLeft(todo)
    <3>1. StartLeft(todo) => todo \in Seq(Words) /\ Len(todo) > 0 /\ todo[1] # "begin"
      BY DEF StartLeft, EndsWith
    <3> QED BY <1>1, <2>1, <3>1 DEF DaemonGoing, Running
  <2>3. ~InPass /\ InPass' /\ todo' # <<>>
    BY <1>2, <2>1, <2>2, RoundTail DEF InPass
  <2>4. d \in Docs /\ d.event = "pass_started" /\ d.pass = pass + 1
    <3>1. Document("pass_started") \in Docs /\ Document("pass_started").event = "pass_started"
      BY <1>1, DocumentType DEF Events, Document
    <3>2. pass + 1 \in Nat
      BY <1>2
    <3>3. d \in Docs
      BY <3>1, <3>2 DEF Docs
    <3>4. d.event = "pass_started" /\ d.pass = pass + 1
      BY DEF Document
    <3> QED BY <3>3, <3>4
  <2> HIDE DEF d
  <2>5. Fits(d, pass, pass)
    BY <2>4 DEF Fits
  <2>6. /\ Bracketed(Said')
        /\ Counted(Said', Begins, Len(Said')) = pass + 1
        /\ Counted(Said', Answers, Len(Said')) = pass + 0
    BY <1>1, <1>3, <2>1, <2>3, <2>4, <2>5, SaysOne DEF Begins, Answers
  <2> QED BY <1>2, <2>1, <2>3, <2>6 DEF EventGoing
<1>8. CASE PassResult
  <2> DEFINE begin == <<Document("plan")>>
             acts  == IF verb \in Applies THEN [n \in 1..targets |-> Document("action")] ELSE <<>>
             said  == begin \o acts
             d     == Document("pass_summary")
  <2>1. /\ Running /\ Head(todo) = "result" /\ stdout' = stdout /\ pass' = pass /\ todo' = Tail(todo)
        /\ output' = ResultEvents
    BY <1>8 DEF PassResult
  <2>2. RoundLeft(todo) /\ pass > 0
    <3>1. StartLeft(todo) => todo \in Seq(Words) /\ Len(todo) > 0 /\ todo[1] # "result"
      BY DEF StartLeft, EndsWith
    <3> QED BY <1>1, <2>1, <3>1 DEF DaemonGoing, Running
  <2>3. InPass /\ ~InPass' /\ todo' # <<>>
    BY <1>2, <2>1, <2>2, RoundTail DEF InPass
  <2>4. /\ Document("plan") \in Docs /\ Document("action") \in Docs /\ d \in Docs
        /\ Document("plan").event = "plan" /\ Document("plan").pass = pass
        /\ Document("action").event = "action" /\ Document("action").pass = pass
        /\ d.event = "pass_summary" /\ d.pass = pass
    BY <1>1, DocumentType DEF Events, Document
  <2>5. targets \in Nat
    BY <1>1 DEF ReportTypes
  <2>6. begin \in Seq(Docs) /\ Len(begin) = 1 /\ begin[1] = Document("plan") /\ <<d>> \in Seq(Docs)
    BY <2>4, OneIsList
  <2>7. acts \in Seq(Docs) /\ \A m \in 1..Len(acts) : acts[m] = Document("action")
    BY <2>4, <2>5, OneIsList
  <2>8. output' = said \o <<d>>
    BY <2>1, <2>6, <2>7, ConcatAssociative DEF ResultEvents
  <2> HIDE DEF begin, acts, d
  <2>9. /\ said \in Seq(Docs)
        /\ \A m \in 1..Len(said) : said[m].event \in {"plan", "action"} /\ said[m].pass = pass
    <3>1. said \in Seq(Docs) /\ Len(said) = 1 + Len(acts) /\ Len(acts) \in Nat
      BY <2>6, <2>7, ConcatProperties
    <3>2. ASSUME NEW m \in 1..Len(said) PROVE said[m] \in {Document("plan"), Document("action")}
      <4>1. said[m] = IF m <= 1 THEN begin[m] ELSE acts[m - 1]
        BY <2>6, <2>7, <3>1, ConcatProperties
      <4>2. m = 1 \/ (m > 1 /\ m - 1 \in 1..Len(acts))
        BY <3>1
      <4> QED BY <2>6, <2>7, <4>1, <4>2
    <3> QED BY <2>4, <3>1, <3>2
  <2> HIDE DEF said
  <2> DEFINE middle == stdout \o said
  <2>10. /\ Bracketed(middle) /\ middle \in Seq(Docs)
         /\ Counted(middle, Begins, Len(middle)) = pass
         /\ Counted(middle, Answers, Len(middle)) = pass - 1
    <3>1. /\ Bracketed(stdout) /\ pass = Counted(stdout, Begins, Len(stdout))
          /\ Counted(stdout, Answers, Len(stdout)) = pass - 1
          /\ pass = Counted(stdout, Answers, Len(stdout)) + 1
      BY <1>2, <1>3, <2>1, <2>3
    <3>2. /\ Bracketed(middle)
          /\ \A events \in {Begins, Answers} :
               Counted(middle, events, Len(middle)) = Counted(stdout, events, Len(stdout))
      BY <1>2, <2>9, <3>1, ManyFit
    <3>3. middle \in Seq(Docs)
      BY <1>2, <2>9, ConcatProperties
    <3> QED BY <3>1, <3>2, <3>3
  <2>11. Said' = middle \o <<d>>
    BY <1>2, <2>1, <2>6, <2>8, <2>9, ConcatAssociative DEF Said
  <2> HIDE DEF middle
  <2>12. Fits(d, pass, pass - 1)
    BY <1>2, <2>4 DEF Fits
  <2>13. d \in Docs
    BY <2>4
  <2>14. /\ Bracketed(Said')
         /\ Counted(Said', Begins, Len(Said')) = pass + 0
         /\ Counted(Said', Answers, Len(Said')) = pass - 1 + 1
    BY <2>4, <2>10, <2>11, <2>12, <2>13, OneFits DEF Begins, Answers
  <2> QED BY <1>2, <2>1, <2>3, <2>14 DEF EventGoing
<1>9. CASE Wake
  <2>1. Running /\ Head(todo) = "wake" /\ stdout' = stdout /\ pass' = pass /\ ~InPass
    BY <1>9 DEF Wake, InPass
  <2>2. ASSUME NEW event \in {"configuration_reload_requested", "daemon_stopped"}, output' = <<Document(event)>>
        PROVE  /\ Bracketed(Said') /\ Said' # <<>> /\ Last(Said').event = event
               /\ Counted(Said', Begins, Len(Said')) = pass + 0
               /\ Counted(Said', Answers, Len(Said')) = pass + 0
    <3>1. Document(event) \in Docs /\ Document(event).event = event
      BY <1>1, DocumentType DEF Events, Document
    <3>2. Fits(Document(event), pass, pass)
      BY <3>1 DEF Fits
    <3>3. event \notin Begins \cup Answers
      BY DEF Begins, Answers
    <3> QED BY <1>1, <1>3, <2>1, <2>2, <3>1, <3>2, <3>3, SaysOne
  <2>3. CASE output' = <<Document("daemon_stopped")>> /\ todo' = <<>>
    <3>1. ~InPass'
      BY <2>3 DEF InPass
    <3> QED BY <1>2, <2>1, <2>2, <2>3, <3>1 DEF EventGoing
  <2>4. CASE todo' = PassSteps /\ output' \in {<<>>, <<Document("configuration_reload_requested")>>}
    <3>1. ~InPass' /\ todo' # <<>>
      BY <2>4, RoundSteps DEF InPass, RoundLeft, EndsWith
    <3>2. CASE output' = <<>>
      <4>1. Said' = stdout
        BY <1>2, <2>1, <3>2, ConcatEmptySeq DEF Said
      <4> QED BY <1>3, <2>1, <3>1, <4>1 DEF EventGoing
    <3>3. CASE output' = <<Document("configuration_reload_requested")>>
      BY <1>2, <2>1, <2>2, <3>1, <3>3 DEF EventGoing
    <3> QED BY <2>4, <3>2, <3>3
  <2>5. Announced("daemon_stopped") = <<Document("daemon_stopped")>>
        /\ Announced("configuration_reload_requested") = <<Document("configuration_reload_requested")>>
    BY DEF Announced
  <2> QED BY <1>9, <2>3, <2>4, <2>5 DEF Wake
<1>10. CASE Write
  <2>1. /\ output # <<>> /\ stdout' = Append(stdout, Head(output)) /\ output' = Tail(output)
        /\ UNCHANGED <<todo, pass>>
    BY <1>10 DEF Write, ExitsWith, ExitCode
  <2>2. Head(output) \in Docs /\ Tail(output) \in Seq(Docs) /\ output = <<Head(output)>> \o Tail(output)
    BY <1>2, <2>1
  <2>3. stdout' = stdout \o <<Head(output)>> /\ <<Head(output)>> \in Seq(Docs)
    BY <1>2, <2>1, <2>2, AppendIsConcat, OneIsList
  <2>4. Said' = Said
    BY <1>2, <2>1, <2>2, <2>3, ConcatAssociative DEF Said
  <2> QED BY <1>1, <2>1, <2>4 DEF EventGoing, InPass
<1>11. CASE PipeBreaks
  BY <1>1, <1>11 DEF PipeBreaks, EventGoing, InPass, Said
<1>12. CASE ReportOnce
  <2>1. todo # <<>> /\ Head(todo) = "report"
    BY <1>12 DEF ReportOnce, Running
  <2>2. todo \in Seq(Words) /\ Len(todo) > 0 /\ todo[1] # "report"
    BY <1>1, <2>1 DEF DaemonGoing, StartLeft, RoundLeft, EndsWith
  <2> QED BY <2>1, <2>2
<1>13. CASE ClockFails \/ EndReport
  BY <1>13 DEF ClockFails, EndReport, ExitsWith, ExitCode, Outcome
<1>14. CASE ShowError \/ Interact
  <2>1. todo # <<>> /\ (Head(todo) = "session" \/ Shows)
    BY <1>14 DEF ShowError, Interact, Running
  <2> QED BY <1>1, <2>1, NoSession DEF DaemonGoing
<1> QED BY <1>4, <1>5, <1>6, <1>7, <1>8, <1>9, <1>10, <1>11, <1>12, <1>13, <1>14 DEF ReportNext

\* A daemon that ends has not cut what it has said before.
LEMMA EventEnd ==
  ASSUME EventInv, code = -1, verb \in Daemons, json, ReportNext, code' # -1
  PROVE  EventsPair'
<1>1. ReportTypes /\ DaemonGoing /\ EventGoing /\ ReportTypes'
  BY ReportTypesStep DEF EventInv, ReportInv
<1>2. stdout \in Seq(Docs) /\ output \in Seq(Docs) /\ pass \in Nat
  BY <1>1, SaidTypes
<1>3. Bracketed(stdout)
  BY <1>1, <1>2, PrefixBracketed DEF EventGoing, Said
<1>4. Bracketed(stdout')
  <2>1. stdout' \in {stdout, Append(stdout, Document("part"))}
    BY DEF ReportNext, Succeed, Fail, ShowError, Interact, ClockFails, ReportOnce, AnnounceStart, BeginPass, PassResult,
       Wake, Write, EndReport, PipeBreaks, ExitsWith
  <2>2. Document("part") \in Docs /\ Document("part").event = "part"
    BY <1>1, DocumentType DEF Events, Document
  <2>3. Append(stdout, Document("part")) = stdout \o <<Document("part")>>
    BY <1>2, <2>2, AppendIsConcat
  <2>4. Fits(Document("part"), Counted(stdout, Begins, Len(stdout)), Counted(stdout, Answers, Len(stdout)))
    BY <2>2 DEF Fits
  <2>5. Bracketed(stdout \o <<Document("part")>>)
    BY <1>2, <1>3, <2>2, <2>4, OneFits
  <2> QED BY <1>3, <2>1, <2>3, <2>5
<1>5. code' = 0 /\ pipe' # "closed" => Last(stdout').event = "daemon_stopped"
  <2> SUFFICES ASSUME code' = 0, pipe' # "closed" PROVE Last(stdout').event = "daemon_stopped"
    OBVIOUS
  <2>1. CASE Fail
    <3>1. ~(pass > 0)
      BY <2>1 DEF Fail
    <3>2. todo \in Seq(Words)
      BY <1>1, <2>1 DEF DaemonGoing, Fail, Running, StartLeft, RoundLeft
    <3> QED BY <1>1, <1>2, <2>1, <3>1, <3>2, FailEnds
  <2>2. CASE EndReport
    <3>1. todo = <<>> /\ output = <<>> /\ stdout' = stdout
      BY <2>2 DEF EndReport
    <3>2. Said = stdout
      BY <1>2, <3>1, ConcatEmptySeq DEF Said
    <3> QED BY <1>1, <3>1, <3>2 DEF EventGoing
  <2>3. CASE ClockFails \/ Write
    BY <2>3 DEF ClockFails, Write, ExitsWith, ExitCode
  <2>4. CASE \/ Succeed \/ ShowError \/ Interact \/ ReportOnce \/ AnnounceStart \/ BeginPass
             \/ PassResult \/ Wake \/ PipeBreaks
    BY <2>4 DEF Succeed, ShowError, Interact, ReportOnce, AnnounceStart, BeginPass, PassResult, Wake, PipeBreaks
  <2> QED BY <2>1, <2>2, <2>3, <2>4 DEF ReportNext
<1>6. DOMAIN stdout' = 1..Len(stdout')
  BY <1>1 DEF ReportTypes
<1> QED BY <1>4, <1>5, <1>6 DEF Bracketed, Fits, Counted, Begins, Answers, EventsPair, Occurred

LEMMA EventInvStep == EventInv /\ [ReportNext]_reportVars => EventInv'
<1> SUFFICES ASSUME EventInv, [ReportNext]_reportVars PROVE EventInv'
  OBVIOUS
<1>1. ReportInv' /\ ReportTypes /\ ReportTypes'
  BY ReportInvStep DEF EventInv, ReportInv
<1>2. CASE UNCHANGED reportVars
  BY <1>1, <1>2 DEF reportVars, EventInv, EventsPair, Occurred, EventGoing, InPass, Said
<1>3. CASE ReportNext
  <2>1. code = -1 /\ verb' = verb /\ json' = json
    BY <1>3 DEF ReportNext, Succeed, Fail, ShowError, Interact, ClockFails, ReportOnce, AnnounceStart, BeginPass, PassResult,
       Wake, Write, EndReport, PipeBreaks, Running
  <2>2. CASE verb \in Daemons /\ json /\ code' = -1
    <3>1. EventGoing'
      BY <1>3, <2>1, <2>2, EventStep
    <3>2. stdout' \in Seq(Docs) /\ output' \in Seq(Docs)
      BY <1>1 DEF ReportTypes
    <3>3. Bracketed(stdout')
      BY <3>1, <3>2, PrefixBracketed DEF EventGoing, Said
    <3>4. DOMAIN stdout' = 1..Len(stdout')
      BY <3>2
    <3>5. EventsPair'
      <4>1. ASSUME NEW n \in DOMAIN stdout'
            PROVE  Fits(stdout'[n], Occurred(Begins, n - 1)', Occurred(Answers, n - 1)')
        <5>1. Fits(stdout'[n], Counted(stdout', Begins, n - 1), Counted(stdout', Answers, n - 1))
          BY <3>3, <3>4 DEF Bracketed
        <5> QED BY <5>1 DEF Counted, Occurred
      <4> QED BY <2>2, <4>1 DEF Fits, Begins, Answers, EventsPair
    <3> QED BY <1>1, <3>1, <3>5 DEF EventInv
  <2>3. CASE verb \in Daemons /\ json /\ code' # -1
    BY <1>1, <1>3, <2>1, <2>3, EventEnd DEF EventInv
  <2>4. CASE ~(verb \in Daemons /\ json)
    BY <1>1, <2>1, <2>4 DEF EventInv
  <2> QED BY <2>2, <2>3, <2>4
<1> QED BY <1>2, <1>3

\* The events of a daemon tell which pass they belong to: every pass that begins
\* has the next number and is answered before another one begins, and a daemon
\* that was told to stop says so last.
THEOREM EventsTellPasses == ReportSpec => []EventsPair
<1>1. EventInv => EventsPair
  BY DEF EventInv, EventsPair
<1> QED BY <1>1, EventInvInit, EventInvStep, PTL DEF ReportSpec

=============================================================================
