-------------------------------- MODULE Spawn --------------------------------
(***************************************************************************)
(* `spawn` (src/src/spawn.rs, run_spawn in src/src/main.rs) creates and    *)
(* starts one stamped container (src/src/stamp.rs) and returns, while      *)
(* cleaners decide about every container by the policy, users start, stop, *)
(* pause and remove containers and images, and the engine refuses requests *)
(* or loses their answers.                                                 *)
(*                                                                         *)
(* A label key is a namespace and a leaf, a label a key and a value.  Time *)
(* is the number of seconds a container has been in its state, up to       *)
(* MaxAge.  The race of one removal with other clients is Executor's       *)
(* subject; here a removal is one step.                                    *)
(***************************************************************************)
EXTENDS Policy

CONSTANTS
  Spawners,    \* processes that run `spawn`
  Ids,         \* the container ids the engine may give out, each one once
  Names,       \* names a caller may ask for
  Owners,      \* owner names the stamp writes
  Policies,     \* the configurations a cleaner may have
  MaxAge,      \* bound on the seconds counted in one state
  MaxRefusals, \* bound on requests that the engine refuses or answers in vain
  MaxMoves     \* bound on what users do to containers and the image

ASSUME SpawnAssumption ==
  /\ None \notin Spawners \cup Ids \cup Names \cup Owners
  /\ MaxAge \in Nat /\ MaxRefusals \in Nat /\ MaxMoves \in Nat

VARIABLES
  cfg,         \* the cleaners' configuration
  image,       \* is the image on the host
  containers,  \* [Ids -> a container, None before it is created or once gone]
  phase,          \* [Spawners -> "idle", "image", "create", "start", "name"]
  request,     \* [Spawners -> the SpawnRequest under way]
  mine,        \* [Spawners -> the id the engine answered, or None]
  ended,      \* [Spawners -> how the command ended]
  reported,    \* [Spawners -> the name in its report]
  made,        \* history: [Ids -> the spawner a container was created for]
  started,     \* history: the containers that have been started
  reclaimed,   \* history: the containers cleaners removed
  refusals, moves

requestVars == <<phase, request, mine, ended, reported>>
spawnHistory   == <<made, started, reclaimed>>
spawnVars      == <<cfg, image, containers, requestVars, spawnHistory, refusals, moves>>

-----------------------------------------------------------------------------
(* Labels and the stamp *)

\* VOCABULARY: an exact key or a namespace, the most specific first.
VOCABULARY ==
  <<[key |-> <<"com.docker.compose.", "project">>, matching |-> "exact"],
    [key |-> <<"dev.docker-maid.", "managed">>,    matching |-> "exact"],
    [key |-> <<"ai-agent.", "">>,                  matching |-> "prefix"],
    [key |-> <<"devcontainer.", "">>,              matching |-> "prefix"]>>

Matches(entry, key) ==
  IF entry.matching = "exact" THEN key = entry.key ELSE key[1] = entry.key[1]

ASSUME VocabularyAssumption == \A n \in DOMAIN VOCABULARY : VOCABULARY[n] # None

\* lookup(): the first entry a key matches.
Lookup(key) ==
  LET hits == {n \in DOMAIN VOCABULARY : Matches(VOCABULARY[n], key)}
  IN  IF hits = {} THEN None ELSE VOCABULARY[CHOOSE n \in hits : \A k \in hits : n <= k]

IsKnown(key) == Lookup(key) # None

managed_key     == VOCABULARY[2].key
agent_namespace == VOCABULARY[3].key[1]

\* Stamp::new(): the managed label, and the owner's when one is named.
Stamp(owner) ==
  {<<managed_key, "true">>} \cup
  (IF owner = None THEN {} ELSE {<<<<agent_namespace, "owner">>, owner>>})

-----------------------------------------------------------------------------
(* The request *)

ArgumentTexts == {"text", "blank", "odd"}
Paths == {"none", "relative", "missing", "directory"}

\* What the arguments may be: an owner is blank or holds an odd character, an
\* image or a name is blank, a path is relative or leads nowhere.
Arguments ==
  [owner : ArgumentTexts \cup {"none"}, image : ArgumentTexts, name : ArgumentTexts \cup {"none"},
   workspace : Paths, workdir : {"none", "relative", "absolute"}]

\* Stamp::new() and SpawnRequest::new(), before the engine is asked anything.
ValidArguments(a) ==
  /\ a.owner \notin {"blank", "odd"}
  /\ a.image # "blank" /\ a.name # "blank"
  /\ a.workspace \in {"none", "directory"}
  /\ a.workdir # "relative"

\* What the arguments can be besides: all wrong, or all right.
Shapes ==
  {[valid |-> ValidArguments(a), named |-> a.name # "none", owned |-> a.owner # "none"] : a \in Arguments}

\* container_body(): labelled, and there until somebody removes it.  The image,
\* the command and the paths are handed on as they are, no stream is attached.
ContainerBody(r) == [labels |-> Stamp(r.owner), auto_remove |-> FALSE]

-----------------------------------------------------------------------------
(* The engine *)

NewContainer(r, id) ==
  [body |-> ContainerBody(r), name |-> IF r.name = None THEN id ELSE r.name,
   state |-> "created", age |-> 0]

Unused == {id \in Ids : made[id] = None}

NameTaken(r) == \E id \in Ids : containers[id] # None /\ r.name = containers[id].name

Turns(id, state) == [containers EXCEPT ![id].state = state, ![id].age = 0]

\* A container that has ended is kept unless it was created to be removed.
Exited(id) ==
  IF containers[id].body.auto_remove THEN [containers EXCEPT ![id] = None]
  ELSE Turns(id, "exited")

Started(id) == Turns(id, "running")

-----------------------------------------------------------------------------
(* spawn *)

NoRequest == [owner |-> None, name |-> None]

SpawnInit ==
  /\ cfg \in Policies
  /\ image \in BOOLEAN
  /\ containers = [id \in Ids |-> None]
  /\ phase       = [s \in Spawners |-> "idle"]
  /\ request  = [s \in Spawners |-> NoRequest]
  /\ mine     = [s \in Spawners |-> None]
  /\ ended   = [s \in Spawners |-> "none"]
  /\ reported = [s \in Spawners |-> None]
  /\ made = [id \in Ids |-> None]
  /\ started = {} /\ reclaimed = {}
  /\ refusals = 0 /\ moves = 0

Go(s, step) == phase' = [phase EXCEPT ![s] = step]

EndSpawn(s, how) ==
  /\ Go(s, "idle")
  /\ ended'  = [ended EXCEPT ![s] = how]
  /\ request' = [request EXCEPT ![s] = NoRequest]

\* run_spawn(): a wrong argument is a usage error; a stamped request goes on.
Validate(s) ==
  /\ phase[s] = "idle" /\ ended[s] = "none"
  /\ \E a \in Shapes :
       IF a.valid
       THEN \E name \in (IF a.named THEN Names ELSE {None}),
               owner \in (IF a.owned THEN Owners ELSE {None}) :
              /\ request' = [request EXCEPT ![s] = [owner |-> owner, name |-> name]]
              /\ Go(s, "image")
              /\ UNCHANGED ended
       ELSE EndSpawn(s, "usage")
  /\ UNCHANGED <<cfg, image, containers, mine, reported, spawnHistory, refusals, moves>>

\* A request the engine refuses, does not receive, or answers in vain.
Refuses == refusals < MaxRefusals /\ refusals' = refusals + 1

\* inspect_image(): only a 404 means that the image is absent.
InspectImage(s) ==
  /\ phase[s] = "image"
  /\ \/ /\ image /\ Go(s, "create")
        /\ UNCHANGED <<request, ended, refusals>>
     \/ /\ ~image /\ EndSpawn(s, "usage")
        /\ UNCHANGED refusals
     \/ Refuses /\ EndSpawn(s, "docker")
  /\ UNCHANGED <<cfg, image, containers, mine, reported, spawnHistory, moves>>

\* The engine creates the container, labels and all.
Creates(s, id) ==
  /\ id \in Unused
  /\ image /\ ~NameTaken(request[s])
  /\ containers' = [containers EXCEPT ![id] = NewContainer(request[s], id)]
  /\ made' = [made EXCEPT ![id] = s]

\* create_container(): a missing image and a name in use are Docker errors too.
Create(s) ==
  /\ phase[s] = "create"
  /\ \/ \E id \in Ids :
          /\ Creates(s, id)
          /\ \/ /\ mine' = [mine EXCEPT ![s] = id]
                /\ Go(s, "start")
                /\ UNCHANGED <<request, ended, refusals>>
             \/ Refuses /\ EndSpawn(s, "docker") /\ UNCHANGED mine
     \/ /\ ~image \/ NameTaken(request[s])
        /\ EndSpawn(s, "docker")
        /\ UNCHANGED <<containers, made, mine, refusals>>
     \/ Refuses /\ EndSpawn(s, "docker") /\ UNCHANGED <<containers, made, mine>>
  /\ UNCHANGED <<cfg, image, reported, started, reclaimed, moves>>

\* Mutant: the answer to the start request is not looked at.
StartUnasked(s) ==
  /\ phase[s] = "start"
  /\ \/ /\ containers[mine[s]] # None
        /\ containers' = Started(mine[s])
        /\ started' = started \cup {mine[s]}
        /\ UNCHANGED refusals
     \/ Refuses /\ UNCHANGED <<containers, started>>
  /\ Go(s, "name")
  /\ UNCHANGED <<cfg, image, request, mine, ended, reported, made, reclaimed, moves>>

\* start_container(): a container that cannot be started stays as it is.
StartContainer(s) ==
  /\ phase[s] = "start"
  /\ \/ /\ containers[mine[s]] # None
        /\ containers' = IF containers[mine[s]].state = "running" THEN containers ELSE Started(mine[s])
        /\ started' = started \cup {mine[s]}
        /\ \/ Go(s, "name") /\ UNCHANGED <<request, ended, refusals>>
           \/ Refuses /\ EndSpawn(s, "docker")
     \/ /\ containers[mine[s]] = None
        /\ EndSpawn(s, "docker")
        /\ UNCHANGED <<containers, started, refusals>>
     \/ Refuses /\ EndSpawn(s, "docker") /\ UNCHANGED <<containers, started>>
  /\ UNCHANGED <<cfg, image, mine, reported, made, reclaimed, moves>>

\* inspect_container(): the name the engine settled on, or else the id.
Report(s) ==
  /\ phase[s] = "name"
  /\ \/ /\ containers[mine[s]] # None
        /\ reported' = [reported EXCEPT ![s] = containers[mine[s]].name]
        /\ UNCHANGED refusals
     \/ /\ reported' = [reported EXCEPT ![s] = mine[s]]
        /\ IF containers[mine[s]] = None THEN UNCHANGED refusals ELSE Refuses
  /\ EndSpawn(s, "success")
  /\ UNCHANGED <<cfg, image, containers, mine, spawnHistory, moves>>

\* The command is killed.
CrashSpawn(s) ==
  /\ phase[s] # "idle"
  /\ Refuses
  /\ EndSpawn(s, "crashed")
  /\ UNCHANGED <<cfg, image, containers, mine, reported, spawnHistory, moves>>

-----------------------------------------------------------------------------
(* Cleaners *)

\* Mutant: a container that was never started counts as stopped.
ResourceStateLoose(state) ==
  CASE state \in {"running", "paused", "restarting"} -> "running"
    [] state \in {"created", "exited", "dead"} -> "stopped"
    [] OTHER -> "other"

ResourceState(state) ==
  CASE state \in {"running", "paused", "restarting"} -> "running"
    [] state \in {"exited", "dead"} -> "stopped"
    [] OTHER -> "other"

\* Mutant: the time a container has been stopped is not read.
StateSnapshotRunning(id) ==
  [state |-> ResourceState(containers[id].state),
   since |-> IF ResourceState(containers[id].state) = "running"
             THEN MaxAge - containers[id].age ELSE None]

\* state_snapshot(): when the present state began, for the states that count.
StateSnapshot(id) ==
  [state |-> ResourceState(containers[id].state),
   since |-> IF ResourceState(containers[id].state) \in {"running", "stopped"}
             THEN MaxAge - containers[id].age ELSE None]

Item(id) ==
  [kind |-> "container", id |-> id, name |-> containers[id].name,
   names |-> {id, containers[id].name}, labels |-> containers[id].body.labels,
   state |-> StateSnapshot(id).state, since |-> StateSnapshot(id).since,
   referenced |-> FALSE, system |-> FALSE]

\* A pass removes what the policy names.
Reclaim(id) ==
  /\ containers[id] # None
  /\ Decide(cfg, Item(id), MaxAge, {}, {}, {}).action = "remove"
  /\ containers' = [containers EXCEPT ![id] = None]
  /\ reclaimed'  = reclaimed \cup {id}
  /\ UNCHANGED <<cfg, image, requestVars, made, started, refusals, moves>>

Tick ==
  /\ \E id \in Ids : containers[id] # None /\ containers[id].age < MaxAge
  /\ containers' = [id \in Ids |->
       IF containers[id] # None /\ containers[id].age < MaxAge
       THEN [containers[id] EXCEPT !.age = @ + 1] ELSE containers[id]]
  /\ UNCHANGED <<cfg, image, requestVars, spawnHistory, refusals, moves>>

-----------------------------------------------------------------------------
(* Users, and programs that end *)

Moves == moves < MaxMoves /\ moves' = moves + 1

UserStarts(id) ==
  /\ Moves
  /\ containers[id] # None /\ containers[id].state \in {"created", "exited"}
  /\ containers' = Started(id)
  /\ started' = started \cup {id}
  /\ UNCHANGED <<cfg, image, requestVars, made, reclaimed, refusals>>

\* A paused container keeps the time it was started at.
Pauses(id) ==
  /\ Moves
  /\ containers[id] # None /\ containers[id].state \in {"running", "paused"}
  /\ containers' = [containers EXCEPT ![id].state = IF @ = "paused" THEN "running" ELSE "paused"]
  /\ UNCHANGED <<cfg, image, requestVars, spawnHistory, refusals>>

UserRemoves(id) ==
  /\ Moves
  /\ containers[id] # None
  /\ containers' = [containers EXCEPT ![id] = None]
  /\ UNCHANGED <<cfg, image, requestVars, spawnHistory, refusals>>

\* The image is pulled or removed.
ImageMoves ==
  /\ Moves
  /\ image' = ~image
  /\ UNCHANGED <<cfg, containers, requestVars, spawnHistory, refusals>>

\* The program in the container ends by itself, or is stopped.
Exits(id) ==
  /\ containers[id] # None /\ containers[id].state = "running"
  /\ containers' = Exited(id)
  /\ UNCHANGED <<cfg, image, requestVars, spawnHistory, refusals, moves>>

SpawnNext ==
  \/ \E s \in Spawners :
       \/ Validate(s) \/ InspectImage(s) \/ Create(s) \/ StartContainer(s) \/ Report(s) \/ CrashSpawn(s)
  \/ \E id \in Ids :
       \/ Reclaim(id) \/ UserStarts(id) \/ Pauses(id) \/ UserRemoves(id) \/ Exits(id)
  \/ Tick \/ ImageMoves

SpawnSpec == SpawnInit /\ [][SpawnNext]_spawnVars

-----------------------------------------------------------------------------
(* Properties *)

\* No cleaner takes a sandbox between its creation and its start, whatever the
\* rules say: what was reclaimed had been started.  The other side of it is
\* that a sandbox whose start failed is reclaimed by no rule.
SparedUntilStarted == reclaimed \subseteq started

\* The exit code tells what is there: after a usage error the engine has
\* created nothing for the command, after a success the one container it
\* reports, which has been started and carries labels that the survey knows.
ReportsWhatExists ==
  \A s \in Spawners :
    LET own == {id \in Ids : made[id] = s}
    IN  /\ ended[s] = "usage" => own = {}
        /\ ended[s] = "success" =>
             /\ own = {mine[s]} /\ own \subseteq started
             /\ containers[mine[s]] # None =>
                  /\ reported[s] \in {mine[s], containers[mine[s]].name}
                  /\ \E l \in containers[mine[s]].body.labels : IsKnown(l[1])

\* "An exited sandbox is still there to be inventoried, which is what lets a
\* rule adopt and later reclaim it" (README.md:529): whatever happened to it on
\* the way, one that has been stopped for longer than the rules allow is due,
\* if a rule adopts the managed label.
ExitedIsDue ==
  (\E r \in ToSet(cfg.rules["container"]) : <<managed_key, "true">> \in r.select.labels) =>
    \A id \in Ids :
      containers[id] # None /\ containers[id].state = "exited" /\ containers[id].age = MaxAge =>
        Decide(cfg, Item(id), MaxAge, {}, {}, {}).action = "remove"

=============================================================================
