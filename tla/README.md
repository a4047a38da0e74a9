# docker_maid in TLA+

A specification of docker_maid, a cleaner of containers, images, volumes,
networks and build-cache records, made from the source under `src/src/`. TLC
checks small instances; TLAPS proves what matters most for instances of every
size. `PROJECT.json` says which lines each definition stands for.

## The system

docker_maid is a family of short-lived processes and one daemon that share a
Docker Engine, a configuration file and a state directory. Nothing is
coordinated by a server: three advisory file locks and the engine's own
refusals are all there is. What is hard about it is therefore what happens
*between* the steps of one process.

| component | state | operations | talks to |
|---|---|---|---|
| policy engine, `plan.rs` | none | `build_plan_with_context`: one decision per inventory item | called by every pass, twice |
| protection store, `state.rs` | `protection.toml`, `protection.lock` | `add`, `remove`, `snapshot`, `locked_snapshot` | editors (CLI, TUI) and executors |
| executor, `executor.rs` | the report of the pass | `execute_plan`: guard, reload, rebuild, delete, for each target | engine, store, configuration |
| inventory, `inventory.rs` | none | several list and inspect requests, joined in memory | engine |
| observation record, `observation.rs` | `observation.toml`, `observation.lock` | `record`, `snapshot` | every pass |
| activity journal, `activity.rs` | `activity.jsonl`, `activity.1.jsonl`, `activity.lock` | `start_pass`, `finish`, `completed_passes`, rotation | applied passes, `status`, TUI |
| daemon, `main.rs`, `wakeup.rs` | counters, permit, deadlines, signals | `run_daemon`, `listen_event_streams`, `next_wake` | engine events, signals |
| cleanup commands, `main.rs` | none | `prepare_cleanup`, `apply_cleanup`, `run_status` | all of the above |
| configuration, `config.rs`, `plan.rs` | the files and the environment | `resolve_config_path`, `load_config`, `validate`, `CompiledPolicy::compile` | everybody |
| configurator, `configurator.rs` | file, lock, backup | survey, propose, `write_proposal` | CLI, TUI |
| terminal interface, `tui.rs` | snapshot, proposal, views | review, confirm, apply, protect, save | all of the above |
| skill installation, `agent_skill.rs` | the `SKILL.md` files | `install_skills`: check all, then check and write each | file system |
| spawn, `spawn.rs`, `stamp.rs`, `labels.rs` | one stamped container | inspect the image, create, start, ask for the name | engine |
| machine output, `machine.rs`, `main.rs` | stdout, stderr, the exit code | documents, daemon events, error diagnostics | callers |

What makes each correct, and where it is hard:

- **Protection store.** An update is one indivisible change of the contents in
  force, none is lost, and none slips in between a cleaner's decision and its
  delete. Hard because the cleaner's decision takes several requests.
- **Executor.** It removes what the plan named and what is still authorized
  when the request is made, handles every target whatever happens to the
  others, and its report is true. Hard because the engine, the configuration
  and the protections change at every step, answers get lost, several cleaners
  overlap and the process can die.
- **Policy, cache rule.** Protection wins over every rule; an age floor is met
  by a known age only; a byte budget evicts the oldest and no more than needed.
  Hard because the plan is rebuilt after each removal and the order of removals
  is not the order of the budget.
- **Observation record.** A removal needs an observation a whole floor earlier,
  of the same incarnation. Hard because the lists are old when they are folded.
- **Journal.** What readers see is a gapless tail, and a completed pass has all
  its actions. Hard because of interleaved passes, two files and broken writes.
- **Configuration write.** A file replaces exactly the source it was reviewed
  against and leaves that source in the backup. Hard because the comparison, the
  copy and the rename are separate, and people edit without the lock.
- **Terminal session.** What is applied or saved is what was shown. Hard because
  timer, keys and the results of awaits change the inputs of a plan or a
  proposal in any order, while other processes change their sources.
- **Configuration.** What is accepted makes a plan, nothing is claimed by
  accident, and no file is passed over for another. Hard because two functions
  read each text and two work out each path, and the files change in between.
- **Skill installation.** A refusal touches nothing, a hand-made text stays, a
  success is complete. Hard because check and write are separate, files are
  truncated in place, and there is no lock.
- **Spawn.** The report is true, and the policy can tell a sandbox that has not
  started from one that has ended. Hard because create and start are two
  requests that both can fail or lose their answer.
- **Commands.** The exit code and the events say what happened. Hard because
  every step may fail, and so may saying so.
- **Daemon.** No event is lost between two passes, no wake-up is lost, floods
  postpone nothing, signals are honoured. Hard because ticks are counted, notified, taken and
  added up in separate steps.

`hazards` in `PROJECT.json` lists where each of these bites, line by line, with
the properties that watch it.

## The modules

| module | what it is | composes |
|---|---|---|
| `AtomicProtection` | what the protection file promises: whole updates, none under a guard | |
| `ProtectionStore` | the file and its lock, editors and readers | refines `AtomicProtection` |
| `Policy` | operators: ages, folding, selection, protection, cache rule, plan | |
| `DeletionContract` | what applying a plan promises: no grant against the snapshot, each used once, never against a protection | |
| `Executor` | cleaners, editors, engine, configuration | `ProtectionStore`, `Policy`; refines `AtomicProtection` and `DeletionContract` |
| `CachePass` | one pass over a build-cache graph | `Policy` |
| `Observation` | overlapping recorders of one volume | `Policy` |
| `Journal` | appends, rotation, readers | |
| `Daemon` | listener, inbox, wait, signals | |
| `ConfigWrite` | the configuration file, its lock and backup, several writers, editing by hand | |
| `TuiSession` | one terminal session and the world around it; what a proposal contains | `ConfigWrite`, `Policy` |
| `Configuration` | search, validation, compilation, setups and edits by others | `Policy` |
| `SkillInstall` | installers and editors on one skills directory | |
| `Spawn` | spawners, cleaners, users and the engine | `Policy` |
| `CommandReport` | steps, failures, output and exit code of each command and of the daemon | |
| `MC...` | instances for TLC; `MCCommands` has the last four, one scene each | |
| `...Proofs` | theorems | |

### Protection store

`update()` is two steps, `BeginUpdate` (lock, read, compute) and `CommitUpdate`
(rename, unlock) or `AbandonUpdate` (the write failed, or the process died).
`Unreadable` is a file that `read_state` refuses, for instance one that a newer
release rewrote; such a file is never written and never read for a decision.
`shared` and `exclusive` are the two modes of `flock`.

### Executor

One cleaner's program counter follows `execute_plan`:

    idle -LoadConfig-> loaded -ReadProtection-> snapped
      -InspectContainers-> surveyed -ReadBuildCache-> collected -Prepare-> next
    next -LockTarget-> guarded -ReloadConfig-> listing
      -InspectContainers-> inspected -ReadBuildCache-> listed
      -Revalidate-> deleting -EngineAnswers-> next ... -FinishPass-> done

The first half is `prepare_cleanup`, and the terminal's refresh does the same:
the configuration, then a snapshot of the protection file whose lock is dropped
at once, then an inventory that is awaited with no lock held. An entry added
while it is awaited is not in the plan: the plan may name what the file protects
by then, and only the guard of the second half spares it. `PlanningFails` ends
the command anywhere in the first half. Lists of one inventory are steps of
their own (`ListContainers`, `ListOthers`, in any order), so that they need not
agree with each other, in planning as in revalidation.

Each await is a step boundary: the reload, each list, the inspection, the cache
records, and each single HTTP request of a deletion (an image takes one for
every name, in the order of the names: `FirstRefs`). Any of them may end the target with `Settle`, which records the
outcome, drops the guard and takes the target off the queue. `AbortPass` is the
`?` after `locked_snapshot()`: the whole report is lost. `LoseAnswer` is a
request whose answer never comes; the request stays in `stray` and may take
effect at any later time, or never. `Crash` is the death of the process.

The plan is the set of removals; `Orders` are the sequences the sort in
`ordered_removal_targets` may produce. `Revalidated` rebuilds the whole plan
with `BuildPlan` from the second inventory, the cleaner's guard and the
observations of the *first* plan, as the code does. The engine is external:
`Effects` gives the answers it may give to one request, with its reference
check, 404, 409, the id-filtered prune and a prune that ignores the filter.
`EngineChanges` is every other client of it.

Strings are abstracted to members of small sets: a glob or an expression is the
set of names it matches. An item has the fields that decisions read.

### Cache pass

`Executor` has at most a parent and a child; `CachePass` has the graph. It
follows `cache_depth` with its memo and its visiting set (cycles count as 0),
roots in any order, because the code iterates over a hash map. `CacheDepths` is
a tower of functions, one for each level of nested calls, since the theorems
cannot use a RECURSIVE operator; a call visits one record more than its caller,
so that there are no more levels than records. `Descendants` is the least set
that is closed under children. The rebuilt plan and the engine's refusal of
parents act on each other here.

### Observation record

A pass lists, notes the time, folds under the lock and commits. One volume is
enough because entries never interact. The history variables `sightings` and
`attachments` say what passes saw, independently of the record, so that
`FloorObserved` compares a removal with what happened and not with the entry.

### Journal

A line is an event or `Garbage`. `serde_json::to_writer` writes straight to the
file, so an append is at least three steps (`BeginAppend`, `WriteEvent`,
`EndLine`) and rotation two more. `BreakOff` ends it anywhere. Lines have
lengths so that both limits matter; an action is longer than a start. `log` is
history, every line that was finished in its order, and the properties compare
with it what `Events` and `Completed` make of the two files.

### Daemon

Time is counted in ticks of the deadlines. `CountEvent` and `Notice` are the
two halves of `record_event`; `Decide` is the top of the loop in `next_wake`,
which looks at the interval first and the debounce second. The pass is reduced
to the moment it begins the inventory it gets (`TakeInventory`), because that is
what covers an event, or to its failure before it has one (`PassFails`: the
configuration, the protection file or the engine). A failing pass covers nothing,
and what the wait before it had taken is gone, as in `run_daemon`, which keeps the
counts of a wake for one announcement. `unseen` and `late` are history that
keeps the two apart: after an inventory only what came after its beginning is
unseen, after a failure only what came after the waking.

### Configuration write

`write_proposal` and `durable_write` become `BeginWrite` (the comparison before
any lock), `LockAndCompare` (`flock` and the comparison under it), `StartCopy`
and `FinishCopy` (the backup is torn in between), `Replace` (the rename) and
`FinishWrite`. `BreakWrite` is an error or the death of the writer at any of
them; after the rename the caller hears of a failure although the file is new.
`HandEdit` saves or removes the file without the lock. A proposal is the
contents it was made from, the contents it writes and the inventory it was
shown with; equal hashes are equal contents. `raced` is history: somebody
edited by hand while the lock was held.

### Terminal session

`run_event_loop` handles one key, timer or signal at a time and waits for the
handler, so `phase` says which await the handler stands at:

    idle -timer, r-> refresh -ReadFiles-> collect -InstallSnapshot-> idle
    idle -OpenConfirmation, ConfirmApply-> execute -ExecutePlan-> refresh ...
    idle -PressProtect, PressFamily-> protect -UpdateEntries-> refresh ...
    idle -PressSave, ConfirmSave-> save -BeginSave-> write -SessionWrites-> refresh ...

`resume` remembers what a refresh was started by, because its failure is treated
differently: stale for timer and key, a message after a save, the end of the
session after an apply or a protection change. `Quits` is that end, and
`Leaves` the end for any other reason, also in the middle of a write.

A configuration is its hand-written part (rules, cache rule, protected names)
and the generated rules of its marked region. `Parsed` is what `Policy` gets from
it, `Proposed` is `propose_configuration` with its refusals, `SurveyOf` is the
survey. Containers and the build cache are enough for both the label and the
prefix candidates and for the one candidate without ownership. Editors of text
are left out: the cursor may be on any row, a prefix or policy value arrives as a
whole, and the help stands for the activity log, which behaves alike. Listing
the engine and reading the file at the start of a save are one step.
`ExecutePlan` uses what `DeletionContract` promises of a pass instead of the
steps of `Executor`; the update of the protection file is one step because
`ProtectionStore` implements `AtomicProtection`.

### Configuration

A command's `pc` follows `load_selected_config`: `LookLocal` and `LookHome` are
the two probes of the search, `Read` the read with the parse, `Check` is
`validate()`, `Plan` compiles and decides; a setup (a `config` command or the
terminal interface) goes on to `Save` or `Leave` instead. Between any two of them
`Edit` puts another file, or none, in any place. `Valid` and `Compiles` are written after the
two functions that read the same texts, rule kind by rule kind; `Compile` gives
the policy that `Policy` decides with. A text is a member of `Texts`; what it
matches and whether it is blank or malformed are constants. `steady` and `saved`
are history: what nobody has touched, and where a setup has written.

### Skill installation

    idle -StartInstall-> check -CheckSkill-> recheck -Recheck-> open -Open-> fill
      -Fill-> recheck ... -Fill-> idle

`CheckSkill` is the pass over the whole selection, `Recheck` the check that
`install_skill` makes again, `Open` and `Fill` are the two halves of `fs::write`,
which truncates before it writes. `WriteFails` and `CrashInstall` end it at any
of them. `Filled` is what a write leaves in a file that somebody else has
changed after it was opened. A file that cannot be read, because it is missing or
is no UTF-8, counts as missing, as in the code.

### Spawn

`Validate`, `InspectImage`, `Create`, `StartContainer` and `Report` follow
`spawn`; each request may be refused, or handled with its answer lost
(`Refuses`), and the process may die. `ContainerBody`, `Stamp` and `VOCABULARY`
give the labels that `Policy` sees; `StateSnapshot` is the part of the inventory
that turns Docker's states into "running", "stopped" and "other". `Reclaim` is a
pass that takes what `Decide` says; its steps are `Executor`'s subject.

### Reports

A command is a list of steps with the errors each may end with; `Succeed` and
`Fail` take the first one. There is a list for every subcommand; those that only
print (`labels`, `config default`, `stamp`) are one, `config check` and `config
print` another. The terminal has its session behind the first steps: `Interact`
puts the steps of a key or of the timer before it (`SessionWork`: a refresh, a
save, a protection change, a prefix, the confirmed plan), as often as one likes.
An error of a refresh by timer or key or of a save becomes the status line
(`ShowError`), any other one ends the session with its code, as the `?` in
`handle_main_key` and `apply_confirmed_plan` do; so a session that has removed,
saved and protected may end with 0, 3, 5, 6 or 7. What a step has done is reduced to the stores it may
have changed, a document to its pass and its numbers. `Write` is
`write_payload`, which ends the command when stdout is closed or full,
`EndReport` gives the exit code of `RunOutcome`, and the daemon's loop is
`BeginPass`, the steps of a pass, `PassResult` and `Wake`.

## What the runs check

| run | instance | what it shows |
|---|---|---|
| `executor` | two scenes, kept apart by a constraint: 1 cleaner, 1 editor, a container holding a volume (or its namesake), an upgrade, lost answers, crashes; and an image with two names, a network, two cache records, an engine that fails or prunes too much | guard, requests, report and plan stay consistent, and what else was removed makes the pass fail |
| `executor_pair` | 2 cleaners, 2 editors, fair | both refinements, every pass ends, every guard is given back |
| `executor_lost` | 1 cleaner, lost answers | **violated**: a protection completed after a lost answer does not stop the delete |
| `cache` | all graphs of three records that matter, cyclic ones too, 3 rules | children first, no eviction beyond the budget, the budget met unless refused |
| `observation` | 2 recorders, 2 passes each, 2 s | no removal before the floor, clocks carried over unchanged |
| `observation_stale` | the same | **violated**: a stalled pass puts back a cleared clock |
| `journal` | 2 processes, 2 passes each, 4 lines or 5 bytes, one broken append | gapless tail, whole completed passes |
| `journal_torn` | the same without rotation | **violated**: a start event is swallowed by an unfinished line |
| `daemon` | interval 3, debounce 1, backoff 2, counters to 2, fair | no event lost between two passes, no lost wake-up, no starvation, termination |
| `tui` | a session, one `config write`, one change by others, two keys; fair | what is applied and saved is what was shown, no write loses another, selection and build cache stay authorized, every handler ends |
| `tui_toggle` | the same | **violated**: the key that releases a row removes nothing when a label entry covers it |
| `commands` | four scenes that share no variable: 2 installers, 2 skills and an edit; 2 spawners, 2 ids, 2 policies, one refusal or lost answer; 2 commands, every configuration with one defect and all mixtures of files in four places, one edit; every subcommand, with terminal sessions of any length, and a daemon with two passes, with failures and a broken stdout | refusals touch nothing, hand-made texts stay, success is complete; nothing unstarted is reclaimed, what exited is due, the report is true; what is accepted compiles, claims only what it names, is not passed over and is found again; exit codes and events tell what happened |

The violated runs state what a document or a comment of the repository says;
`findings` quotes the line. Every property of a passing run has a mutant in
`mutants`: a plausible bug in one definition under which TLC finds it violated.

### Bounds, and why they suffice

- *Two cleaners, two editors*: the conflicts are between a reader and a writer
  or between two of a kind; the lock treats all others alike. The proofs have
  no such bound.
- *Two objects per plan* (four in the second scene of `executor`): the loop needs a target
  before and a target after the one that fails.
- *One second of time, floors of one or less*: an age is below or above its
  floor; more seconds repeat these cases.
- *Three cache records*: the smallest graph with a chain, a fork and a cycle
  with something outside of it.
- *Two passes of two recorders*: one that stalls, one that overtakes it, and
  one that relies on the result.
- *Journal limits of a few lines*: less than two passes write, so that a pass is
  cut at each place and rotation happens several times.
- *`MaxTicks` 2*: counters only tell none from some; capping is not in the code.
- *`MaxChanges` 1, `MaxKeys` 2*: `MaxChanges` bounds what other processes do
  during a session; `MaxKeys` bounds the keys that change more than the screen
  (selection, policy, prefix, protection, the start of a save). Two keys make a
  proposal and save it, or make it and outdate it; the change lands between any
  two of the steps. Timers, previews, views and modals are not bounded.
- *`CommandIds`*, two containers of one Compose project and a cache record: a
  label candidate with a member that may leave, a prefix candidate that overlaps
  it, the build cache, and a command that proposes the project. A hand-written
  file has a rule that shadows the project's, another does not load.

- *Two skills, two installs, one edit*: a skill before and after the one that
  fails, and one actor who changes it between any two steps. The symmetry of
  installers, spawners and ids is used; none of them appears in a property by name.
- *Two spawners, two ids, two moves, one refusal*: a conflict of names, a lost
  answer, and a container that is paused or started again on its way.
- *Configurations with one defect each*: `Valid` is a conjunction over rules and
  texts, so that a defect cannot hide another; pairs of rules are there for what
  relates two of them (ids, the order of rules).
- *Two commands, one edit*: a setup and the command after it, and one change at
  any of their steps. *Two passes*: one that fails and one that follows.

`CHECK_DEADLOCK FALSE` is set everywhere, since all passes may be over and the
bounds used up, and a stopped daemon does nothing.

### Fairness

- A cleaner's next step is weakly fair: after each await it runs on, since
  requests end with an answer or an error. Taking the shared lock is *strongly*
  fair, since editors may come and go in between; `flock` wakes waiters each
  time. An editor's commit or failure is weakly fair. Editors, other clients of
  the engine, clocks and crashes are not fair.
- In `Daemon` the runtime polls ready tasks, time goes on and a pass ends;
  receiving a termination signal is strongly fair because `tokio::select!`
  polls its branches in random order, so that a signal that stays ready is not
  passed over for ever. The engine and the listener's stream are not fair.
- In `TuiSession` each call of a handler returns, by success or by the failure
  its action has (`WF(HandlerStep)`). Waiting for the file lock is strongly fair
  (`SF(SessionWrites)`), since commands may come and go, and a command's own
  steps are weakly fair. That a write *fails* is not promised: `HandlerEnds`
  holds because the lock is given back. Keys, timers, signals and the rest of
  the world are not fair.

## What is proved

TLAPS checks these for all values of the constants, with the named assumptions
of the modules only. TLC evaluates each of them on the instances:

- processes, ids and model values for "none" are distinct from each other and
  from data, durations and bounds are positive numbers, and an unreadable line of
  the journal is no event (`JournalAssumption`);
- an item has the kind its id stands for, is not "none", and the tags of images
  are ordered, as strings are (`ObjectAssumption`);
- a cache is a finite set of cache items, no two of which have the same id, a
  cache rule is a record of that type (`CachePassAssumption`), and ids are
  ordered, as strings are (`RankAssumption`);
- one line fits into the journal (`LineAssumption`: a line against `MAX_BYTES`,
  five MiB), no word of the label vocabulary is "none" (`VocabularyAssumption`),
  and the id of the build-cache candidate is not that of a prefix
  (`CandidateAssumption`: `build-cache` against `name-prefix/...`,
  `configurator.rs:462`).

No property of a passing run but the five liveness properties is left without a
theorem. Where a theorem has a condition besides, it is named below.

**Protection store and executor** (`ExecutorProofs`)

- `StoreInvariant`, `StoreImplementsAtomic`. The refinement needs `StoreInv`:
  while an editor holds the lock nobody reads, and *its draft is made of the
  contents still in the file*. Without the last part a commit could be any
  change of the contents. `BeginUpdate` maps to a stutter, `CommitUpdate` to the
  atomic update.
- `ExecutorUsesStore`, `ExecutorImplementsAtomic`. Every step of every action of
  `Executor` is a step of the store or leaves it alone, so the store's theorem
  carries over to cleaners that crash and lose answers.
- `GuardAlwaysCovers`. The invariant `GuardInv` adds `StoreInv` to
  `GuardCoversDelete`: that no editor begins under a guard is the store's
  business, that the guard is held exactly while `pc` is busy the executor's.
- `RequestsNeverProtected`. `RequestInv` adds to `GuardInv` that a cleaner
  with a request is busy and that the request's item is not protected *by the
  entries of its guard* nor by the configuration of its plan. The lemma
  `DecideSparesProtected` says this of every removal in a plan, whatever the
  rules, ages and byte budgets; `GuardCoversDelete` turns the guard into the
  file.

**The deletion contract** (`ExecutorProofs`)

- `TargetsAlwaysAccounted`, without any further condition. `TargetInv` says of a
  pass that its queue lists no id twice and none that has an outcome, and that
  queue and outcomes together are the plan. `EngineInv` carries what that needs
  from the engine: an inventory has at most one item for an id.
- `ReportsTruthful`, for any lost answers and any engine, under `NoRetagging`:
  no other client brings an image with names into the engine. An image is gone
  when its last name is; the cleaner takes the names from its own inventory
  (`executor.rs:430`), and what it reports is true as long as no name is moved
  meanwhile. `ReportInv` says so of the answers a cleaner has seen, of the names
  it still has to ask for, and of the outcomes. `executor_pair` satisfies it.
- `RemovalsAreReported`, under `NoRetagging` alone, for any number of cleaners
  that take the names of one image between them. `RemovalInv` says that an image
  loses its names in the order in which every cleaner asks for them
  (`inventory.rs:425`), so that whoever has taken the last one has no other to
  ask for and is told that the image is gone. A lost answer is a failed target;
  a prune that took too much is the failure of a build-cache target.
- `ExecutorImplementsContract` and `NeverRemovesProtected`, under `Undisturbed`:
  answers arrive, a prune takes what it was asked to, and `NoRetagging`. These are
  the conditions of `executor_pair`, and each one is needed: `executor_lost` shows
  what a request does that is still on its way when the guard is gone, an engine
  that prunes too much removes what nobody granted (that such a pass does not
  call itself a success is `RemovalsAreReported`), and for names that move see
  above. `ContractInv` adds to `ReportInv` and `RequestInv`
  that no request is stray, that a request is of the kind its target has, and
  that a queued target has not been removed by this cleaner already, so that a
  grant is what is queued and not removed (`Grants`). A removal then maps to the
  use of a grant, everything else to planning, giving up or a stutter. What a
  plan must not grant is fixed when it takes its snapshot (`Spared`: the ids that
  entries name at that moment, in use or not), and not when its inventory is in:
  `TakesSnapshot` maps `ReadProtection` to that, and `TakesGrants` says that a plan
  built with these entries names none of the ids, whatever came into the engine
  and into the file while the inventory was awaited.

**Cache pass** (`CacheProofs`)

- `CacheNoOverEviction`. `Justified` says of a target that is about to be pruned
  that it is past the age floor, which it stays, or that the cache is over the
  budget, which only this pass could change. Underneath are lemmas about sums of
  sizes (`BytesPart`, `BytesTakes`), each proved on a smallest counterexample.
- `CacheMeetsBudget`. Targets go children first, the budget takes the oldest
  first, and each removal makes the plan anew; that the pass ends within the
  budget is therefore not obvious. `WithinBudget`: a candidate that is *not*
  queued, while all older ones are, leaves the cache within the budget once those
  are gone. It holds when the plan is made, because a record past the floor is
  older than any candidate that is not; a removal takes as much from the cache
  as from the older ones; a skip is a target that the rebuilt plan spares. At the
  end nothing is queued, and the oldest candidate says it of the whole cache. The
  lemma `InventoryLeaves` is what lets a removal change nothing for the others:
  a leaf in nobody's use makes nobody idle.
- `CacheChildFirst`, for every graph, cyclic or not, and every order of the roots.
  `Measured` says of a memo that a record with a depth is deeper than the parents
  it is built on, unless they reach it again. A call keeps it (`LevelRight`, by
  induction over the levels, and `WalkRight`, over the parents of one record)
  because depths once noted stay, the records being visited have none yet and all
  lead to the current one, and calls nested n deep are right while fewer than n
  records are left to visit. Pruning leaves and builds make no cycle and break none.

**Activity journal** (`JournalProofs`)

- `JournalTypes`. The lock, the phase and the unfinished line belong together,
  and the rotated file keeps both limits (`Limited`), because `Newest` keeps them.
- `JournalKeepsEvents`. What the two files hold is a *walk* through the log: from
  a line to the next it goes forward by at most one, and it ends at the end of the
  log (`Walked`). It may go back, because a rotation that was cut short leaves lines
  in both files; it skips nothing, and `read_events` takes each event once.
  `FarBack` says how far it reaches unless a rotation was cut short, by the limits
  alone, and `NewestThere` that the end is never lost. What the readers compute is
  defined by recursive functions; `UpTo`, an induction over a set of numbers,
  takes the place of the library's theorems, whose parameter is an operator.
- `JournalPassesWhole`. `History` says in which order a pass has its events in the
  log, the one under way included (`Fits`, `TailFits`, `Going`), however passes are
  interleaved or broken off; `Chronicle` is the part of it a reader's tail inherits.
  `Completes` is what a summary makes of the events before it: a known start
  means that all actions lie between the two in the tail, and no other's are taken.

**Daemon** (`DaemonProofs`)

- `WaitInvariant`, `EventsKeptBetweenPasses`, `WakesNeverLost`.
  `WaitInv` joins the two accounting properties with the types they need:
  neither is inductive without the numbers being numbers. `LateCounted` is what
  a failing pass needs: an event that came after its waking is still in the inbox.
  Nothing is claimed of those the wait before it had taken, which are gone. The lemmas
  `AddedKeepsTicks` and `DecideKeepsTicks` carry the arithmetic.

**Observation record** (`ObservationProofs`)

- `FloorsObserved`, `ClocksCarried`. The first needs no
  lock: `ObservedInv` says that every clock in the record is backed by a
  sighting of a pass that is *over*, and that a draft has besides only clocks
  started now. A floor of a second or more cannot be met by the latter, so that
  the sighting behind a removal is another pass's; `Floor >= 1000` is an
  assumption of the theorem because `AsSecs` floors. The second one does need
  the lock: `LockInv` says that a draft is the fold of the record still there,
  and that no creation has two clocks.

**Configuration** (`FileProofs`)

- `AcceptedPlans`. `ValidCompiles` compares the two
  functions field by field; the invariant carries the accepted configuration
  from the check to the plan, whatever is edited meanwhile.
- `NothingClaimedByAccident`, from the invariant of `AcceptedPlans`: a disposition
  of "remove" or "keep" comes from the first rule that selects the item or from
  the cache rule (`FirstMatches`), a compiled rule has the selectors of an
  accepted one (`CommonKept`, `RulesAreCompiled`), and what selects an item
  names it (`SelectedIsNamed`).
- `NoFileBypassed`, `SavedConfigurationFound`. `PathInv` says which places a
  search has found empty at each of its steps, which of them nobody has touched
  since, and that the place a setup would save to is the next one that the
  search would settle for.

**Terminal session and configuration write** (`TuiSessionProofs`)

- `WriteInvariant`, `RenamesOnlyReviewed`. `WriteInv` says
  that whoever is past the locked comparison holds the lock, and that until a
  hand edit the file is the compared source and the finished copy is that
  source. The condition `~raced` is needed and not more can be shown: an edit
  saved between the comparison and the rename is lost, and one saved after the
  copy is not in the backup either. Two `docker_maid` writers cannot do that to
  each other, however many there are. `SessionReplacesReviewed` says the same of
  a session that is one of the writers.
- `SessionInvariant` and what follows from it: `ConfirmedPlanIsShown`,
  `ProposalIsCurrent`, `CacheSelectedByConsent`, `SelectionIsSurveyed`.
  `SessionInv` has four parts. `ModalInv`: a modal that decides is open only while
  no handler runs, and a plan depends on nothing that changes under it.
  `SelectionInv`: what is selected is offered, and the cache by consent.
  `SavingInv`: what a save writes is the proposal that was shown, from the first
  comparison to the last step of the writer. `WriterInvariant`: the session's job
  is touched by the session alone. The lemma `OthersStandBy` reduces all steps of
  the rest of the world to one that leaves the session alone.
- `ProtectionCoversAll`. The entries that `decided` gives cover all rows of the
  change, whatever the file holds when the update is made.

**Commands** (`CommandProofs`)

- `NeverReclaimedUnstarted`. What was never started is in the
  state "created" (`FreshUntilStarted`), and `OtherIsKept` says that no policy
  removes a container that is neither running nor stopped.
- `ExitedSandboxesAreDue`, for policies under which nothing but the time a
  container has been stopped can decide (`Prompt`): no sandbox is protected by
  its stamp or name, and each container rule has a floor for stopped ones of at most
  `MaxAge`. Both policies of `commands` are of this kind, and neither part can
  go: a first rule without a floor keeps what it selects, and so does a protection.
  The lemmas say that a sandbox keeps its stamp (`EverySandboxIsStamped`), that a rule
  is found (`SomeRuleDecides`) and that an exited one has a known age
  (`ExitedMeetsFloors`).
- `ExitCodesReportWhatExists`. `Stage` says what a command has created at each
  step and after each ending; that the labels are known to the survey is the
  lemma `ManagedIsKnown` about the vocabulary.

- `ExitCodesTellOutcomes`. What is left of a one-shot command (`OnceLeft`) has its
  report last and no early step after one that writes; with it `OnceGoing` says
  that nothing has been said before the report and nothing changed before the
  last early step, and `DaemonGoing` the same of a daemon before its loop. In the
  loop no error ends the daemon with a code of its own. Without the order of the
  steps the invariant would not be inductive: a step that refuses after one that
  writes breaks it. The terminal has no such order. What is left of it consists of
  its own words (`TuiWords`) and stays so through every key (`WorkLeft`), and none
  of them but the first two is a refusal of the invocation or of the terminal.
  `Logged` says of every command that what is left to execute comes right after
  the journal, so that nothing is removed without an entry there.
- `EventsTellPasses`. `EventGoing` counts what is on stdout *or on its way there*:
  all of it is bracketed, as many passes have begun as `pass` says, and one of
  them is unanswered exactly between `pass_started` and the result. Whatever is
  cut off when stdout breaks is the end of that (`PrefixBracketed`). The counts
  are cardinalities, and `CountOne` and `CountQuiet` say how one more event
  changes them, for any number of targets.

**Skill installation** (`FileProofs`)

- `RefusalsTouchNothing`. `Checked` says what an
  undisturbed install knows: in its first pass the skills before its place would
  not be refused, in its second all of them, but for the file it has just cut.
- `EditsAreKept`, `SuccessMeansInstalled`. `InstallInv` adds `Progress` (the
  skills before the place have the text of this build, and the status that says
  whether they had it before) and `Kept` (what it has replaced without `--force`
  was nobody's text).

Only model-checked: liveness (`PassEnds`, `LockFreed`, `WaitEnds`,
`TermLeadsToStop`, `HandlerEnds`), which needs fairness and ENABLED and is out of
this prover's reach. That the instances have enough states for these five is the
subject of the bounds above.

## Where documents and code differ

Four runs show a disagreement (`findings`). These were seen while modelling and
have no run of their own:

- `docs/schema.md:364`: "Every skill is written or none is". A write that fails
  leaves the skills before it written, as the comment at `agent_skill.rs:276`
  says; `SuccessInstalls` and `RefusalTouchesNothing` are what holds.
- `README.md:562`: "A skill you have edited yourself is kept until you pass
  `--force`". An edited file that is not UTF-8 counts as missing
  (`agent_skill.rs:227`) and is replaced; `EditsKept` is about readable texts.
- `README.md:341`: a pass "exits `2` after any skip or deletion failure". With a
  closed stdout `clean --apply` exits 0 (`main.rs:1827`); `ExitTellsOutcome`
  leaves this case out.
- The same sentence says that "successful deletions remain reported". When the
  protection file becomes unreadable in the middle of a pass, the report is lost
  (`executor.rs:180`, `AbortPass`).
- `README.md:143`: "The first observation starts the clock at zero and never
  deletes". With a floor below a second it does (`plan.rs:582`).
- `README.md:529`: "what lets a rule adopt and later reclaim it" is true of an
  exited sandbox (`ExitedIsDue`). One whose start failed stays for ever.
- `README.md:379`: "retried at the next interval". Reconnects to an engine that
  is away wake the daemon earlier (`wakeup.rs:108`), and the events that woke a
  failing pass do not wake it again; see the hazard at `main.rs:1275`.

## Not modelled

TOML syntax, the wording of errors, warnings and tables, the fields of documents
other than their numbers, the overlays `stamp` prints, parsing of arguments and of
Docker's answers: no state, or no property beyond a test. The content of a rename
(`fsync`, permissions) is taken as atomic, as the code intends. In the
configurator, candidates of images, volumes and networks and the survey's
suggestions; in the terminal interface, editors of text, filters and drawing. A
client that moves an image's name between the inventory and the delete request is
not in the instance of `Executor`. An interval that is over at once
(`main.rs:1423`) is left out of `Daemon`, which polls the signals at least once.

## Plan

1. The other kinds in the configurator, and a session composed with the steps of
   `Executor`.
2. Runs for intervals that are over at once, for a byte budget with idle parents,
   for a client that moves an image's name, and for a daemon whose engine is away.
