---------------------------- MODULE Configuration ----------------------------
(***************************************************************************)
(* How a command comes by its policy: which file it takes, what it accepts *)
(* there, and the compiled policy the plan is made with (src/src/config.rs,*)
(* the first part of src/src/plan.rs, load_selected_config and             *)
(* configurator_base of src/src/main.rs, load_tui_config of                *)
(* src/src/tui.rs), while other people create, edit and remove the files.  *)
(*                                                                         *)
(* A parsed file is a member of Config.  A text is a member of Texts: what *)
(* it matches as a glob, as an expression or as a name part is given by    *)
(* constants, and so is whether it is blank or does not compile.           *)
(* A duration is a number of milliseconds, None, or Unreadable text.       *)
(* Error messages, which list all errors, are reduced to there being one.  *)
(***************************************************************************)
EXTENDS Policy

CONSTANTS
  Missing, Folder, Locked, Garbled,   \* a place without a usable file: none, a
                                      \* directory, no permission, not this TOML
  Unparsed,     \* a text that is no duration
  Texts,        \* selector texts
  Blank,        \* the blank ones
  NoRegex,      \* those that are no expression
  NoGlob,       \* those that are no glob
  Globs, Expressions, Parts,   \* [Texts -> what the text matches]
  Configs,      \* the parsed files
  InitFiles,    \* the places as a command may find them
  EditedTo,     \* what other people leave at a place
  Proposals,    \* what a setup may propose
  Items,        \* the inventory the policy is used on
  MaxCommands, MaxEdits        \* bounds

\* docker_maid.toml where the command runs, docker_maid/config.toml under
\* XDG_CONFIG_HOME and under HOME/.config, and the path given by --config.
Places == {"local", "xdg", "home", "given"}
Owned  == Kinds \ {"build-cache"}

\* What toml::from_str makes of a file: one record for the rules of all kinds.
Durations == Nat \cup {None, Unparsed}
Selectors == [labels : SUBSET Texts, names : SUBSET Texts, parts : SUBSET Texts]
CommonRule ==
  [id : Texts \cup {None}, name : Texts, select : Selectors,
   scope : {"owned", "all"}, allow_unscoped : BOOLEAN]
ContainerRule == [common : CommonRule, stopped_ttl : Durations, running_ttl : Durations]
ImageRule ==
  [common : CommonRule, dangling : BOOLEAN, unused_for : Durations,
   image_tag_patterns : SUBSET Texts]
VolumeRule  == [common : CommonRule, orphan_for : Durations]
NetworkRule == [common : CommonRule, orphan : BOOLEAN, orphan_for : Durations]
BuildCacheRule ==
  [id : Texts \cup {None}, older_than : Durations, max_bytes : Nat \cup {None},
   allow_unscoped : BOOLEAN]
Config ==
  [interval : Durations, refresh : Durations,
   protect  : [labels : SUBSET Texts, names : SUBSET Texts],
   containers : Seq(ContainerRule), images : Seq(ImageRule),
   volumes : Seq(VolumeRule), networks : Seq(NetworkRule),
   build_cache : BuildCacheRule \cup {None}]

ASSUME ConfigurationAssumption ==
  /\ Configs \subseteq Config
  /\ Blank \subseteq Texts /\ NoRegex \subseteq Texts /\ NoGlob \subseteq Texts
  /\ {Missing, Folder, Locked, Garbled, None} \cap Configs = {}
  /\ Proposals \subseteq Configs
  /\ EditedTo \subseteq Configs \cup {Missing, Folder, Locked, Garbled}
  /\ InitFiles \subseteq [Places -> Configs \cup {Missing, Folder, Locked, Garbled}]
  /\ \A item \in Items : item.kind \in Kinds

-----------------------------------------------------------------------------
(* Config::validate *)

RegexesValid(values) == values \cap (Blank \cup NoRegex) = {}
GlobsValid(values)   == values \cap (Blank \cup NoGlob) = {}
DurationValid(value) == value \notin {0, Unparsed}

\* Mutant: name parts, which need no compilation, are not looked at.
HasBlankPatterns(select) == (select.labels \cup select.names) \cap Blank # {}

HasBlank(select) == (select.labels \cup select.names \cup select.parts) \cap Blank # {}
IsEmpty(select)  == select.labels \cup select.names \cup select.parts = {}

\* Neither half of the two keys may be turned alone.
CommonRuleValid(rule) ==
  /\ rule.name \notin Blank
  /\ ~IsEmpty(rule.select)
  /\ ~HasBlank(rule.select)
  /\ RegexesValid(rule.select.names)
  /\ GlobsValid(rule.select.labels)
  /\ rule.scope = "all" <=> rule.allow_unscoped

ContainerRuleValid(rule) ==
  /\ CommonRuleValid(rule.common)
  /\ DurationValid(rule.stopped_ttl)
  /\ DurationValid(rule.running_ttl)

\* Mutant: the tag patterns are left to the plan.
ImageRuleUnpatterned(rule) ==
  /\ CommonRuleValid(rule.common)
  /\ DurationValid(rule.unused_for)

ImageRuleValid(rule) ==
  /\ CommonRuleValid(rule.common)
  /\ GlobsValid(rule.image_tag_patterns)
  /\ DurationValid(rule.unused_for)

VolumeRuleValid(rule)  == CommonRuleValid(rule.common) /\ DurationValid(rule.orphan_for)
NetworkRuleValid(rule) == CommonRuleValid(rule.common) /\ DurationValid(rule.orphan_for)

BuildCacheValid(rule) ==
  rule # None =>
    /\ rule.allow_unscoped
    /\ DurationValid(rule.older_than)
    /\ rule.older_than # None \/ rule.max_bytes # None

\* The ids of the rules, one for each rule that has one, in the order of the file.
RuleIds(config) ==
  LET rules == config.containers \o config.images \o config.volumes \o config.networks
      given == [n \in DOMAIN rules |-> rules[n].common.id]
      cache == IF config.build_cache = None THEN <<>> ELSE <<config.build_cache.id>>
  IN  SelectSeq(given \o cache, LAMBDA id : id # None)

RuleIdsValid(config) ==
  LET ids == RuleIds(config)
  IN  \A m, n \in DOMAIN ids : ids[m] \notin Blank /\ (ids[m] = ids[n] => m = n)

Valid(config) ==
  /\ RegexesValid(config.protect.names)
  /\ GlobsValid(config.protect.labels)
  /\ DurationValid(config.interval)
  /\ DurationValid(config.refresh)
  /\ \A n \in DOMAIN config.containers : ContainerRuleValid(config.containers[n])
  /\ \A n \in DOMAIN config.images : ImageRuleValid(config.images[n])
  /\ \A n \in DOMAIN config.volumes : VolumeRuleValid(config.volumes[n])
  /\ \A n \in DOMAIN config.networks : NetworkRuleValid(config.networks[n])
  /\ BuildCacheValid(config.build_cache)
  /\ RuleIdsValid(config)

-----------------------------------------------------------------------------
(* CompiledPolicy::compile: the record Policy's decisions are made with.   *)
(* allow_unscoped does not survive it.                                     *)

GlobsCompile(values)   == values \cap NoGlob = {}
RegexesCompile(values) == values \cap NoRegex = {}
DurationParses(value)  == value # Unparsed

Matched(matches, values) == UNION {matches[v] : v \in values}

SelectorCompiles(select) == GlobsCompile(select.labels) /\ RegexesCompile(select.names)

CompileSelector(select) ==
  [labels |-> Matched(Globs, select.labels),
   names  |-> Matched(Expressions, select.names) \cup Matched(Parts, select.parts)]

\* What rules of all kinds have, and the fields of the rule's own kind.
CompileCommon(rule, own) ==
  LET common == [name |-> rule.name, scope |-> rule.scope, select |-> CompileSelector(rule.select)]
  IN  [f \in DOMAIN common \cup DOMAIN own |-> IF f \in DOMAIN common THEN common[f] ELSE own[f]]

CompileContainer(rule) ==
  CompileCommon(rule.common, [stopped_ttl |-> rule.stopped_ttl, running_ttl |-> rule.running_ttl])

CompileImage(rule) ==
  CompileCommon(rule.common,
    [dangling |-> rule.dangling, unused_for |-> rule.unused_for,
     tags |-> Matched(Globs, rule.image_tag_patterns)])

CompileVolume(rule)  == CompileCommon(rule.common, [orphan_for |-> rule.orphan_for])
CompileNetwork(rule) ==
  CompileCommon(rule.common, [orphan |-> rule.orphan, orphan_for |-> rule.orphan_for])

CompileBuildCache(rule) ==
  IF rule = None THEN None ELSE [older_than |-> rule.older_than, max_bytes |-> rule.max_bytes]

Compiles(config) ==
  /\ GlobsCompile(config.protect.labels)
  /\ RegexesCompile(config.protect.names)
  /\ \A n \in DOMAIN config.containers :
       LET rule == config.containers[n]
       IN  /\ SelectorCompiles(rule.common.select)
           /\ DurationParses(rule.stopped_ttl) /\ DurationParses(rule.running_ttl)
  /\ \A n \in DOMAIN config.images :
       LET rule == config.images[n]
       IN  /\ SelectorCompiles(rule.common.select)
           /\ DurationParses(rule.unused_for)
           /\ GlobsCompile(rule.image_tag_patterns)
  /\ \A n \in DOMAIN config.volumes :
       LET rule == config.volumes[n]
       IN  SelectorCompiles(rule.common.select) /\ DurationParses(rule.orphan_for)
  /\ \A n \in DOMAIN config.networks :
       LET rule == config.networks[n]
       IN  SelectorCompiles(rule.common.select) /\ DurationParses(rule.orphan_for)
  /\ config.build_cache # None => DurationParses(config.build_cache.older_than)

ProtectSelector(config) ==
  [labels |-> config.protect.labels, names |-> config.protect.names, parts |-> {}]

Compile(config) ==
  [protect |-> CompileSelector(ProtectSelector(config)),
   rules   |-> [k \in Owned |->
     CASE k = "container" -> [n \in DOMAIN config.containers |-> CompileContainer(config.containers[n])]
       [] k = "image"     -> [n \in DOMAIN config.images |-> CompileImage(config.images[n])]
       [] k = "volume"    -> [n \in DOMAIN config.volumes |-> CompileVolume(config.volumes[n])]
       [] k = "network"   -> [n \in DOMAIN config.networks |-> CompileNetwork(config.networks[n])]],
   cache   |-> CompileBuildCache(config.build_cache)]

-----------------------------------------------------------------------------
VARIABLES
  files,      \* [Places -> what is there]
  env,        \* which of XDG_CONFIG_HOME and HOME are set
  pc,         \* where the command is
  command,    \* the command: whether it sets up, whether it was given a path
  path,       \* the place it has resolved
  config,     \* what it has loaded
  base,       \* the source a proposal is made from, as it was read
  result,     \* how the last command ended
  saved,      \* the place of the last implicit save
  steady,     \* the places nobody has touched since the command began
  counters    \* commands and edits so far

commandVars == <<pc, command, path, config, base, result>>
configurationVars == <<files, env, commandVars, saved, steady, counters>>

NoCommand == [setup |-> FALSE, explicit |-> FALSE]

\* config_home(): XDG_CONFIG_HOME, else HOME/.config, else nothing.
ConfigHome == IF env.xdg THEN "xdg" ELSE IF env.home THEN "home" ELSE None

\* Mutant: HOME is asked first.
TargetHomeFirst ==
  IF env.home THEN "home" ELSE IF env.xdg THEN "xdg" ELSE None

\* configuration_target_path() without an explicit or a loaded path.
Target == IF env.xdg THEN "xdg" ELSE IF env.home THEN "home" ELSE None

IsFile(place) == files[place] \notin {Missing, Folder}

\* Every command ends here, with its outcome.
Ends(outcome) ==
  /\ pc' = "idle"
  /\ result' = outcome
  /\ command' = NoCommand
  /\ path' = None
  /\ config' = None
  /\ base' = None

Goes(step) == pc' = step /\ UNCHANGED <<command, result>>

Start ==
  /\ pc = "idle"
  /\ counters.commands < MaxCommands
  /\ command' \in [setup : BOOLEAN, explicit : BOOLEAN]
  /\ IF command'.explicit THEN pc' = "read" /\ path' = "given"
                          ELSE pc' = "local" /\ path' = None
  /\ result' = "none"
  /\ steady' = Places
  /\ counters' = [counters EXCEPT !.commands = @ + 1]
  /\ UNCHANGED <<files, env, config, base, saved>>

\* The two probes of resolve_config_path().
LookLocal ==
  /\ pc = "local"
  /\ IF IsFile("local") THEN Goes("read") /\ path' = "local"
                        ELSE Goes("home") /\ UNCHANGED path
  /\ UNCHANGED <<files, env, config, base, saved, steady, counters>>

\* Nothing found: a command that sets up starts from an empty configuration at
\* the place it would write, any other command fails.
StartsEmpty == command.setup /\ Target # None

LookHome ==
  /\ pc = "home"
  /\ IF ConfigHome # None /\ IsFile(ConfigHome)
     THEN Goes("read") /\ path' = ConfigHome /\ UNCHANGED <<config, base>>
     ELSE IF StartsEmpty
          THEN Goes("propose") /\ path' = Target /\ base' = Missing /\ UNCHANGED config
          ELSE Ends("not found")
  /\ UNCHANGED <<files, env, saved, steady, counters>>

\* A missing explicit file is where a setup creates one.
CreatesMissing == command.setup /\ command.explicit /\ files[path] = Missing

\* Mutant: whatever cannot be loaded counts as absent for a setup.
ReadLeniently ==
  /\ pc = "read"
  /\ IF files[path] \in Configs
     THEN config' = files[path] /\ Goes("check") /\ UNCHANGED <<path, base>>
     ELSE IF command.setup
          THEN Goes("propose") /\ base' = Missing /\ UNCHANGED <<path, config>>
          ELSE Ends("unreadable")
  /\ UNCHANGED <<files, env, saved, steady, counters>>

\* read_to_string() and Config::parse(); a file that has gone since it was found
\* is an error.
Read ==
  /\ pc = "read"
  /\ IF files[path] \in Configs
     THEN config' = files[path] /\ Goes("check") /\ UNCHANGED <<path, base>>
     ELSE IF CreatesMissing
          THEN Goes("propose") /\ base' = Missing /\ UNCHANGED <<path, config>>
          ELSE Ends("unreadable")
  /\ UNCHANGED <<files, env, saved, steady, counters>>

\* The end of load_config(): a setup keeps the source for its proposal, any
\* other command goes on to its plan.
Check ==
  /\ pc = "check"
  /\ IF ~Valid(config) THEN Ends("invalid")
     ELSE /\ Goes(IF command.setup THEN "propose" ELSE "plan")
          /\ IF command.setup THEN base' = config ELSE UNCHANGED base
          /\ UNCHANGED <<path, config>>
  /\ UNCHANGED <<files, env, saved, steady, counters>>

\* build_plan() with the compiled policy, or its PlanError.
Plan ==
  /\ pc = "plan"
  /\ Ends(IF Compiles(config) THEN "planned" ELSE "plan error")
  /\ UNCHANGED <<files, env, saved, steady, counters>>

\* A proposal replaces the source it was made from and nothing else; its result
\* has been parsed and validated.  The steps of the write are ConfigWrite's.
Save ==
  /\ pc = "propose"
  /\ \E proposal \in {c \in Proposals : Valid(c)} :
       /\ files[path] = base
       /\ files' = [files EXCEPT ![path] = proposal]
  /\ saved' = IF command.explicit THEN saved ELSE IF "local" \in steady THEN path ELSE None
  /\ Ends("saved")
  /\ UNCHANGED <<env, steady, counters>>

\* Nothing is saved: the user leaves, or the source is not the one read.
Leave ==
  /\ pc = "propose"
  /\ Ends("left")
  /\ UNCHANGED <<files, env, saved, steady, counters>>

\* Somebody else creates, edits or removes a file.
Edit(place) ==
  /\ counters.edits < MaxEdits
  /\ \E source \in EditedTo \ {files[place]} : files' = [files EXCEPT ![place] = source]
  /\ saved' = IF place \in {"local", saved} THEN None ELSE saved
  /\ steady' = steady \ {place}
  /\ counters' = [counters EXCEPT !.edits = @ + 1]
  /\ UNCHANGED <<env, commandVars>>

ConfigurationInit ==
  /\ files \in InitFiles
  /\ env \in [xdg : BOOLEAN, home : BOOLEAN]
  /\ pc = "idle"
  /\ command = NoCommand
  /\ path = None
  /\ config = None
  /\ base = None
  /\ result = "none"
  /\ saved = None
  /\ steady = Places
  /\ counters = [commands |-> 0, edits |-> 0]

ConfigurationNext ==
  \/ Start \/ LookLocal \/ LookHome \/ Read \/ Check \/ Plan \/ Save \/ Leave
  \/ \E place \in Places : Edit(place)

ConfigurationSpec == ConfigurationInit /\ [][ConfigurationNext]_configurationVars

-----------------------------------------------------------------------------
(* Properties *)

\* A configuration that load_config() has accepted makes a plan: build_plan()
\* has no error left to find, so no command and no wake of the daemon fails on
\* a selector or a duration after Docker was asked (the comment of build_plan).
LoadedCompiles == result # "plan error"

RulesOf(c, kind) ==
  CASE kind = "container" -> ToSet(c.containers)
    [] kind = "image"     -> ToSet(c.images)
    [] kind = "volume"    -> ToSet(c.volumes)
    [] kind = "network"   -> ToSet(c.networks)
    [] OTHER -> {}

\* One of the texts that say something, the blank ones aside, names the item.
Named(select, item) ==
  \/ Matched(Globs, select.labels \ Blank) \cap item.labels # {}
  \/ Matched(Expressions, select.names \ Blank) \cap item.names # {}
  \/ Matched(Parts, select.parts \ Blank) \cap item.names # {}

\* What a plan says of an item, the file says too: what is called owned is named
\* by a rule for owned resources, what is called authorized is named by a rule
\* with both keys or is build cache whose rule says so, and what is called
\* protected is named in the file.
Authored(c, item) ==
  LET said      == Decide(Compile(c), item, 0, {}, {}, {}).disposition
      claimants == {r \in RulesOf(c, item.kind) : Named(r.common.select, item)}
  IN  /\ said = "owned" => \E r \in claimants : r.common.scope = "owned"
      /\ said = "authorized-unscoped" =>
           \/ item.kind = "build-cache" /\ c.build_cache.allow_unscoped
           \/ \E r \in claimants : r.common.scope = "all" /\ r.common.allow_unscoped
      /\ said = "protected" => item.system \/ Named(ProtectSelector(c), item)

\* Nothing is claimed by accident, although matching knows neither of blank
\* texts nor of allow_unscoped: a configuration that load_config() has accepted
\* says no more of any item than somebody has written.
ClaimsAuthored ==
  pc = "plan" /\ Compiles(config) => \A item \in Items : Authored(config, item)

\* The places an implicit command asks before this one.
Before(place) == IF place = "local" \/ place = "given" THEN {} ELSE {"local"}

\* A file that was there all along is never passed over for being unreadable or
\* unsound: neither for a file of lower precedence nor for the built-in
\* configuration.  One in a directory that cannot be searched is no file to
\* is_file(), and counts as missing.
NeverBypassed ==
  \A place \in steady :
    /\ pc \in {"check", "plan", "propose"} /\ place \in Before(path) => ~IsFile(place)
    /\ pc = "propose" /\ base = Missing /\ place = path => ~IsFile(place)

\* What a setup without a path has saved is what the next command without a
\* path finds, unless somebody touched that place or the local one in the
\* meantime; each of the two works out the place by itself.
SavedIsFound ==
  /\ pc \in {"read", "check", "plan"} /\ ~command.explicit /\ saved # None => path = saved
  /\ result = "not found" => saved = None

=============================================================================
