------------------------------ MODULE FileProofs ------------------------------
(***************************************************************************)
(* The files that people edit beside docker_maid.  The configuration, for  *)
(* any files and texts: what load_config() has accepted makes a plan and   *)
(* claims only what it names, no file is passed over, and what a setup     *)
(* saves is what is found next.  The skills, for any selections and        *)
(* failures: an install that refuses a skill has touched none, one that is *)
(* not forced keeps the texts of others, and one that reports success has  *)
(* installed all of it.                                                    *)
(***************************************************************************)
EXTENDS Configuration, SkillInstall, WellFoundedInduction, TLAPS

-----------------------------------------------------------------------------
(* Configuration *)

\* A rule that is accepted compiles, of each kind and for any record.
LEMMA RulesCompile ==
  ASSUME NEW rule
  PROVE  /\ ContainerRuleValid(rule) =>
              /\ SelectorCompiles(rule.common.select)
              /\ DurationParses(rule.stopped_ttl) /\ DurationParses(rule.running_ttl)
         /\ ImageRuleValid(rule) =>
              /\ SelectorCompiles(rule.common.select)
              /\ DurationParses(rule.unused_for)
              /\ GlobsCompile(rule.image_tag_patterns)
         /\ VolumeRuleValid(rule) =>
              SelectorCompiles(rule.common.select) /\ DurationParses(rule.orphan_for)
         /\ NetworkRuleValid(rule) =>
              SelectorCompiles(rule.common.select) /\ DurationParses(rule.orphan_for)
         /\ BuildCacheValid(rule) /\ rule # None => DurationParses(rule.older_than)
<1>1. ASSUME NEW values
      PROVE  /\ GlobsValid(values) => GlobsCompile(values)
             /\ RegexesValid(values) => RegexesCompile(values)
  BY DEF GlobsValid, GlobsCompile, RegexesValid, RegexesCompile
<1>2. ASSUME NEW value, DurationValid(value)  PROVE DurationParses(value)
  BY <1>2 DEF DurationValid, DurationParses
<1>3. CommonRuleValid(rule.common) => SelectorCompiles(rule.common.select)
  BY <1>1 DEF CommonRuleValid, SelectorCompiles
<1>4. QED
  BY <1>1, <1>2, <1>3 DEF ContainerRuleValid, ImageRuleValid, VolumeRuleValid,
                          NetworkRuleValid, BuildCacheValid

\* validate() accepts nothing that compile() refuses.
LEMMA ValidCompiles ==
  ASSUME NEW c, Valid(c)
  PROVE  Compiles(c)
<1>1. GlobsCompile(c.protect.labels) /\ RegexesCompile(c.protect.names)
  BY DEF Valid, GlobsValid, GlobsCompile, RegexesValid, RegexesCompile
<1>2. /\ \A n \in DOMAIN c.containers : ContainerRuleValid(c.containers[n])
      /\ \A n \in DOMAIN c.images : ImageRuleValid(c.images[n])
      /\ \A n \in DOMAIN c.volumes : VolumeRuleValid(c.volumes[n])
      /\ \A n \in DOMAIN c.networks : NetworkRuleValid(c.networks[n])
      /\ BuildCacheValid(c.build_cache)
  BY DEF Valid
<1>3. QED
  BY <1>1, <1>2, RulesCompile DEF Compiles

-----------------------------------------------------------------------------
\* A command plans with a configuration that was accepted, and no plan has
\* failed: build_plan() reads what validate() has read.
PlansAccepted ==
  /\ pc = "plan" => Valid(config)
  /\ LoadedCompiles

\* No step of a command, and nothing other people do to the files, leads to a
\* plan with a configuration that was not accepted.
LEMMA StepKeepsPlans ==
  ASSUME PlansAccepted, [ConfigurationNext]_configurationVars
  PROVE  PlansAccepted'
<1> USE DEF PlansAccepted, LoadedCompiles
<1>1. CASE Start
  BY <1>1 DEF Start
<1>2. CASE LookLocal
  BY <1>2 DEF LookLocal, Goes
<1>3. CASE LookHome
  BY <1>3 DEF LookHome, Goes, Ends
<1>4. CASE Read
  BY <1>4 DEF Read, Goes, Ends
<1>5. CASE Check
  <2>1. CASE ~Valid(config)
    BY <1>5, <2>1 DEF Check, Ends
  <2>2. CASE Valid(config)
    BY <1>5, <2>2 DEF Check, Goes
  <2>3. QED
    BY <2>1, <2>2
<1>6. CASE Plan
  <2>1. Compiles(config)
    BY <1>6, ValidCompiles DEF Plan
  <2>2. QED
    BY <1>6, <2>1 DEF Plan, Ends
<1>7. CASE Save
  BY <1>7 DEF Save, Ends
<1>8. CASE Leave
  BY <1>8 DEF Leave, Ends
<1>9. CASE \E place \in Places : Edit(place)
  BY <1>9 DEF Edit, commandVars
<1>10. CASE UNCHANGED configurationVars
  BY <1>10 DEF configurationVars, commandVars
<1>11. QED
  BY <1>1, <1>2, <1>3, <1>4, <1>5, <1>6, <1>7, <1>8, <1>9, <1>10 DEF ConfigurationNext

\* A configuration that load_config() has accepted makes a plan, for any texts,
\* any files and any number of edits.
THEOREM AcceptedPlans == ConfigurationSpec => []LoadedCompiles
<1>1. ConfigurationInit => PlansAccepted
  BY DEF ConfigurationInit, PlansAccepted, LoadedCompiles
<1>2. PlansAccepted => LoadedCompiles
  BY DEF PlansAccepted
<1>3. QED
  BY <1>1, <1>2, StepKeepsPlans, PTL DEF ConfigurationSpec

-----------------------------------------------------------------------------
(* Which file a command takes *)

Found == {"read", "check", "plan", "propose"}

FileTypes ==
  /\ files \in [Places -> Configs \cup {Missing, Folder, Locked, Garbled}]
  /\ pc \in {"check", "plan"} => config \in Configs
  /\ saved # None => saved \in Places

\* The path is the one given, or one of the two that are looked for.
Resolved ==
  /\ pc \in {"local", "home"} => ~command.explicit
  /\ pc \in Found =>
       IF command.explicit THEN path = "given"
       ELSE path = "local" \/ (path = ConfigHome /\ path \in {"xdg", "home"})

\* The local place was looked at first, and nobody has put a file there since.
LocalPassed ==
  \/ pc = "home"
  \/ pc \in Found /\ ~command.explicit /\ path # "local"

PassedOver == LocalPassed /\ "local" \in steady => ~IsFile("local")

EmptyBase == pc = "propose" /\ base = Missing /\ path \in steady => ~IsFile(path)

\* What was saved last is what the two probes lead to.
SavedIsNext ==
  saved # None =>
    /\ IsFile(saved)
    /\ saved = "local" \/ (saved = ConfigHome /\ ~IsFile("local"))
    /\ pc = "home" => saved # "local"

PathInv ==
  FileTypes /\ Resolved /\ PassedOver /\ EmptyBase /\ SavedIsNext /\ SavedIsFound

LEMMA StartPath ==
  ASSUME PathInv, Start
  PROVE  PathInv'
BY DEF Start, PathInv, FileTypes, Resolved, LocalPassed, PassedOver, EmptyBase, SavedIsNext,
       SavedIsFound, IsFile, ConfigHome, Found

\* The local place is looked at, then the home.
LEMMA LookPath ==
  ASSUME PathInv, LookLocal \/ LookHome
  PROVE  PathInv'
<1>1. CASE LookLocal
  BY <1>1 DEF LookLocal, Goes, PathInv, FileTypes, Resolved, LocalPassed, PassedOver,
              EmptyBase, SavedIsNext, SavedIsFound, IsFile, ConfigHome, Found
<1>2. CASE LookHome
  <2> USE <1>2 DEF LookHome, PathInv
  <2>1. CASE ConfigHome # None /\ IsFile(ConfigHome)
    BY <2>1 DEF Goes, FileTypes, Resolved, LocalPassed, PassedOver, EmptyBase, SavedIsNext,
                SavedIsFound, IsFile, ConfigHome, Found
  <2>2. CASE ~(ConfigHome # None /\ IsFile(ConfigHome))
    <3>1. saved = None
      BY <2>2 DEF SavedIsNext
    <3>2. CASE StartsEmpty
      BY <2>2, <3>1, <3>2 DEF StartsEmpty, Target, Goes, FileTypes, Resolved, LocalPassed,
         PassedOver, EmptyBase, SavedIsNext, SavedIsFound, IsFile, ConfigHome, Found
    <3>3. CASE ~StartsEmpty
      BY <2>2, <3>1, <3>3 DEF Ends, NoCommand, FileTypes, Resolved, LocalPassed,
         PassedOver, EmptyBase, SavedIsNext, SavedIsFound, IsFile, ConfigHome, Found
    <3>4. QED
      BY <3>2, <3>3
  <2>3. QED
    BY <2>1, <2>2
<1>3. QED
  BY <1>1, <1>2

\* What was found is read and validated, planned with, or left.
LEMMA TakePath ==
  ASSUME PathInv, Read \/ Check \/ Plan \/ Leave
  PROVE  PathInv'
<1> USE DEF PathInv, FileTypes, Resolved, LocalPassed, PassedOver, EmptyBase, SavedIsNext,
            SavedIsFound, IsFile, ConfigHome, Found
<1>1. CASE Read
  BY <1>1 DEF Read, CreatesMissing, Goes, Ends, NoCommand
<1>2. CASE Check
  <2>1. CASE ~Valid(config)
    BY <1>2, <2>1 DEF Check, Ends, NoCommand
  <2>2. CASE Valid(config)
    BY <1>2, <2>2, ConfigurationAssumption DEF Check, Goes
  <2>3. QED
    BY <2>1, <2>2
<1>3. CASE Plan
  BY <1>3 DEF Plan, Ends, NoCommand
<1>4. CASE Leave
  BY <1>4 DEF Leave, Ends, NoCommand
<1>5. QED
  BY <1>1, <1>2, <1>3, <1>4

\* A setup that was given no path saves where the next command looks.
LEMMA SavePath ==
  ASSUME PathInv, Save
  PROVE  PathInv'
<1>1. PICK proposal \in Configs : files' = [files EXCEPT ![path] = proposal]
  BY ConfigurationAssumption DEF Save
<1>2. proposal \notin {Missing, Folder}
  BY ConfigurationAssumption
<1>3. pc = "propose" /\ pc' = "idle" /\ result' = "saved" /\ UNCHANGED <<env, steady>>
  BY DEF Save, Ends
<1>4. path \in Places
  BY <1>3 DEF PathInv, Resolved, Found, Places
<1>5. FileTypes'
  BY <1>1, <1>3, <1>4 DEF PathInv, FileTypes, Save
<1>6. SavedIsNext'
  <2>1. CASE command.explicit
    <3>1. saved' = saved /\ path = "given"
      BY <1>3, <2>1 DEF Save, PathInv, Resolved, Found
    <3>2. saved # None => saved \in Places /\ saved # "given"
      BY DEF PathInv, FileTypes, SavedIsNext, ConfigHome
    <3>3. QED
      BY <1>1, <1>3, <3>1, <3>2 DEF PathInv, FileTypes, SavedIsNext, IsFile, Places, ConfigHome
  <2>2. CASE ~command.explicit /\ "local" \in steady
    <3>1. saved' = path /\ (path = "local" \/ (path = ConfigHome /\ path # "local"))
      BY <1>3, <2>2 DEF Save, PathInv, Resolved, Found
    <3>2. files'[path] = proposal
      BY <1>1, <1>4 DEF PathInv, FileTypes
    <3>3. path # "local" => ~IsFile("local") /\ files'["local"] = files["local"]
      BY <1>1, <1>3, <2>2 DEF PathInv, FileTypes, PassedOver, LocalPassed, Found, Places
    <3>4. QED
      BY <1>2, <1>3, <3>1, <3>2, <3>3 DEF SavedIsNext, IsFile, ConfigHome
  <2>3. CASE ~command.explicit /\ "local" \notin steady
    BY <2>3 DEF Save, SavedIsNext
  <2>4. QED
    BY <2>1, <2>2, <2>3
<1>7. QED
  BY <1>3, <1>5, <1>6 DEF PathInv, Resolved, LocalPassed, PassedOver, EmptyBase,
                          SavedIsFound, Found

\* Whoever touches a place takes it out of what is promised.
LEMMA EditPath ==
  ASSUME PathInv, NEW place \in Places, Edit(place)
  PROVE  PathInv'
<1>1. PICK source \in EditedTo : files' = [files EXCEPT ![place] = source]
  BY DEF Edit
<1>2. source \in Configs \cup {Missing, Folder, Locked, Garbled}
  BY ConfigurationAssumption
<1>3. UNCHANGED <<env, pc, command, path, config, base, result>>
  BY DEF Edit, commandVars
<1>4. ASSUME NEW other \in Places, other # place  PROVE IsFile(other)' <=> IsFile(other)
  BY <1>1, <1>4 DEF IsFile, PathInv, FileTypes
<1>5. FileTypes' /\ Resolved'
  BY <1>1, <1>2, <1>3 DEF Edit, PathInv, FileTypes, Resolved, ConfigHome
<1>6. PassedOver'
  BY <1>3, <1>4 DEF Edit, PathInv, PassedOver, LocalPassed, Places
<1>7. EmptyBase'
  <2>1. pc = "propose" => path \in Places
    BY DEF PathInv, Resolved, Found, Places
  <2>2. QED
    BY <1>3, <1>4, <2>1 DEF Edit, PathInv, EmptyBase, IsFile
<1>8. SavedIsNext' /\ SavedIsFound'
  <2>1. CASE saved' = None
    BY <1>3, <2>1 DEF SavedIsNext, SavedIsFound
  <2>2. CASE saved' = saved /\ place # "local" /\ place # saved
    BY <1>3, <1>4, <2>2 DEF PathInv, FileTypes, SavedIsNext, SavedIsFound, ConfigHome, Places
  <2>3. QED
    BY <2>1, <2>2 DEF Edit
<1>9. QED
  BY <1>5, <1>6, <1>7, <1>8 DEF PathInv

LEMMA PathInvInit == ConfigurationInit => PathInv
BY ConfigurationAssumption
   DEF ConfigurationInit, PathInv, FileTypes, Resolved, LocalPassed, PassedOver, EmptyBase,
       SavedIsNext, SavedIsFound, Found

LEMMA PathInvStep ==
  ASSUME PathInv, [ConfigurationNext]_configurationVars
  PROVE  PathInv'
<1>1. CASE UNCHANGED configurationVars
  BY <1>1 DEF configurationVars, commandVars, PathInv, FileTypes, Resolved, LocalPassed,
              PassedOver, EmptyBase, SavedIsNext, SavedIsFound, IsFile, ConfigHome
<1>2. QED
  BY <1>1, StartPath, LookPath, TakePath, SavePath, EditPath DEF ConfigurationNext

\* A file that was there all along is passed over by no command, neither for a
\* file of lower precedence nor for the built-in configuration of a setup, as
\* long as is_file() can see it: neither a garbled nor an unreadable one.
THEOREM NoFileBypassed == ConfigurationSpec => []NeverBypassed
<1>1. PathInv => NeverBypassed
  BY DEF PathInv, Resolved, PassedOver, LocalPassed, EmptyBase, NeverBypassed, Before, Found
<1>2. QED
  BY <1>1, PathInvInit, PathInvStep, PTL DEF ConfigurationSpec

\* What a setup without a path has saved is what the next command without a
\* path takes: the place that is written and the place that is read, which the
\* code works out in two functions, are the same one.
THEOREM SavedConfigurationFound == ConfigurationSpec => []SavedIsFound
<1>1. PathInv => SavedIsFound
  BY DEF PathInv
<1>2. QED
  BY <1>1, PathInvInit, PathInvStep, PTL DEF ConfigurationSpec

-----------------------------------------------------------------------------
(* What an accepted configuration claims *)

\* The first of the rules that match is one of them.
LEMMA FirstMatches ==
  ASSUME NEW rules, NEW item, DOMAIN rules \subseteq Nat, FirstRule(rules, item) # None
  PROVE  \E n \in DOMAIN rules :
           FirstRule(rules, item) = rules[n] /\ Selects(rules[n].select, item)
<1> DEFINE hits == {n \in DOMAIN rules : Selects(rules[n].select, item)}
<1>1. hits \subseteq Nat /\ hits # {}
  BY DEF FirstRule
<1>2. \E i \in hits : \A j \in hits : i <= j
  <2> HIDE DEF hits
  <2>1. PICK i \in hits : \A j \in hits : ~(<<j, i>> \in OpToRel(<, Nat))
    BY <1>1, NatLessThanWellFounded, WFMin
  <2>2. \A j \in hits : ~(j < i)
    BY <1>1, <2>1 DEF OpToRel
  <2>3. QED
    BY <1>1, <2>2
<1>3. QED
  BY <1>1, <1>2 DEF FirstRule

\* A selector without blank texts selects what one of its texts names.
LEMMA SelectedIsNamed ==
  ASSUME NEW select, NEW item, ~HasBlank(select), Selects(CompileSelector(select), item)
  PROVE  Named(select, item)
<1>1. /\ select.labels \ Blank = select.labels
      /\ select.names \ Blank = select.names
      /\ select.parts \ Blank = select.parts
  BY DEF HasBlank
<1>2. QED
  BY <1>1 DEF Selects, CompileSelector, Named

\* Compilation keeps the selector and the scope of a rule of any kind.
LEMMA CommonKept ==
  ASSUME NEW rule,
         NEW compiled \in {CompileContainer(rule), CompileImage(rule), CompileVolume(rule),
                          CompileNetwork(rule)}
  PROVE  /\ compiled.select = CompileSelector(rule.common.select)
         /\ compiled.scope = rule.common.scope
<1>1. ASSUME NEW common, NEW own
      PROVE  /\ CompileCommon(common, own).select = CompileSelector(common.select)
             /\ CompileCommon(common, own).scope = common.scope
  BY DEF CompileCommon
<1>2. QED
  BY <1>1 DEF CompileContainer, CompileImage, CompileVolume, CompileNetwork

\* The rules of a file by the kind of resource they are for.
FileRules(c, kind) ==
  CASE kind = "container" -> c.containers
    [] kind = "image"     -> c.images
    [] kind = "volume"    -> c.volumes
    [] kind = "network"   -> c.networks

\* The rules the plan tries are those of the file, one by one.
LEMMA RulesAreCompiled ==
  ASSUME NEW c \in Config, Valid(c), NEW kind \in Owned
  PROVE  LET written == FileRules(c, kind)
             rules   == Compile(c).rules[kind]
         IN  /\ RulesOf(c, kind) = {written[n] : n \in DOMAIN written}
             /\ DOMAIN rules = DOMAIN written
             /\ DOMAIN rules \subseteq Nat
             /\ \A n \in DOMAIN written :
                  /\ CommonRuleValid(written[n].common)
                  /\ written[n].common \in CommonRule
                  /\ rules[n].select = CompileSelector(written[n].common.select)
                  /\ rules[n].scope = written[n].common.scope
<1>1. /\ c.containers \in Seq(ContainerRule) /\ c.images \in Seq(ImageRule)
      /\ c.volumes \in Seq(VolumeRule) /\ c.networks \in Seq(NetworkRule)
  BY DEF Config
<1>2. ASSUME NEW S, NEW written \in Seq(S)
      PROVE  DOMAIN written \subseteq Nat /\ \A n \in DOMAIN written : written[n] \in S
  OBVIOUS
<1>3. CASE kind = "container"
  <2>1. /\ FileRules(c, kind) = c.containers
        /\ RulesOf(c, kind) = {c.containers[n] : n \in DOMAIN c.containers}
    BY <1>3 DEF FileRules, RulesOf, ToSet
  <2>2. Compile(c).rules[kind] = [n \in DOMAIN c.containers |-> CompileContainer(c.containers[n])]
    BY <1>3 DEF Compile, Owned, Kinds
  <2>3. \A n \in DOMAIN c.containers : c.containers[n] \in ContainerRule /\ n \in Nat
    BY <1>1, <1>2
  <2>4. \A n \in DOMAIN c.containers : CommonRuleValid(c.containers[n].common)
    BY DEF Valid, ContainerRuleValid
  <2>5. \A n \in DOMAIN c.containers : c.containers[n].common \in CommonRule
    BY <2>3 DEF ContainerRule
  <2>6. ASSUME NEW n \in DOMAIN c.containers
        PROVE  /\ Compile(c).rules[kind][n].select = CompileSelector(c.containers[n].common.select)
               /\ Compile(c).rules[kind][n].scope = c.containers[n].common.scope
    <3>1. Compile(c).rules[kind][n] = CompileContainer(c.containers[n])
      BY <2>2
    <3>2. QED
      BY <3>1, CommonKept
  <2>7. DOMAIN Compile(c).rules[kind] = DOMAIN c.containers /\ DOMAIN c.containers \subseteq Nat
    BY <2>2, <2>3
  <2>8. QED
    BY <2>1, <2>4, <2>5, <2>6, <2>7
<1>4. CASE kind = "image"
  <2>1. /\ FileRules(c, kind) = c.images
        /\ RulesOf(c, kind) = {c.images[n] : n \in DOMAIN c.images}
    BY <1>4 DEF FileRules, RulesOf, ToSet
  <2>2. Compile(c).rules[kind] = [n \in DOMAIN c.images |-> CompileImage(c.images[n])]
    BY <1>4 DEF Compile, Owned, Kinds
  <2>3. \A n \in DOMAIN c.images : c.images[n] \in ImageRule /\ n \in Nat
    BY <1>1, <1>2
  <2>4. \A n \in DOMAIN c.images : CommonRuleValid(c.images[n].common)
    BY DEF Valid, ImageRuleValid
  <2>5. \A n \in DOMAIN c.images : c.images[n].common \in CommonRule
    BY <2>3 DEF ImageRule
  <2>6. ASSUME NEW n \in DOMAIN c.images
        PROVE  /\ Compile(c).rules[kind][n].select = CompileSelector(c.images[n].common.select)
               /\ Compile(c).rules[kind][n].scope = c.images[n].common.scope
    <3>1. Compile(c).rules[kind][n] = CompileImage(c.images[n])
      BY <2>2
    <3>2. QED
      BY <3>1, CommonKept
  <2>7. DOMAIN Compile(c).rules[kind] = DOMAIN c.images /\ DOMAIN c.images \subseteq Nat
    BY <2>2, <2>3
  <2>8. QED
    BY <2>1, <2>4, <2>5, <2>6, <2>7
<1>5. CASE kind = "volume"
  <2>1. /\ FileRules(c, kind) = c.volumes
        /\ RulesOf(c, kind) = {c.volumes[n] : n \in DOMAIN c.volumes}
    BY <1>5 DEF FileRules, RulesOf, ToSet
  <2>2. Compile(c).rules[kind] = [n \in DOMAIN c.volumes |-> CompileVolume(c.volumes[n])]
    BY <1>5 DEF Compile, Owned, Kinds
  <2>3. \A n \in DOMAIN c.volumes : c.volumes[n] \in VolumeRule /\ n \in Nat
    BY <1>1, <1>2
  <2>4. \A n \in DOMAIN c.volumes : CommonRuleValid(c.volumes[n].common)
    BY DEF Valid, VolumeRuleValid
  <2>5. \A n \in DOMAIN c.volumes : c.volumes[n].common \in CommonRule
    BY <2>3 DEF VolumeRule
  <2>6. ASSUME NEW n \in DOMAIN c.volumes
        PROVE  /\ Compile(c).rules[kind][n].select = CompileSelector(c.volumes[n].common.select)
               /\ Compile(c).rules[kind][n].scope = c.volumes[n].common.scope
    <3>1. Compile(c).rules[kind][n] = CompileVolume(c.volumes[n])
      BY <2>2
    <3>2. QED
      BY <3>1, CommonKept
  <2>7. DOMAIN Compile(c).rules[kind] = DOMAIN c.volumes /\ DOMAIN c.volumes \subseteq Nat
    BY <2>2, <2>3
  <2>8. QED
    BY <2>1, <2>4, <2>5, <2>6, <2>7
<1>6. CASE kind = "network"
  <2>1. /\ FileRules(c, kind) = c.networks
        /\ RulesOf(c, kind) = {c.networks[n] : n \in DOMAIN c.networks}
    BY <1>6 DEF FileRules, RulesOf, ToSet
  <2>2. Compile(c).rules[kind] = [n \in DOMAIN c.networks |-> CompileNetwork(c.networks[n])]
    BY <1>6 DEF Compile, Owned, Kinds
  <2>3. \A n \in DOMAIN c.networks : c.networks[n] \in NetworkRule /\ n \in Nat
    BY <1>1, <1>2
  <2>4. \A n \in DOMAIN c.networks : CommonRuleValid(c.networks[n].common)
    BY DEF Valid, NetworkRuleValid
  <2>5. \A n \in DOMAIN c.networks : c.networks[n].common \in CommonRule
    BY <2>3 DEF NetworkRule
  <2>6. ASSUME NEW n \in DOMAIN c.networks
        PROVE  /\ Compile(c).rules[kind][n].select = CompileSelector(c.networks[n].common.select)
               /\ Compile(c).rules[kind][n].scope = c.networks[n].common.scope
    <3>1. Compile(c).rules[kind][n] = CompileNetwork(c.networks[n])
      BY <2>2
    <3>2. QED
      BY <3>1, CommonKept
  <2>7. DOMAIN Compile(c).rules[kind] = DOMAIN c.networks /\ DOMAIN c.networks \subseteq Nat
    BY <2>2, <2>3
  <2>8. QED
    BY <2>1, <2>4, <2>5, <2>6, <2>7
<1>7. QED
  BY <1>3, <1>4, <1>5, <1>6 DEF Owned, Kinds

\* The rule that decides names the item, and has turned both keys or neither.
LEMMA RuleClaims ==
  ASSUME NEW c \in Config, Valid(c), NEW item, item.kind \in Owned,
         NEW rule, rule = FirstRule(Compile(c).rules[item.kind], item), rule # None
  PROVE  \E r \in RulesOf(c, item.kind) :
           /\ Named(r.common.select, item)
           /\ RuleDisposition(rule) = "owned" => r.common.scope = "owned"
           /\ RuleDisposition(rule) = "authorized-unscoped" =>
                r.common.scope = "all" /\ r.common.allow_unscoped
<1> DEFINE written == FileRules(c, item.kind)
           rules   == Compile(c).rules[item.kind]
<1>1. /\ RulesOf(c, item.kind) = {written[n] : n \in DOMAIN written}
      /\ DOMAIN rules = DOMAIN written
      /\ DOMAIN rules \subseteq Nat
      /\ \A n \in DOMAIN written :
           /\ CommonRuleValid(written[n].common)
           /\ written[n].common \in CommonRule
           /\ rules[n].select = CompileSelector(written[n].common.select)
           /\ rules[n].scope = written[n].common.scope
  BY RulesAreCompiled
<1> HIDE DEF written, rules
<1>2. rule = FirstRule(rules, item)
  BY DEF rules
<1>3. PICK n \in DOMAIN rules : rule = rules[n] /\ Selects(rules[n].select, item)
  BY <1>1, <1>2, FirstMatches
<1>4. Named(written[n].common.select, item)
  BY <1>1, <1>3, SelectedIsNamed DEF CommonRuleValid
<1>5. written[n].common.scope \in {"owned", "all"}
  BY <1>1, <1>3 DEF CommonRule
<1>6. written[n].common.scope = "all" => written[n].common.allow_unscoped
  BY <1>1, <1>3 DEF CommonRuleValid
<1>7. QED
  BY <1>1, <1>3, <1>4, <1>5, <1>6 DEF RuleDisposition

\* What an accepted configuration says of an item, somebody has written.
LEMMA DispositionAuthored ==
  ASSUME NEW c \in Config, Valid(c), NEW item, item.kind \in Kinds
  PROVE  Authored(c, item)
<1> DEFINE said      == Decide(Compile(c), item, 0, {}, {}, {}).disposition
           claimants == {r \in RulesOf(c, item.kind) : Named(r.common.select, item)}
<1> SUFFICES /\ said = "owned" => \E r \in claimants : r.common.scope = "owned"
             /\ said = "authorized-unscoped" =>
                  \/ item.kind = "build-cache" /\ c.build_cache.allow_unscoped
                  \/ \E r \in claimants : r.common.scope = "all" /\ r.common.allow_unscoped
             /\ said = "protected" => item.system \/ Named(ProtectSelector(c), item)
  BY DEF Authored
<1>1. CASE Selects(Compile(c).protect, item)
  <2>1. said = "protected"
    BY <1>1 DEF Decide, KeepDecision
  <2>2. ~HasBlank(ProtectSelector(c))
    BY DEF Valid, RegexesValid, GlobsValid, HasBlank, ProtectSelector
  <2>3. Named(ProtectSelector(c), item)
    BY <1>1, <2>2, SelectedIsNamed DEF Compile
  <2>4. QED
    BY <2>1, <2>3
<1>2. ~Protected({}, item)
  BY DEF Protected
<1>3. CASE ~Selects(Compile(c).protect, item) /\ item.kind = "build-cache"
  <2>1. said = DecideBuildCache(Compile(c), item, {}).disposition
    BY <1>2, <1>3 DEF Decide
  <2>2. said = IF Compile(c).cache = None THEN "unowned" ELSE "authorized-unscoped"
    BY <2>1 DEF DecideBuildCache, Unowned, KeepDecision, RemoveDecision
  <2>3. Compile(c).cache # None => c.build_cache.allow_unscoped
    BY DEF Compile, CompileBuildCache, Valid, BuildCacheValid
  <2>4. QED
    BY <1>3, <2>2, <2>3
<1>4. CASE ~Selects(Compile(c).protect, item) /\ item.kind = "network" /\ item.system
  <2>1. said = "protected"
    BY <1>2, <1>4 DEF Decide, KeepDecision
  <2>2. QED
    BY <1>4, <2>1
<1>5. CASE /\ ~Selects(Compile(c).protect, item)
           /\ item.kind # "build-cache" /\ ~(item.kind = "network" /\ item.system)
  <2> DEFINE rule == FirstRule(Compile(c).rules[item.kind], item)
  <2>1. said = DecideByRule(Compile(c), item, 0, {}).disposition
    BY <1>2, <1>5 DEF Decide
  <2>2. said = IF rule = None THEN "unowned" ELSE RuleDisposition(rule)
    BY <2>1 DEF DecideByRule, Unowned, KeepDecision, RemoveDecision
  <2>3. item.kind \in Owned
    BY <1>5 DEF Owned
  <2>4. rule # None =>
          \E r \in RulesOf(c, item.kind) :
            /\ Named(r.common.select, item)
            /\ RuleDisposition(rule) = "owned" => r.common.scope = "owned"
            /\ RuleDisposition(rule) = "authorized-unscoped" =>
                 r.common.scope = "all" /\ r.common.allow_unscoped
    BY <2>3, RuleClaims
  <2>5. RuleDisposition(rule) \in {"owned", "authorized-unscoped"}
    BY DEF RuleDisposition
  <2>6. QED
    BY <2>2, <2>4, <2>5
<1>6. QED
  BY <1>1, <1>3, <1>4, <1>5

\* Nothing is claimed by accident: whatever globs and expressions match, what an
\* accepted configuration calls owned is named by a rule for owned resources,
\* what it calls authorized by a rule with both keys (or is build cache whose
\* rule says so), and what it protects is named in the file, by texts that say
\* something.
THEOREM NothingClaimedByAccident == ConfigurationSpec => []ClaimsAuthored
<1>1. PlansAccepted /\ PathInv => ClaimsAuthored
  <2> SUFFICES ASSUME PlansAccepted, PathInv, pc = "plan", NEW item \in Items
               PROVE  Authored(config, item)
    BY DEF ClaimsAuthored
  <2>1. Valid(config) /\ config \in Config /\ item.kind \in Kinds
    BY ConfigurationAssumption DEF PlansAccepted, PathInv, FileTypes
  <2>2. QED
    BY <2>1, DispositionAuthored
<1>2. ConfigurationInit => PlansAccepted
  BY DEF ConfigurationInit, PlansAccepted, LoadedCompiles
<1>3. QED
  BY <1>1, <1>2, StepKeepsPlans, PathInvInit, PathInvStep, PTL DEF ConfigurationSpec

-----------------------------------------------------------------------------
(* Skills *)

Stages == {"idle", "check", "recheck", "open", "fill"}

SkillTypes ==
  /\ file \in [Skills -> Contents]
  /\ stage \in [Installers -> Stages]
  /\ force \in [Installers -> BOOLEAN]
  /\ disturbed \in [Installers -> BOOLEAN]
  /\ touched \in [Installers -> SUBSET Skills]
  /\ installed \in [Installers -> Results]
  /\ at \in [Installers -> Nat]
  /\ selection \in [Installers -> Seq(Skills)]

\* An install under way has a place in its selection and no outcome.
UnderWay(i) ==
  stage[i] # "idle" => at[i] \in DOMAIN selection[i] /\ installed[i] = "none"

\* The k-th skill of a selection would not be refused.
Passes(i, k) == PlannedStatus(file[selection[i][k]], force[i]) # "refused"

\* What an undisturbed install knows: the skills it has checked, and in the
\* second pass all of them, but for the one it is about to fill, would pass.
Checked(i) ==
  /\ stage[i] = "check" =>
       touched[i] = {} /\ \A k \in DOMAIN selection[i] : k < at[i] => Passes(i, k)
  /\ stage[i] \in {"recheck", "open"} => \A k \in DOMAIN selection[i] : Passes(i, k)
  /\ stage[i] = "fill" =>
       /\ file[Skill(i)] = "cut"
       /\ \A k \in DOMAIN selection[i] : selection[i][k] # Skill(i) => Passes(i, k)

RefusesUntouched(i) == installed[i] \in {"usage", "refused"} => touched[i] = {}

Knows(i) == UnderWay(i) /\ (~disturbed[i] => Checked(i) /\ RefusesUntouched(i))

SkillInv == SkillTypes /\ \A i \in Installers : Knows(i)

-----------------------------------------------------------------------------
\* What is chosen is a list of skills of this build, and not an empty one.
LEMMA SelectedIsKnown ==
  ASSUME NEW names \in Selections, Known(names)
  PROVE  Selected(names) \in Seq(Skills) /\ 1 \in DOMAIN Selected(names)
<1>1. names \in Seq(ToSet(names)) /\ SKILLS \in Seq(Skills) /\ SKILLS # <<>>
  BY SkillInstallAssumption
<1>2. names \in Seq(Skills)
  BY <1>1 DEF Known
<1>3. QED
  BY <1>1, <1>2 DEF Selected

\* The others: a step that is not their own leaves what they know as it is, or
\* has disturbed them.
LEMMA OtherKnows ==
  ASSUME SkillInv, NEW j \in Installers,
         stage'[j] = stage[j], selection'[j] = selection[j], force'[j] = force[j],
         at'[j] = at[j], installed'[j] = installed[j], touched'[j] = touched[j],
         ~disturbed'[j] => ~disturbed[j] /\ file' = file
  PROVE  Knows(j)'
BY DEF SkillInv, Knows, UnderWay, Checked, RefusesUntouched, Passes, Skill

\* An install that starts has touched nothing and checked nothing.
LEMMA StartKeeps ==
  ASSUME SkillInv, NEW i \in Installers, StartInstall(i)
  PROVE  SkillInv'
<1>1. PICK forced \in BOOLEAN, names \in Selections, valid \in BOOLEAN :
        /\ valid => Known(names)
        /\ selection' = [selection EXCEPT ![i] = IF valid THEN Selected(names) ELSE <<>>]
        /\ force'     = [force EXCEPT ![i] = valid /\ forced]
        /\ at'        = [at EXCEPT ![i] = IF valid THEN 1 ELSE 0]
        /\ stage'     = [stage EXCEPT ![i] = IF valid THEN "check" ELSE "idle"]
        /\ installed' = [installed EXCEPT ![i] = IF valid THEN "none" ELSE "usage"]
  BY DEF StartInstall
<1>2. touched' = [touched EXCEPT ![i] = {}] /\ disturbed' = [disturbed EXCEPT ![i] = FALSE]
      /\ UNCHANGED file
  BY DEF StartInstall
<1>3. (IF valid THEN Selected(names) ELSE <<>>) \in Seq(Skills)
  BY <1>1, SelectedIsKnown
<1>4. SkillTypes'
  BY <1>1, <1>2, <1>3 DEF SkillInv, SkillTypes, Stages, Results
<1>5. ASSUME NEW j \in Installers, j # i
      PROVE  Knows(j)'
  BY <1>1, <1>2, <1>5, OtherKnows DEF SkillInv, SkillTypes
<1>6. Knows(i)'
  <2>1. /\ touched'[i] = {} /\ at'[i] \in {0, 1} /\ stage'[i] \in {"check", "idle"}
        /\ selection'[i] \in Seq(Skills)
    BY <1>1, <1>2, <1>4 DEF SkillInv, SkillTypes
  <2>2. stage'[i] = "check" => at'[i] = 1 /\ 1 \in DOMAIN selection'[i] /\ installed'[i] = "none"
    BY <1>1, SelectedIsKnown DEF SkillInv, SkillTypes
  <2>3. UnderWay(i)'
    BY <2>1, <2>2 DEF UnderWay
  <2>4. \A k \in DOMAIN selection'[i] : ~(k < 1)
    BY <2>1
  <2>5. Checked(i)'
    BY <2>1, <2>2, <2>4 DEF Checked
  <2>6. QED
    BY <2>1, <2>3, <2>5 DEF Knows, RefusesUntouched
<1>7. QED
  BY <1>4, <1>5, <1>6 DEF SkillInv

\* The first pass: a skill that passes is remembered, one that does not ends the
\* install before anything is written.
LEMMA CheckKeeps ==
  ASSUME SkillInv, NEW i \in Installers, CheckSkill(i)
  PROVE  SkillInv'
<1>1. /\ at[i] \in DOMAIN selection[i] /\ installed[i] = "none" /\ stage[i] = "check"
      /\ at[i] \in Nat /\ selection[i] \in Seq(Skills)
  BY DEF CheckSkill, SkillInv, SkillTypes, Knows, UnderWay
<1>2. UNCHANGED <<file, selection, force, status, disturbed, touched>>
  BY DEF CheckSkill, skillHistory
<1>3. CASE EndInstall(i, "refused") /\ UNCHANGED at
  <2>1. SkillTypes'
    BY <1>2, <1>3 DEF EndInstall, SkillInv, SkillTypes, Stages, Results
  <2>2. ASSUME NEW j \in Installers, j # i  PROVE Knows(j)'
    BY <1>2, <1>3, <2>2, OtherKnows DEF EndInstall, SkillInv, SkillTypes
  <2>3. Knows(i)'
    BY <1>1, <1>2, <1>3
       DEF EndInstall, SkillInv, SkillTypes, Knows, UnderWay, Checked, RefusesUntouched
  <2>4. QED
    BY <2>1, <2>2, <2>3 DEF SkillInv
<1>4. CASE /\ Passes(i, at[i]) /\ UNCHANGED installed
           /\ \/ /\ at[i] < Len(selection[i])
                 /\ at' = [at EXCEPT ![i] = @ + 1] /\ stage' = [stage EXCEPT ![i] = "check"]
              \/ /\ ~(at[i] < Len(selection[i]))
                 /\ at' = [at EXCEPT ![i] = 1] /\ stage' = [stage EXCEPT ![i] = "recheck"]
  <2>1. SkillTypes'
    <3>1. at' \in [Installers -> Nat]
      BY <1>1, <1>4 DEF SkillInv, SkillTypes
    <3>2. stage' \in [Installers -> Stages]
      BY <1>4 DEF SkillInv, SkillTypes, Stages
    <3>3. QED
      BY <1>2, <1>4, <3>1, <3>2 DEF SkillInv, SkillTypes
  <2>2. ASSUME NEW j \in Installers, j # i  PROVE Knows(j)'
    BY <1>2, <1>4, <2>2, OtherKnows DEF SkillInv, SkillTypes
  <2>3. UnderWay(i)'
    BY <1>1, <1>2, <1>4 DEF SkillInv, SkillTypes, UnderWay
  <2>4. (~disturbed[i] => Checked(i) /\ RefusesUntouched(i))'
    BY <1>1, <1>2, <1>4
       DEF SkillInv, SkillTypes, Knows, Checked, RefusesUntouched, Passes, Skill
  <2>5. QED
    BY <1>2, <2>1, <2>2, <2>3, <2>4 DEF SkillInv, Knows
<1>5. QED
  BY <1>1, <1>3, <1>4 DEF CheckSkill, Advance, Passes, Skill

\* An install goes on to its next skill or ends well: what it knows of all of
\* its skills is what it knew, or what it has just made true.
LEMMA AdvanceKeeps ==
  ASSUME SkillInv, NEW i \in Installers, stage[i] # "idle",
         SkillTypes', UNCHANGED <<selection, force>>,
         Advance(i, "recheck", Finish(i)),
         ~disturbed'[i] => ~disturbed[i] /\ \A k \in DOMAIN selection[i] : Passes(i, k)'
  PROVE  Knows(i)'
<1>1. /\ at[i] \in DOMAIN selection[i] /\ installed[i] = "none"
      /\ at[i] \in Nat /\ selection[i] \in Seq(Skills)
  BY DEF SkillInv, SkillTypes, Knows, UnderWay
<1>2. CASE /\ at' = [at EXCEPT ![i] = @ + 1] /\ at[i] < Len(selection[i])
           /\ stage' = [stage EXCEPT ![i] = "recheck"] /\ UNCHANGED installed
  BY <1>1, <1>2 DEF SkillInv, SkillTypes, Knows, UnderWay, Checked, RefusesUntouched
<1>3. CASE EndInstall(i, "success")
  BY <1>1, <1>3 DEF EndInstall, SkillInv, SkillTypes, Knows, UnderWay, Checked, RefusesUntouched
<1>4. QED
  BY <1>2, <1>3 DEF Advance, Finish

\* The second pass: what passed the first one is not refused now.
LEMMA RecheckKeeps ==
  ASSUME SkillInv, NEW i \in Installers, Recheck(i)
  PROVE  SkillInv'
<1>1. /\ at[i] \in DOMAIN selection[i] /\ installed[i] = "none" /\ stage[i] = "recheck"
      /\ at[i] \in Nat /\ selection[i] \in Seq(Skills)
  BY DEF Recheck, SkillInv, SkillTypes, Knows, UnderWay
<1>2. UNCHANGED <<file, selection, force, disturbed, touched>>
  BY DEF Recheck, skillHistory
<1>3. SkillTypes'
  <2>1. stage' \in [Installers -> Stages] /\ installed' \in [Installers -> Results]
    BY DEF Recheck, Advance, Finish, EndInstall, SkillInv, SkillTypes, Stages, Results
  <2>2. at' \in [Installers -> Nat]
    BY <1>1 DEF Recheck, Advance, Finish, SkillInv, SkillTypes
  <2>3. QED
    BY <1>2, <2>1, <2>2 DEF SkillInv, SkillTypes
<1>4. ASSUME NEW j \in Installers, j # i  PROVE Knows(j)'
  BY <1>2, <1>4, OtherKnows
     DEF Recheck, Advance, Finish, EndInstall, SkillInv, SkillTypes
<1>5. Knows(i)'
  <2>1. ~disturbed[i] => \A k \in DOMAIN selection[i] : Passes(i, k)
    BY <1>1 DEF SkillInv, Knows, Checked
  <2>2. CASE EndInstall(i, "refused") /\ ~Passes(i, at[i])
    BY <1>1, <1>2, <2>1, <2>2 DEF EndInstall, SkillInv, SkillTypes, Knows, UnderWay
  <2>3. CASE Advance(i, "recheck", Finish(i))
    BY <1>1, <1>2, <1>3, <2>1, <2>3, AdvanceKeeps DEF Passes
  <2>4. CASE stage' = [stage EXCEPT ![i] = "open"] /\ UNCHANGED <<at, installed>>
    BY <1>1, <1>2, <2>1, <2>4
       DEF SkillInv, SkillTypes, Knows, UnderWay, Checked, RefusesUntouched, Passes
  <2>5. QED
    BY <2>2, <2>3, <2>4 DEF Recheck, Passes, Skill
<1>6. QED
  BY <1>3, <1>4, <1>5 DEF SkillInv

\* The file is cut: that is what an installer knows of it, and all that the
\* others know is that they have been disturbed.
LEMMA OpenKeeps ==
  ASSUME SkillInv, NEW i \in Installers, Open(i)
  PROVE  SkillInv'
<1>1. /\ at[i] \in DOMAIN selection[i] /\ installed[i] = "none" /\ stage[i] = "open"
      /\ selection[i] \in Seq(Skills) /\ Skill(i) \in Skills
  BY DEF Open, SkillInv, SkillTypes, Knows, UnderWay, Skill
<1>2. SkillTypes'
  BY <1>1 DEF Open, SkillInv, SkillTypes, Stages, Contents
<1>3. ASSUME NEW j \in Installers, j # i  PROVE Knows(j)'
  BY <1>3, OtherKnows DEF Open, SkillInv, SkillTypes
<1>4. Knows(i)'
  <2>1. stage'[i] = "fill" /\ file'[Skill(i)] = "cut" /\ Skill(i)' = Skill(i)
    BY <1>1 DEF Open, SkillInv, SkillTypes, Skill
  <2>2. disturbed'[i] = disturbed[i]
    BY DEF Open, SkillInv, SkillTypes
  <2>3. ASSUME NEW k \in DOMAIN selection[i], selection[i][k] # Skill(i), ~disturbed[i]
        PROVE  Passes(i, k)'
    BY <1>1, <2>3 DEF Open, SkillInv, SkillTypes, Knows, Checked, Passes
  <2>4. QED
    BY <1>1, <2>1, <2>2, <2>3
       DEF Open, SkillInv, Knows, UnderWay, Checked, RefusesUntouched
<1>5. QED
  BY <1>2, <1>3, <1>4 DEF SkillInv

\* What a write leaves is a content, and whom it changes something for is told.
LEMMA LeavesKnows ==
  ASSUME SkillInv, NEW i \in Installers, stage[i] # "idle",
         NEW content \in Contents, Leaves(i, content)
  PROVE  /\ file' \in [Skills -> Contents]
         /\ disturbed' \in [Installers -> BOOLEAN]
         /\ file' = [file EXCEPT ![Skill(i)] = content] /\ Skill(i) \in Skills
         /\ disturbed'[i] = disturbed[i]
         /\ \A j \in Installers : j # i /\ ~disturbed'[j] => ~disturbed[j] /\ file' = file
<1>1. Skill(i) \in Skills
  BY DEF SkillInv, SkillTypes, Knows, UnderWay, Skill
<1>2. QED
  BY <1>1 DEF Leaves, SkillInv, SkillTypes

\* A cut file is filled with what was to be written, and any content is one.
LEMMA FilledIsContent ==
  ASSUME NEW before \in Contents, NEW bytes \in {"ours", "cut", "garbled"},
         NEW content \in Filled(before, bytes)
  PROVE  content \in Contents /\ (before = "cut" => content = bytes)
BY DEF Filled, Contents

\* The write that ends leaves a document that would not be refused.
LEMMA FillKeeps ==
  ASSUME SkillInv, NEW i \in Installers, Fill(i)
  PROVE  SkillInv'
<1>1. /\ at[i] \in DOMAIN selection[i] /\ installed[i] = "none" /\ stage[i] = "fill"
      /\ at[i] \in Nat /\ selection[i] \in Seq(Skills) /\ file[Skill(i)] \in Contents
  BY DEF Fill, SkillInv, SkillTypes, Knows, UnderWay, Skill
<1>2. PICK content \in Filled(file[Skill(i)], "ours") : Leaves(i, content)
  BY DEF Fill
<1>3. content \in Contents /\ (file[Skill(i)] = "cut" => content = "ours")
  BY <1>1, <1>2, FilledIsContent
<1>4. /\ file' \in [Skills -> Contents] /\ disturbed' \in [Installers -> BOOLEAN]
      /\ file' = [file EXCEPT ![Skill(i)] = content] /\ Skill(i) \in Skills
      /\ disturbed'[i] = disturbed[i]
      /\ \A j \in Installers : j # i /\ ~disturbed'[j] => ~disturbed[j] /\ file' = file
  BY <1>1, <1>2, <1>3, LeavesKnows
<1>5. Advance(i, "recheck", Finish(i)) /\ UNCHANGED <<selection, force, status, touched>>
  BY DEF Fill
<1>6. SkillTypes'
  <2>1. stage' \in [Installers -> Stages] /\ installed' \in [Installers -> Results]
    BY <1>5 DEF Advance, Finish, EndInstall, SkillInv, SkillTypes, Stages, Results
  <2>2. at' \in [Installers -> Nat]
    BY <1>1, <1>5 DEF Advance, Finish, SkillInv, SkillTypes
  <2>3. QED
    BY <1>4, <1>5, <2>1, <2>2 DEF SkillInv, SkillTypes
<1>7. ASSUME NEW j \in Installers, j # i  PROVE Knows(j)'
  BY <1>4, <1>5, <1>7, OtherKnows DEF Advance, Finish, EndInstall, SkillInv, SkillTypes
<1>8. Knows(i)'
  <2>1. ASSUME ~disturbed[i], NEW k \in DOMAIN selection[i]
        PROVE  Passes(i, k)'
    <3>1. content = "ours" /\ (selection[i][k] # Skill(i) => Passes(i, k))
      BY <1>1, <1>3, <2>1 DEF SkillInv, Knows, Checked
    <3>2. selection[i][k] \in Skills
      BY <1>1
    <3>3. CASE selection[i][k] = Skill(i)
      BY <1>4, <1>5, <3>1, <3>3 DEF Passes, PlannedStatus, SkillInv, SkillTypes
    <3>4. CASE selection[i][k] # Skill(i)
      BY <1>4, <1>5, <3>1, <3>2, <3>4 DEF Passes, SkillInv, SkillTypes
    <3>5. QED
      BY <3>3, <3>4
  <2>2. QED
    BY <1>1, <1>4, <1>5, <1>6, <2>1, AdvanceKeeps
<1>9. QED
  BY <1>6, <1>7, <1>8 DEF SkillInv

\* A write that fails, or a death, is no refusal.
LEMMA EndKeeps ==
  ASSUME SkillInv, NEW i \in Installers, WriteFails(i) \/ CrashInstall(i)
  PROVE  SkillInv'
<1>1. /\ stage[i] # "idle" /\ file[Skill(i)] \in Contents
      /\ UNCHANGED <<selection, force, at, touched>>
  BY DEF WriteFails, CrashInstall, skillHistory, SkillInv, SkillTypes, Knows, UnderWay, Skill
<1>2. \E how \in {"write", "crashed"} : EndInstall(i, how)
  BY DEF WriteFails, CrashInstall
<1>3. /\ file' \in [Skills -> Contents] /\ disturbed' \in [Installers -> BOOLEAN]
      /\ \A j \in Installers : j # i /\ ~disturbed'[j] => ~disturbed[j] /\ file' = file
  <2>1. CASE UNCHANGED <<file, disturbed>>
    BY <2>1 DEF SkillInv, SkillTypes
  <2>2. CASE \E part \in {"cut", "garbled"} :
               \E content \in Filled(file[Skill(i)], part) : Leaves(i, content)
    BY <1>1, <2>2, FilledIsContent, LeavesKnows
  <2>3. QED
    BY <2>1, <2>2 DEF WriteFails, CrashInstall, skillHistory
<1>4. SkillTypes'
  BY <1>1, <1>2, <1>3 DEF EndInstall, SkillInv, SkillTypes, Stages, Results
<1>5. ASSUME NEW j \in Installers, j # i  PROVE Knows(j)'
  BY <1>1, <1>2, <1>3, <1>5, OtherKnows DEF EndInstall, SkillInv, SkillTypes
<1>6. Knows(i)'
  BY <1>2 DEF EndInstall, SkillInv, SkillTypes, Knows, UnderWay, Checked, RefusesUntouched
<1>7. QED
  BY <1>4, <1>5, <1>6 DEF SkillInv

-----------------------------------------------------------------------------
\* No install is under way at the start.
LEMMA SkillInvInit == SkillInit => SkillInv
<1> SUFFICES ASSUME SkillInit PROVE SkillInv
  OBVIOUS
<1>1. SkillTypes
  BY SkillInstallAssumption DEF SkillInit, SkillTypes, Stages, Results
<1>2. QED
  BY <1>1 DEF SkillInit, SkillInv, Knows, UnderWay, Checked, RefusesUntouched

\* Every step of installers and editors keeps what the installs know true.
LEMMA SkillInvStep == SkillInv /\ [SkillNext]_skillVars => SkillInv'
<1> SUFFICES ASSUME SkillInv, [SkillNext]_skillVars
             PROVE  SkillInv'
  OBVIOUS
<1>1. ASSUME NEW s \in Skills, EditSkill(s)
      PROVE  SkillInv'
  <2>1. SkillTypes' /\ \A j \in Installers : disturbed'[j]
    BY <1>1 DEF EditSkill, runVars, SkillInv, SkillTypes, Contents
  <2>2. QED
    BY <1>1, <2>1 DEF EditSkill, runVars, SkillInv, Knows, UnderWay
<1>2. CASE UNCHANGED skillVars
  BY <1>2 DEF skillVars, runVars, skillHistory, SkillInv, SkillTypes, Knows, UnderWay,
              Checked, RefusesUntouched, Passes, Skill
<1>3. QED
  BY <1>1, <1>2, StartKeeps, CheckKeeps, RecheckKeeps, OpenKeeps, FillKeeps, EndKeeps
     DEF SkillNext

\* Whatever the selection and whoever else installs, an install that refuses a
\* skill has touched no file, unless somebody changed one while it ran.
THEOREM RefusalsTouchNothing == SkillSpec => []RefusalTouchesNothing
<1>1. SkillInv => RefusalTouchesNothing
  BY DEF SkillInv, Knows, RefusesUntouched, RefusalTouchesNothing
<1>2. QED
  BY <1>1, SkillInvInit, SkillInvStep, PTL DEF SkillSpec

-----------------------------------------------------------------------------
(* What an install replaces, and what it leaves behind *)

Statuses == {"unchanged", "written", "replaced", "refused"}

\* The skills among the first n whose files the install had to open.
Opened(i, n) == {selection[i][k] : k \in {k \in 1..n : status[i][k] # "unchanged"}}

\* The promise of a run that reports success.
Installed(i) ==
  /\ \A s \in ToSet(selection[i]) : file[s] = "ours"
  /\ Len(status[i]) = Len(selection[i])
  /\ touched[i] = Opened(i, Len(selection[i]))

\* How far an undisturbed install has come: the skills before its place hold
\* the document, and it has opened those that did not before.
Progress(i) ==
  /\ stage[i] = "check" => status[i] = <<>> /\ touched[i] = {}
  /\ stage[i] \in {"recheck", "open", "fill"} =>
       /\ \A k \in 1..(at[i] - 1) : file[selection[i][k]] = "ours"
       /\ Len(status[i]) = IF stage[i] = "recheck" THEN at[i] - 1 ELSE at[i]
       /\ touched[i] = Opened(i, IF stage[i] = "fill" THEN at[i] ELSE at[i] - 1)
  /\ stage[i] \in {"open", "fill"} => status[i][at[i]] # "unchanged" /\ file[Skill(i)] # "ours"
  /\ installed[i] = "success" => Installed(i)

\* Without --force it has replaced no text of somebody else.
Kept(i) == ~force[i] => \A s \in Skills : <<s, "edited">> \notin lost[i]

InstallInv ==
  /\ SkillInv
  /\ status \in [Installers -> Seq(Statuses)]
  /\ DOMAIN lost = Installers
  /\ \A i \in Installers : ~disturbed[i] => Progress(i) /\ Kept(i)

\* The installs other than i's are where they were, or have been disturbed.
OthersGoOn(i) ==
  \A j \in Installers \ {i} :
    /\ stage'[j] = stage[j] /\ selection'[j] = selection[j] /\ force'[j] = force[j]
    /\ at'[j] = at[j] /\ installed'[j] = installed[j] /\ touched'[j] = touched[j]
    /\ status'[j] = status[j] /\ lost'[j] = lost[j]
    /\ ~disturbed'[j] => ~disturbed[j] /\ file' = file

\* A step that is not an installer's own leaves its progress as it is, or has
\* disturbed it.
LEMMA OtherProgress ==
  ASSUME InstallInv, NEW j \in Installers,
         stage'[j] = stage[j], selection'[j] = selection[j], force'[j] = force[j],
         at'[j] = at[j], installed'[j] = installed[j], touched'[j] = touched[j],
         status'[j] = status[j], lost'[j] = lost[j],
         ~disturbed'[j] => ~disturbed[j] /\ file' = file
  PROVE  ~disturbed'[j] => (Progress(j) /\ Kept(j))'
<1> SUFFICES ASSUME ~disturbed'[j]
             PROVE  Progress(j)' /\ Kept(j)'
  OBVIOUS
<1>1. Progress(j) /\ Kept(j) /\ file' = file
  BY DEF InstallInv
<1>2. \A n : Opened(j, n)' = Opened(j, n)
  BY DEF Opened
<1>3. Installed(j)' <=> Installed(j)
  BY <1>1, <1>2 DEF Installed
<1>4. Progress(j)'
  BY <1>1, <1>2, <1>3 DEF Progress, Skill
<1>5. Kept(j)'
  BY <1>1 DEF Kept
<1> QED
  BY <1>4, <1>5

\* A step of one installer keeps the progress of all.
LEMMA ProgressFrame ==
  ASSUME InstallInv, SkillInv', NEW i \in Installers,
         status' \in [Installers -> Seq(Statuses)], DOMAIN lost' = Installers,
         OthersGoOn(i),
         ~disturbed'[i] => (Progress(i) /\ Kept(i))'
  PROVE  InstallInv'
<1>1. ASSUME NEW j \in Installers, j # i
      PROVE  ~disturbed'[j] => (Progress(j) /\ Kept(j))'
  BY <1>1, OtherProgress DEF OthersGoOn
<1> QED
  BY <1>1 DEF InstallInv

\* The place of an install, as plain facts.
LEMMA PlaceIs ==
  ASSUME InstallInv, NEW i \in Installers, stage[i] # "idle"
  PROVE  /\ at[i] \in 1..Len(selection[i]) /\ Len(selection[i]) \in Nat
         /\ DOMAIN selection[i] = 1..Len(selection[i]) /\ selection[i] \in Seq(Skills)
         /\ installed[i] = "none" /\ Skill(i) \in Skills /\ file[Skill(i)] \in Contents
BY DEF InstallInv, SkillInv, SkillTypes, Knows, UnderWay, Skill

\* After the last skill, an install whose skills all hold the document is done.
LEMMA AdvanceProgress ==
  ASSUME InstallInv, NEW i \in Installers, stage[i] # "idle",
         SkillTypes', UNCHANGED <<selection>>,
         Advance(i, "recheck", Finish(i)),
         \A k \in 1..at[i] : file'[selection[i][k]] = "ours",
         Len(status'[i]) = at[i],
         touched'[i] = {selection[i][k] : k \in {k \in 1..at[i] : status'[i][k] # "unchanged"}}
  PROVE  Progress(i)'
<1>0. /\ at[i] \in 1..Len(selection[i]) /\ Len(selection[i]) \in Nat
      /\ DOMAIN selection[i] = 1..Len(selection[i])
      /\ installed[i] = "none"
  BY PlaceIs
<1>1. CASE /\ at' = [at EXCEPT ![i] = @ + 1] /\ at[i] < Len(selection[i])
           /\ stage' = [stage EXCEPT ![i] = "recheck"] /\ UNCHANGED installed
  <2>1. at'[i] = at[i] + 1 /\ stage'[i] = "recheck" /\ at'[i] - 1 = at[i] /\ installed'[i] = "none"
    BY <1>0, <1>1 DEF InstallInv, SkillInv, SkillTypes
  <2> QED
    BY <2>1 DEF Progress, Opened
<1>2. CASE EndInstall(i, "success") /\ at[i] = Len(selection[i])
  <2>1. stage'[i] = "idle"
    BY <1>2 DEF EndInstall, InstallInv, SkillInv, SkillTypes
  <2>2. Installed(i)'
    BY <1>0, <1>2 DEF Installed, Opened, ToSet
  <2> QED
    BY <2>1, <2>2 DEF Progress
<1> QED
  BY <1>0, <1>1, <1>2 DEF Advance, Finish

\* A start begins with an empty record.
LEMMA StartProgress ==
  ASSUME InstallInv, SkillInv', NEW i \in Installers, StartInstall(i)
  PROVE  InstallInv'
<1>1. /\ status' = [status EXCEPT ![i] = <<>>] /\ lost' = [lost EXCEPT ![i] = {}]
      /\ touched' = [touched EXCEPT ![i] = {}] /\ disturbed' = [disturbed EXCEPT ![i] = FALSE]
      /\ file' = file
  BY DEF StartInstall
<1>2. stage'[i] \in {"check", "idle"} /\ installed'[i] \in {"none", "usage"}
  BY DEF StartInstall, InstallInv, SkillInv, SkillTypes
<1>3. Progress(i)' /\ Kept(i)'
  BY <1>1, <1>2 DEF InstallInv, SkillInv, SkillTypes, Progress, Kept
<1>4. OthersGoOn(i)
  BY <1>1 DEF StartInstall, OthersGoOn, InstallInv, SkillInv, SkillTypes
<1>5. status' \in [Installers -> Seq(Statuses)] /\ DOMAIN lost' = Installers
  BY <1>1 DEF InstallInv
<1> QED
  BY <1>3, <1>4, <1>5, ProgressFrame

\* The first pass writes nothing and finds nothing.
LEMMA CheckProgress ==
  ASSUME InstallInv, SkillInv', NEW i \in Installers, CheckSkill(i)
  PROVE  InstallInv'
<1>1. UNCHANGED <<file, selection, force, status, disturbed, touched, lost>> /\ stage[i] = "check"
  BY DEF CheckSkill, skillHistory
<1>2. installed[i] = "none"
  BY <1>1, PlaceIs
<1>3. \/ stage'[i] = "idle" /\ installed'[i] = "refused"
      \/ stage'[i] = "check" /\ installed'[i] = "none"
      \/ stage'[i] = "recheck" /\ installed'[i] = "none" /\ at'[i] = 1
  BY <1>2 DEF CheckSkill, Advance, EndInstall, InstallInv, SkillInv, SkillTypes
<1>4. ~disturbed'[i] => (Progress(i) /\ Kept(i))'
  <2> SUFFICES ASSUME ~disturbed[i]
               PROVE  Progress(i)' /\ Kept(i)'
    BY <1>1
  <2>1. status[i] = <<>> /\ touched[i] = {} /\ Kept(i)
    BY <1>1 DEF InstallInv, Progress
  <2>2. Kept(i)'
    BY <1>1, <2>1 DEF Kept
  <2>3. Progress(i)'
    BY <1>1, <1>3, <2>1 DEF Progress, Opened
  <2> QED
    BY <2>2, <2>3
<1>5. OthersGoOn(i)
  BY <1>1 DEF CheckSkill, Advance, EndInstall, OthersGoOn, InstallInv, SkillInv, SkillTypes
<1> QED
  BY <1>1, <1>4, <1>5, ProgressFrame DEF InstallInv

\* The second pass counts a document that is there and prepares the others.
LEMMA RecheckProgress ==
  ASSUME InstallInv, SkillInv', NEW i \in Installers, Recheck(i)
  PROVE  InstallInv'
<1> DEFINE planned == PlannedStatus(file[Skill(i)], force[i])
<1>1. UNCHANGED <<file, selection, force, disturbed, touched, lost>> /\ stage[i] = "recheck"
  BY DEF Recheck, skillHistory
<1>2. /\ at[i] \in 1..Len(selection[i]) /\ Len(selection[i]) \in Nat
      /\ DOMAIN selection[i] = 1..Len(selection[i])
      /\ installed[i] = "none" /\ file[Skill(i)] \in Contents
  BY <1>1, PlaceIs
<1>3. planned \in Statuses /\ (planned = "unchanged" <=> file[Skill(i)] = "ours")
  BY DEF PlannedStatus, Statuses
<1>4. status' \in [Installers -> Seq(Statuses)]
  <2>1. \/ status' = status
        \/ status' = [status EXCEPT ![i] = Append(status[i], planned)]
    BY DEF Recheck
  <2>2. status \in [Installers -> Seq(Statuses)]
    BY DEF InstallInv
  <2> HIDE DEF planned
  <2>3. Append(status[i], planned) \in Seq(Statuses)
    BY <1>3, <2>2
  <2> QED
    BY <2>1, <2>2, <2>3
<1>5. ~disturbed'[i] => (Progress(i) /\ Kept(i))'
  <2> SUFFICES ASSUME ~disturbed[i]
               PROVE  Progress(i)' /\ Kept(i)'
    BY <1>1
  <2>1. /\ \A k \in 1..(at[i] - 1) : file[selection[i][k]] = "ours"
        /\ Len(status[i]) = at[i] - 1 /\ touched[i] = Opened(i, at[i] - 1)
        /\ status[i] \in Seq(Statuses) /\ Kept(i)
    BY <1>1 DEF InstallInv, Progress
  <2>2. Kept(i)'
    BY <1>1, <2>1 DEF Kept
  <2>3. ASSUME status' = [status EXCEPT ![i] = Append(@, planned)]
        PROVE  /\ Len(status'[i]) = at[i] /\ status'[i][at[i]] = planned
               /\ \A k \in 1..(at[i] - 1) : status'[i][k] = status[i][k]
    <3>1. status'[i] = Append(status[i], planned)
      BY <2>3 DEF InstallInv
    <3> HIDE DEF planned
    <3> QED
      BY <1>2, <1>3, <2>1, <3>1
  <2>4. CASE EndInstall(i, "refused") /\ UNCHANGED <<at, status>>
    <3>1. stage'[i] = "idle" /\ installed'[i] = "refused"
      BY <2>4 DEF EndInstall, InstallInv, SkillInv, SkillTypes
    <3> QED
      BY <2>2, <3>1 DEF Progress
  <2>5. CASE /\ planned = "unchanged" /\ status' = [status EXCEPT ![i] = Append(@, planned)]
             /\ Advance(i, "recheck", Finish(i))
    <3>1. \A k \in 1..at[i] : file'[selection[i][k]] = "ours"
      BY <1>1, <1>2, <1>3, <2>1, <2>5 DEF Skill
    <3>2. touched'[i] = {selection[i][k] : k \in {k \in 1..at[i] : status'[i][k] # "unchanged"}}
      BY <1>1, <1>2, <2>1, <2>3, <2>5 DEF Opened
    <3> QED
      BY <1>1, <2>2, <2>3, <2>5, <3>1, <3>2, AdvanceProgress DEF SkillInv
  <2>6. CASE /\ planned # "unchanged" /\ status' = [status EXCEPT ![i] = Append(@, planned)]
             /\ stage' = [stage EXCEPT ![i] = "open"] /\ UNCHANGED <<at, installed>>
    <3>1. stage'[i] = "open" /\ at'[i] = at[i] /\ installed'[i] = "none" /\ Skill(i)' = Skill(i)
      BY <1>1, <1>2, <2>6 DEF InstallInv, SkillInv, SkillTypes, Skill
    <3>2. Opened(i, at[i] - 1)' = Opened(i, at[i] - 1)
      BY <1>1, <2>3, <2>6 DEF Opened
    <3> QED
      BY <1>1, <1>3, <2>1, <2>2, <2>3, <2>6, <3>1, <3>2 DEF Progress
  <2> QED
    BY <2>4, <2>5, <2>6 DEF Recheck
<1>6. OthersGoOn(i)
  <2>1. \E entry : status' = status \/ status' = [status EXCEPT ![i] = entry]
    BY DEF Recheck
  <2>2. \A j \in Installers \ {i} : status'[j] = status[j]
    BY <2>1 DEF InstallInv
  <2>3. \A j \in Installers \ {i} :
          stage'[j] = stage[j] /\ at'[j] = at[j] /\ installed'[j] = installed[j]
    BY DEF Recheck, Advance, Finish, EndInstall, InstallInv, SkillInv, SkillTypes
  <2> QED
    BY <1>1, <2>2, <2>3 DEF OthersGoOn
<1> QED
  BY <1>1, <1>4, <1>5, <1>6, ProgressFrame DEF InstallInv

\* What is opened is one of the files the checks let pass, so without --force no
\* readable text of somebody else.
LEMMA OpenProgress ==
  ASSUME InstallInv, SkillInv', NEW i \in Installers, Open(i)
  PROVE  InstallInv'
<1>1. /\ stage[i] = "open" /\ UNCHANGED <<selection, force, at, status, installed>>
      /\ file' = [file EXCEPT ![Skill(i)] = "cut"]
      /\ stage' = [stage EXCEPT ![i] = "fill"]
      /\ disturbed' = [j \in Installers |-> disturbed[j] \/ j # i]
      /\ touched' = [touched EXCEPT ![i] = @ \cup {Skill(i)}]
      /\ \E more : lost' = [lost EXCEPT ![i] = more]
  BY DEF Open
<1>2. /\ at[i] \in 1..Len(selection[i]) /\ Len(selection[i]) \in Nat
      /\ DOMAIN selection[i] = 1..Len(selection[i]) /\ selection[i] \in Seq(Skills)
      /\ installed[i] = "none" /\ Skill(i) \in Skills
  BY <1>1, PlaceIs
<1>3. ~disturbed'[i] => (Progress(i) /\ Kept(i))'
  <2> SUFFICES ASSUME ~disturbed[i]
               PROVE  Progress(i)' /\ Kept(i)'
    BY <1>1
  <2>1. /\ \A k \in 1..(at[i] - 1) : file[selection[i][k]] = "ours"
        /\ Len(status[i]) = at[i] /\ touched[i] = Opened(i, at[i] - 1)
        /\ status[i][at[i]] # "unchanged" /\ file[Skill(i)] # "ours" /\ Kept(i)
    BY <1>1 DEF InstallInv, Progress
  <2>2. Kept(i)'
    <3>1. ASSUME ~force[i]
          PROVE  file[Skill(i)] # "edited"
      BY <1>1, <1>2, <2>1, <3>1
         DEF InstallInv, SkillInv, Knows, Checked, Passes, PlannedStatus, Skill
    <3>2. lost'[i] = IF file[Skill(i)] \in {"edited", "garbled"}
                     THEN lost[i] \cup {<<Skill(i), file[Skill(i)]>>} ELSE lost[i]
      BY DEF Open, InstallInv
    <3>3. ASSUME ~force[i], NEW s \in Skills
          PROVE  <<s, "edited">> \notin lost'[i]
      <4>1. <<s, "edited">> \notin lost[i]
        BY <2>1, <3>3 DEF Kept
      <4>2. <<s, "edited">> # <<Skill(i), file[Skill(i)]>>
        BY <3>1, <3>3
      <4> QED
        BY <3>2, <4>1, <4>2
    <3> QED
      BY <1>1, <3>3 DEF Kept
  <2>3. /\ stage'[i] = "fill" /\ at'[i] = at[i] /\ installed'[i] = "none"
        /\ Skill(i)' = Skill(i) /\ file'[Skill(i)] = "cut"
    BY <1>1, <1>2 DEF InstallInv, SkillInv, SkillTypes, Skill
  <2>4. \A k \in 1..(at[i] - 1) : file'[selection[i][k]] = "ours"
    BY <1>1, <1>2, <2>1 DEF InstallInv, SkillInv, SkillTypes
  <2>5. touched'[i] = Opened(i, at[i])'
    <3>1. touched'[i] = touched[i] \cup {selection[i][at[i]]}
      BY <1>1 DEF InstallInv, SkillInv, SkillTypes, Skill
    <3>2. Opened(i, at[i])' = Opened(i, at[i] - 1) \cup {selection[i][at[i]]}
      BY <1>1, <1>2, <2>1 DEF Opened
    <3> QED
      BY <2>1, <3>1, <3>2
  <2> QED
    BY <1>1, <2>1, <2>2, <2>3, <2>4, <2>5 DEF Progress
<1>4. OthersGoOn(i)
  BY <1>1 DEF OthersGoOn, InstallInv, SkillInv, SkillTypes
<1> QED
  BY <1>1, <1>3, <1>4, ProgressFrame DEF InstallInv

\* The write that ends leaves the document, so one skill more holds it.
LEMMA FillProgress ==
  ASSUME InstallInv, SkillInv', NEW i \in Installers, Fill(i)
  PROVE  InstallInv'
<1>1. /\ stage[i] = "fill" /\ UNCHANGED <<selection, force, status, touched, lost>>
      /\ Advance(i, "recheck", Finish(i))
  BY DEF Fill
<1>2. /\ at[i] \in 1..Len(selection[i]) /\ Len(selection[i]) \in Nat
      /\ DOMAIN selection[i] = 1..Len(selection[i]) /\ selection[i] \in Seq(Skills)
      /\ file[Skill(i)] \in Contents
  BY <1>1, PlaceIs
<1>3. PICK content \in Filled(file[Skill(i)], "ours") : Leaves(i, content)
  BY DEF Fill
<1>4. content \in Contents /\ (file[Skill(i)] = "cut" => content = "ours")
  BY <1>2, <1>3, FilledIsContent
<1>5. /\ file' = [file EXCEPT ![Skill(i)] = content] /\ Skill(i) \in Skills
      /\ disturbed'[i] = disturbed[i]
      /\ \A j \in Installers : j # i /\ ~disturbed'[j] => ~disturbed[j] /\ file' = file
  BY <1>1, <1>3, <1>4, LeavesKnows DEF InstallInv
<1>6. ~disturbed'[i] => (Progress(i) /\ Kept(i))'
  <2> SUFFICES ASSUME ~disturbed[i]
               PROVE  Progress(i)' /\ Kept(i)'
    BY <1>5
  <2>1. /\ \A k \in 1..(at[i] - 1) : file[selection[i][k]] = "ours"
        /\ Len(status[i]) = at[i] /\ touched[i] = Opened(i, at[i]) /\ Kept(i)
        /\ file[Skill(i)] = "cut"
    BY <1>1 DEF InstallInv, Progress, SkillInv, Knows, Checked
  <2>2. \A k \in 1..at[i] : file'[selection[i][k]] = "ours"
    BY <1>2, <1>4, <1>5, <2>1 DEF InstallInv, SkillInv, SkillTypes, Skill
  <2>3. touched'[i] = {selection[i][k] : k \in {k \in 1..at[i] : status'[i][k] # "unchanged"}}
    BY <1>1, <2>1 DEF Opened
  <2>4. Progress(i)'
    BY <1>1, <2>1, <2>2, <2>3, AdvanceProgress DEF SkillInv
  <2> QED
    BY <1>1, <2>1, <2>4 DEF Kept
<1>7. OthersGoOn(i)
  BY <1>1, <1>5 DEF OthersGoOn, Advance, Finish, EndInstall, InstallInv, SkillInv, SkillTypes
<1> QED
  BY <1>1, <1>6, <1>7, ProgressFrame DEF InstallInv

\* A write that fails, or a death, ends an install without a report of success.
LEMMA EndProgress ==
  ASSUME InstallInv, SkillInv', NEW i \in Installers, WriteFails(i) \/ CrashInstall(i)
  PROVE  InstallInv'
<1>1. /\ stage[i] # "idle" /\ UNCHANGED <<selection, force, at, status, touched, lost>>
      /\ \E how \in {"write", "crashed"} : EndInstall(i, how)
  BY DEF WriteFails, CrashInstall, skillHistory
<1>2. /\ disturbed'[i] = disturbed[i]
      /\ \A j \in Installers : j # i /\ ~disturbed'[j] => ~disturbed[j] /\ file' = file
  <2>1. CASE UNCHANGED <<file, disturbed>>
    BY <2>1
  <2>2. CASE \E part \in {"cut", "garbled"} :
               \E content \in Filled(file[Skill(i)], part) : Leaves(i, content)
    BY <1>1, <2>2, PlaceIs, FilledIsContent, LeavesKnows DEF InstallInv
  <2> QED
    BY <2>1, <2>2 DEF WriteFails, CrashInstall, skillHistory
<1>3. ~disturbed'[i] => (Progress(i) /\ Kept(i))'
  <2>1. stage'[i] = "idle" /\ installed'[i] \in {"write", "crashed"}
    BY <1>1 DEF EndInstall, InstallInv, SkillInv, SkillTypes
  <2> QED
    BY <1>1, <1>2, <2>1 DEF InstallInv, Progress, Kept
<1>4. OthersGoOn(i)
  BY <1>1, <1>2 DEF OthersGoOn, EndInstall, InstallInv, SkillInv, SkillTypes
<1> QED
  BY <1>1, <1>3, <1>4, ProgressFrame DEF InstallInv

\* At the start no install is under way.
LEMMA InstallInvInit == SkillInit => InstallInv
<1> SUFFICES ASSUME SkillInit
             PROVE  InstallInv
  OBVIOUS
<1>1. SkillInv
  BY SkillInvInit
<1>2. status \in [Installers -> Seq(Statuses)] /\ DOMAIN lost = Installers
  BY DEF SkillInit
<1>3. \A i \in Installers : Progress(i) /\ Kept(i)
  BY DEF SkillInit, Progress, Kept
<1> QED
  BY <1>1, <1>2, <1>3 DEF InstallInv

\* Every step of installers and editors keeps InstallInv.
LEMMA InstallInvStep == InstallInv /\ [SkillNext]_skillVars => InstallInv'
<1> SUFFICES ASSUME InstallInv, [SkillNext]_skillVars
             PROVE  InstallInv'
  OBVIOUS
<1>1. SkillInv'
  BY SkillInvStep DEF InstallInv
<1>2. ASSUME NEW s \in Skills, EditSkill(s)
      PROVE  InstallInv'
  BY <1>1, <1>2 DEF EditSkill, runVars, InstallInv
<1>3. CASE UNCHANGED skillVars
  <2>1. \A i \in Installers : ~disturbed'[i] => (Progress(i) /\ Kept(i))'
    BY <1>3, OtherProgress DEF skillVars, runVars, skillHistory
  <2> QED
    BY <1>1, <1>3, <2>1 DEF skillVars, runVars, skillHistory, InstallInv
<1> QED
  BY <1>1, <1>2, <1>3, StartProgress, CheckProgress, RecheckProgress, OpenProgress,
     FillProgress, EndProgress DEF SkillNext

\* Without --force an install never replaces a readable text of somebody else
\* that was there when it began.
THEOREM EditsAreKept == SkillSpec => []EditsKept
<1>1. InstallInv => EditsKept
  BY DEF InstallInv, Kept, EditsKept
<1> QED
  BY <1>1, InstallInvInit, InstallInvStep, PTL DEF SkillSpec

\* Whatever the selection, a run that reports success leaves the document of this
\* build in every directory, and reports as unchanged what it never opened.
THEOREM SuccessMeansInstalled == SkillSpec => []SuccessInstalls
<1>1. ASSUME InstallInv
      PROVE  SuccessInstalls
  <2> SUFFICES ASSUME NEW i \in Installers, installed[i] = "success", ~disturbed[i]
               PROVE  /\ \A s \in ToSet(selection[i]) : file[s] = "ours"
                      /\ Len(status[i]) = Len(selection[i])
                      /\ touched[i] = {selection[i][k] :
                           k \in {k \in DOMAIN status[i] : status[i][k] # "unchanged"}}
    BY DEF SuccessInstalls
  <2>1. Installed(i) /\ status[i] \in Seq(Statuses)
    BY <1>1 DEF InstallInv, Progress
  <2>2. DOMAIN status[i] = 1..Len(selection[i])
    BY <2>1 DEF Installed
  <2> QED
    BY <2>1, <2>2 DEF Installed, Opened
<1> QED
  BY <1>1, InstallInvInit, InstallInvStep, PTL DEF SkillSpec

=============================================================================
