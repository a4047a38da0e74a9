------------------------------ MODULE MCCommands ------------------------------
(***************************************************************************)
(* Small instances of SkillInstall, Spawn, Configuration and CommandReport *)
(* for TLC, in one run: they share no variable, so `scene` says which of   *)
(* them moves and the others stay where they start.                        *)
(***************************************************************************)
EXTENDS SkillInstall, Spawn, Configuration, CommandReport

CONSTANTS a, b, z, i1, i2, s1, s2, c1, c2, box, bot   \* model values

VARIABLE scene

-----------------------------------------------------------------------------
(* Skills: two installers, two skills; whole, partial, repeated and        *)
(* unknown selections                                                      *)

MCSkills     == <<a, b>>
MCSelections == {<<>>, <<b>>, <<a, a>>, <<a, z>>}

-----------------------------------------------------------------------------
(* Spawn: two spawners that may ask for the same name, two policies that   *)
(* adopt the stamp                                                         *)

MCRegex == [v \in {} |-> {}]
MCRank  == [v \in {} |-> 0]

SandboxRule(name, labels) ==
  [name |-> name, scope |-> "owned", select |-> [labels |-> labels, names |-> {}],
   running_ttl |-> None, stopped_ttl |-> None]

Adopting(rules) ==
  [protect |-> [labels |-> {}, names |-> {}], cache |-> None,
   rules |-> [k \in Kinds |-> IF k = "container" THEN rules ELSE <<>>]]

ByStamp == SandboxRule("managed", {<<managed_key, "true">>})
ByOwner   == SandboxRule("owned", {<<<<agent_namespace, "owner">>, bot>>})

\* Stopped ones at once and running ones after two seconds; an owner's rule
\* before the one for all.
MCPolicies ==
  {Adopting(<<[ByStamp EXCEPT !.stopped_ttl = 0, !.running_ttl = 2000]>>),
   Adopting(<<[ByOwner EXCEPT !.stopped_ttl = 2000], [ByStamp EXCEPT !.stopped_ttl = 1000]>>)}

-----------------------------------------------------------------------------
(* Configuration: a sound policy, the same one with each single defect a   *)
(* rule or a table can have, and two places that hold all kinds of files   *)

MCTexts   == {"", "a", "b", "("}
MCBlank   == {""}
MCBad     == {"("}
MCGlobs   == [t \in MCTexts |-> IF t = "a" THEN {"agent=1", "a"} ELSE {}]
\* A blank expression and a blank name part are in every name.
MCNames       == {"a", "b", "c"}
MCExpressions == [t \in MCTexts |-> IF t = "" THEN MCNames ELSE {t} \cap MCNames]
MCParts       == MCExpressions

NoSelectors == [labels |-> {}, names |-> {}, parts |-> {}]
ByLabel == [NoSelectors EXCEPT !.labels = {"a"}]
Common  == [id |-> None, name |-> "a", select |-> ByLabel, scope |-> "owned", allow_unscoped |-> FALSE]

\* The common part of a rule with nothing, or one thing, wrong.
Commons ==
  {Common,
   [Common EXCEPT !.select.names = {"b"}], [Common EXCEPT !.select.parts = {"b"}],
   [Common EXCEPT !.scope = "all", !.allow_unscoped = TRUE],
   [Common EXCEPT !.scope = "all"], [Common EXCEPT !.allow_unscoped = TRUE],
   [Common EXCEPT !.id = ""], [Common EXCEPT !.id = "a"], [Common EXCEPT !.name = ""],
   [Common EXCEPT !.select = NoSelectors],
   [Common EXCEPT !.select.labels = {"a", ""}], [Common EXCEPT !.select.labels = {"a", "("}],
   [Common EXCEPT !.select.names = {""}], [Common EXCEPT !.select.names = {"("}],
   [Common EXCEPT !.select.parts = {""}], [Common EXCEPT !.select.parts = {"("}]}

Container(common) == [common |-> common, stopped_ttl |-> 1000, running_ttl |-> None]
Image(common) ==
  [common |-> common, dangling |-> TRUE, unused_for |-> 1000, image_tag_patterns |-> {"a"}]
Volume(common)  == [common |-> common, orphan_for |-> 1000]
Network(common) == [common |-> common, orphan |-> TRUE, orphan_for |-> 1000]
Cache == [id |-> None, older_than |-> 1000, max_bytes |-> None, allow_unscoped |-> TRUE]

Empty ==
  [interval |-> None, refresh |-> None, protect |-> [labels |-> {}, names |-> {}],
   containers |-> <<>>, images |-> <<>>, volumes |-> <<>>, networks |-> <<>>, build_cache |-> None]
Sound == [Empty EXCEPT !.interval = 1000, !.protect.names = {"b"},
                       !.containers = <<Container(Common)>>, !.build_cache = Cache]

Faulty(duration) == {duration, 0, Unparsed}
Plain ==
  UNION {{[Empty EXCEPT !.containers = <<Container(c)>>], [Empty EXCEPT !.images = <<Image(c)>>],
          [Empty EXCEPT !.volumes = <<Volume(c)>>], [Empty EXCEPT !.networks = <<Network(c)>>]} :
            c \in Commons}
Timed ==
  UNION {{[Empty EXCEPT !.interval = d], [Empty EXCEPT !.refresh = d],
          [Empty EXCEPT !.containers = <<[Container(Common) EXCEPT !.stopped_ttl = d]>>],
          [Empty EXCEPT !.containers = <<[Container(Common) EXCEPT !.running_ttl = d]>>],
          [Empty EXCEPT !.images = <<[Image(Common) EXCEPT !.unused_for = d]>>],
          [Empty EXCEPT !.volumes = <<[Volume(Common) EXCEPT !.orphan_for = d]>>],
          [Empty EXCEPT !.networks = <<[Network(Common) EXCEPT !.orphan_for = d]>>],
          [Empty EXCEPT !.build_cache = [Cache EXCEPT !.older_than = d]]} : d \in Faulty(1000)}
Protecting ==
  UNION {{[Sound EXCEPT !.protect.names = {t}], [Sound EXCEPT !.protect.labels = {t}]} : t \in MCTexts}
Tagged == {[Empty EXCEPT !.images = <<[Image(Common) EXCEPT !.image_tag_patterns = {t}]>>] : t \in MCTexts}
Caching ==
  {[Empty EXCEPT !.build_cache = c] :
     c \in {[Cache EXCEPT !.allow_unscoped = FALSE], [Cache EXCEPT !.older_than = None],
            [Cache EXCEPT !.older_than = None, !.max_bytes = 5], [Cache EXCEPT !.id = ""]}}
\* Two rules of two kinds, with ids that differ or do not, and an order of rules.
Paired ==
  {[Empty EXCEPT !.volumes = <<Volume([Common EXCEPT !.id = "a"])>>,
                 !.build_cache = [Cache EXCEPT !.id = t]] : t \in {"a", "b"}}
  \cup {[Empty EXCEPT !.containers = <<Container([Common EXCEPT !.scope = "all", !.allow_unscoped = TRUE]),
                                       Container([Common EXCEPT !.select.parts = {"b"}])>>]}

\* A sound policy whose daemon would not pause.
Restless == [Sound EXCEPT !.interval = 0]

MCConfigs == {Empty, Sound, Restless} \cup Plain \cup Timed \cup Protecting \cup Tagged \cup Caching \cup Paired

\* Every configuration alone in one place, and all mixtures of a few sources.
Nowhere == [p \in Places |-> Missing]
MCInitFiles ==
  {[Nowhere EXCEPT !["local"] = c] : c \in MCConfigs}
  \cup [Places -> {Missing, Folder, Garbled, Sound}]
  \cup {[f EXCEPT !["local"] = Locked] : f \in [Places -> {Missing, Sound}]}
MCEditedTo  == {Missing, Garbled, Sound}
MCProposals == {Empty, Sound, Restless}

Object(kind, names, labels) ==
  [kind |-> kind, id |-> "c", name |-> "c", names |-> names, labels |-> labels,
   state |-> "stopped", since |-> 0, created |-> 0, size |-> None,
   referenced |-> FALSE, dangling |-> FALSE, system |-> FALSE]
\* An item of each kind that a selector names, one that none names, and a network
\* of the engine's own.
MCItems ==
  UNION {{Object(k, {"a"}, {"agent=1"}), Object(k, {"b"}, {}), Object(k, {"c"}, {})} : k \in Kinds}
  \cup {[Object("network", {"c"}, {}) EXCEPT !.system = TRUE]}

-----------------------------------------------------------------------------
Symmetry == Permutations(Installers) \cup Permutations(Spawners) \cup Permutations(Ids)

Init ==
  /\ scene \in {"skills", "spawn", "configuration", "report"}
  /\ SkillInit         /\ (scene # "skills" => file = [s \in Skills |-> "absent"])
  /\ SpawnInit         /\ (scene # "spawn" => cfg = CHOOSE p \in Policies : TRUE)
                       /\ (scene # "spawn" => image)
  /\ ConfigurationInit /\ (scene # "configuration" => files = Nowhere /\ ~env.xdg /\ ~env.home)
  /\ ReportInit        /\ (scene # "report" => verb = "stamp" /\ ~json)

Next ==
  /\ \/ scene = "skills" /\ SkillNext /\ UNCHANGED <<spawnVars, configurationVars, reportVars>>
     \/ scene = "spawn" /\ SpawnNext /\ UNCHANGED <<skillVars, configurationVars, reportVars>>
     \/ scene = "configuration" /\ ConfigurationNext /\ UNCHANGED <<skillVars, spawnVars, reportVars>>
     \/ scene = "report" /\ ReportNext /\ UNCHANGED <<skillVars, spawnVars, configurationVars>>
  /\ UNCHANGED scene

vars == <<scene, skillVars, spawnVars, configurationVars, reportVars>>

Spec == Init /\ [][Next]_vars

=============================================================================
