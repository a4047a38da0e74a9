------------------------------ MODULE MCExecutor ------------------------------
(***************************************************************************)
(* Small instances of Executor for TLC.                                    *)
(***************************************************************************)
EXTENDS Executor

CONSTANTS e1, e2, k1, k2   \* model values: two editors and two cleaners

MCRank == [i \in {"b1", "b2", "tag1", "tag2"} |-> IF i \in {"b1", "tag1"} THEN 1 ELSE 2]

MCRegex == [v \in {"box", "v1", "n1", "tag1", "keep=1"} |->
              IF v = "box" THEN {"box"} ELSE {}]

Object(kind, id, names) ==
  [kind |-> kind, id |-> id, name |-> id, names |-> names \cup {id}, labels |-> {},
   state |-> "available", since |-> None, created |-> 0, size |-> None,
   referenced |-> FALSE, dangling |-> FALSE, system |-> FALSE,
   uses |-> {}, parents |-> {}]

\* A stopped sandbox container that holds a volume, the same one without it,
\* and the same one started.
Box == [Object("container", "c1", {"box"}) EXCEPT
          !.state = "stopped", !.since = 0, !.uses = {"v1"}, !.labels = {"agent=1"}]
Loose == [Box EXCEPT !.uses = {}]
BoxStarted == [Box EXCEPT !.state = "running"]
\* A volume, and another one that later takes its name.
Volume == [Object("volume", "v1", {}) EXCEPT !.labels = {"agent=1"}]
VolumeAgain == [Volume EXCEPT !.created = 1, !.labels = {"keep=1"}]
Network == [Object("network", "n1", {"net"}) EXCEPT !.name = "net", !.labels = {"agent=1"}]

Rule(name, select) ==
  [name |-> name, scope |-> "owned", select |-> select,
   running_ttl |-> None, stopped_ttl |-> None, dangling |-> FALSE, tags |-> {},
   unused_for |-> None, orphan |-> FALSE, orphan_for |-> None]

Agents == [labels |-> {"agent=1"}, names |-> {}]
Nothing == [labels |-> {}, names |-> {}]

NoRules == [k \in Kinds |-> <<>>]

\* Stopped sandboxes at once, their volumes after a second unattached.
Sweep ==
  [protect |-> Nothing, cache |-> None,
   rules |-> [NoRules EXCEPT
     !["container"] = <<[Rule("boxes", Agents) EXCEPT !.stopped_ttl = 1000]>>,
     !["volume"] = <<[Rule("volumes", Agents) EXCEPT !.orphan_for = 1000]>>]]

\* The file; people also break it and mend it.
MCConfigs == {[text |-> "plain", protect |-> Sweep.protect, cache |-> Sweep.cache, rules |-> Sweep.rules]}

MCObjects == {Box, BoxStarted, Volume, VolumeAgain}
MCInitDocker == {[c1 |-> Box, v1 |-> Volume], [c1 |-> Loose, v1 |-> Volume]}

Observed(kind, id) == [kind |-> kind, id |-> id, created |-> 0, first |-> 0]
MCHistories == {{}, {Observed("volume", "v1")}}

ProtectBox    == [kind |-> "container", value |-> "box"]
ProtectVolume == [kind |-> "volume", value |-> "v1"]
ProtectLabel  == [kind |-> "label", value |-> "keep=1"]

MCUpdates ==
  {[op |-> "add", entries |-> {ProtectBox}], [op |-> "remove", entries |-> {ProtectBox}],
   [op |-> "add", entries |-> {ProtectVolume, ProtectLabel}]}
MCUpgrade == [op |-> "upgrade", entries |-> {}]
MCUpdatesAndUpgrade == MCUpdates \cup {MCUpgrade}
MCInitEntries == {{}}
MCIds == {"c1", "v1"}

\* ---- A smaller engine for two cleaners and for liveness ----
MCSmallObjects == {Box, Volume}
\* Floors below a second are met at once, so two passes need no clock.
MCHasty ==
  {[text |-> "hasty", protect |-> Nothing, cache |-> None,
    rules |-> [NoRules EXCEPT
      !["container"] = <<[Rule("boxes", Agents) EXCEPT !.stopped_ttl = 500]>>,
      !["volume"] = <<[Rule("volumes", Agents) EXCEPT !.orphan_for = 500]>>]]}
MCHastyDocker == {[c1 |-> Loose, v1 |-> Volume]}
MCVolumeUpdates ==
  {[op |-> "add", entries |-> {ProtectVolume}], [op |-> "remove", entries |-> {ProtectVolume}],
   MCUpgrade}
MCNoHistory == {{}}

\* ---- Images: one image with two tags, a network, a container that uses both ----
Image1 == Object("image", "i1", {"tag1", "tag2"})
User == [Object("container", "c1", {"box"}) EXCEPT !.state = "running", !.since = 0, !.uses = {"i1", "net"}]
ImageRule ==
  [Rule("images", [labels |-> {}, names |-> {"tag2"}]) EXCEPT
     !.tags = {"tag1", "tag2"}, !.unused_for = 1000]
NetworkRule == [Rule("networks", Agents) EXCEPT !.orphan = TRUE, !.orphan_for = 1000]

ProtectTag == [kind |-> "image", value |-> "tag1"]

\* ---- Build cache: a record, its child, and one in use ----
Cache(id, parents) ==
  [Object("build-cache", id, {}) EXCEPT !.state = "other", !.since = 0, !.size = 1, !.parents = parents]
CacheBase == Cache("b1", {})
CacheChild == Cache("b2", {"b1"})
CacheBusy == [CacheBase EXCEPT !.referenced = TRUE]

\* ---- The kinds together: an image, a network, two cache records ----
MCKindsConfigs ==
  {[text |-> "kinds", protect |-> Nothing, cache |-> [older_than |-> 1000, max_bytes |-> 1],
    rules |-> [NoRules EXCEPT !["image"] = <<ImageRule>>, !["network"] = <<NetworkRule>>]]}
MCKindsIds == {"i1", "n1", "b1", "b2"}
Absent == [i \in MCIds \cup MCKindsIds |-> None]
MCKindsDocker ==
  {[i1 |-> Image1, n1 |-> Network, b1 |-> CacheBase, b2 |-> CacheChild] @@ Absent}

\* ---- The two scenes in one instance ----
MCAllIds == DOMAIN Absent
MCAllDocker == {contents @@ Absent : contents \in MCInitDocker} \cup MCKindsDocker
MCAllObjects == MCObjects \cup {User, CacheBusy}
MCAllConfigs == MCConfigs \cup MCKindsConfigs
MCAllHistories ==
  {{}, {Observed("volume", "v1"), Observed("image", "i1"), Observed("network", "n1")}}
MCAllUpdates ==
  {[op |-> "add", entries |-> {ProtectBox, ProtectTag}],
   [op |-> "remove", entries |-> {ProtectBox, ProtectTag}],
   [op |-> "add", entries |-> {ProtectVolume, ProtectLabel}], MCUpgrade}

\* Bounds what is explored: each scene keeps its objects and its policy, and
\* the second one is without lost answers, crashes, a newer schema and clients
\* that remove things.
Apart ==
  \/ /\ config \in MCConfigs \cup {Broken}
     /\ \A i \in Ids : docker[i] \in MCObjects \cup {Loose, None}
  \/ /\ config \in MCKindsConfigs \cup {Broken}
     /\ docker["v1"] = None /\ docker["c1"] \in {None, User}
     /\ \A i \in MCKindsIds : docker[i] = None => \E x \in removed : x.id = i
     /\ protection # Unreadable /\ ProtectLabel \notin protection
     /\ \A e \in Editors : draft[e] \in {Nobody, {}, {ProtectBox, ProtectTag}}
     /\ stray = {}
     /\ \A c \in Cleaners : pc[c] # "crashed" /\ (pc[c] \notin {"idle", "failed"} \cup Planning => plan[c].obs # {})

=============================================================================
