----------------------------- MODULE MCTuiSession -----------------------------
(***************************************************************************)
(* A small instance of TuiSession for TLC: two containers of one Compose   *)
(* project, and a cache record.                                            *)
(***************************************************************************)
EXTENDS TuiSession

Item(kind, id, name, labels, state, since) ==
  [kind |-> kind, id |-> id, name |-> name, names |-> {id, name}, labels |-> labels,
   state |-> state, since |-> since, created |-> 0, size |-> 1,
   referenced |-> FALSE, system |-> FALSE]

Web == Item("container", "c1", "web", {"project=a"}, "stopped", 0)
Box == Item("container", "c2", "box", {"project=a"}, "running", 0)
Record == Item("build-cache", "b1", "b1", {}, "other", 0)

MCItems == {Web, Box, Record}
MCItemSets == {{Web, Box, Record}, {Box, Record}}
MCFamilies == <<"project=a">>
MCPrefixNames == [p \in {"we", "nothing"} |-> IF p = "we" THEN {"web"} ELSE {}]

MCRegex == [v \in {"c1", "c2", "project=a"} |-> {}]
MCRank == [i \in {"b1", "build-cache", "c1", "c2", "project=a", "we"} |->
             CASE i = "b1" -> 0 [] i = "build-cache" -> 1 [] i = "c1" -> 2
               [] i = "c2" -> 3 [] i = "project=a" -> 4 [] OTHER -> 5]

\* Durations in milliseconds; the items are ten seconds old.
MCNow == 10
Short == [stopped_ttl |-> 5000, cache_ttl |-> 5000, cache_max_bytes |-> 1]
Long == [stopped_ttl |-> 20000, cache_ttl |-> 20000, cache_max_bytes |-> 1]
MCSettings == <<Short>>
MCEdited == {Long}

Contents(rules, managed) ==
  [manual |-> [rules |-> rules, protect |-> [labels |-> {}, names |-> {}], cache |-> None,
               stray |-> FALSE],
   managed |-> managed]

Rule(name, select, ttl) ==
  [name |-> name, scope |-> "owned", select |-> select, stopped_ttl |-> ttl, running_ttl |-> None]

\* Written by hand: a rule that shadows whatever would select web, before the
\* generated rule for the project.
Edited == Contents(<<Rule("mine", [labels |-> {}, names |-> {"web"}], 5000)>>,
                   {[id |-> "project=a", policy |-> Short]})

MCHandEdits == {Edited, Broken, Missing}
MCEntrySets == {{}, {[kind |-> "label", value |-> "project=a"]}}

MCCommandIds == {{"project=a"}}

CandidateIds == {"project=a", "build-cache", "we"}
Generated == [id : CandidateIds, policy : {Short, Long}]
MCSources == [manual : {EmptyManual, Edited.manual}, managed : SUBSET Generated \cup {None}]
MCProposals ==
  [base : MCSources \cup {Missing}, result : MCSources, inventory : SUBSET MCItems,
   ids : SUBSET CandidateIds, policy : {Short, Long}]

=============================================================================
