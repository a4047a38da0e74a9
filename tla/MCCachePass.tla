----------------------------- MODULE MCCachePass -----------------------------
(***************************************************************************)
(* Small caches for CachePass: three records in chains, forks and cycles,  *)
(* with parents that are not in the cache.                                 *)
(***************************************************************************)
EXTENDS CachePass

MCRank == [i \in {"b1", "b2", "b3", "gone"} |->
             CASE i = "b1" -> 1 [] i = "b2" -> 2 [] i = "b3" -> 3 [] OTHER -> 4]
MCRegex == [v \in {} |-> {}]

Cached(id, parents, size, since) ==
  [kind |-> "build-cache", id |-> id, parents |-> parents, size |-> size,
   since |-> since, created |-> None, referenced |-> FALSE]

Three(p1, p2, p3, sizes, since) ==
  {Cached("b1", p1, sizes[1], since[1]), Cached("b2", p2, sizes[2], since[2]),
   Cached("b3", p3, sizes[3], since[3])}

\* Graphs with and without cycles, all of one size and age.
MCGraphs ==
  {Three(p1, p2, p3, <<1, 1, 1>>, <<0, 0, 0>>) :
     p1 \in {{}, {"b2"}, {"b1", "b3"}}, p2 \in {{}, {"b1"}, {"b3"}, {"b1", "b3"}},
     p3 \in {{"b1"}, {"b2"}, {"b1", "b2"}}}

Parents ==
  {<<{}, {"b1"}, {"b2"}>>, <<{}, {"b1"}, {"b1"}>>, <<{"b2"}, {"b3"}, {"gone"}>>, <<{}, {}, {}>>}

\* Chains, forks and single records with telling sizes and ages.
Shapes(allSizes, allSince) ==
  {Three(p[1], p[2], p[3], sizes, since) : p \in Parents, sizes \in allSizes, since \in allSince}

MCCaches ==
  MCGraphs \cup Shapes({<<2, 1, 2>>, <<1, 2, 3>>, <<None, 1, 1>>, <<2, 1, None>>}, {<<0, 0, 1>>, <<1, 0, 0>>, <<None, 0, 0>>})

MCRules ==
  {[older_than |-> None, max_bytes |-> 1], [older_than |-> 1000, max_bytes |-> None],
   [older_than |-> 1000, max_bytes |-> 2]}

=============================================================================
