------------------------------ MODULE CachePass ------------------------------
(***************************************************************************)
(* A cleanup pass over the build cache: the plan of the cache rule, the    *)
(* child-first order of its targets (ordered_removal_targets and           *)
(* cache_depth in src/src/executor.rs) and the loop that rebuilds the plan *)
(* before each single-record prune.                                        *)
(*                                                                         *)
(* Every removal changes the total the byte budget is compared with, so    *)
(* the order of the targets and the rebuilt plan act on each other.        *)
(* Executor has the locks, the failures and the other kinds; this module   *)
(* has the cache graph.  BuildKit is external: it shows a record as in use *)
(* while a build holds it or one of its descendants, and it prunes a       *)
(* record that is neither in use nor the parent of another.                *)
(***************************************************************************)
EXTENDS Policy, Functions

CONSTANTS
  Caches,     \* the caches a pass may find: sets of build-cache items
  Rules,      \* build-cache rules
  MaxClock,   \* bound on the clock
  MaxUses     \* bound on how often a build takes or releases a record

\* What a decision reads of a record, and a build-cache rule.
CacheItem ==
  [kind : {"build-cache"}, id : DOMAIN Rank, parents : SUBSET DOMAIN Rank,
   size : Nat \cup {None}, since : Int \cup {None}, created : Int \cup {None},
   referenced : BOOLEAN]

CacheRule == [older_than : Nat \cup {None}, max_bytes : Nat \cup {None}]

ASSUME CachePassAssumption ==
  /\ MaxClock \in Nat
  /\ MaxUses \in Nat
  /\ \A cache \in Caches :
       /\ cache \subseteq CacheItem
       /\ IsFiniteSet(cache)
       /\ \A i, j \in cache : i.id = j.id => i = j
  /\ Rules \subseteq CacheRule
  /\ None \notin Rules

\* The order of strings.
ASSUME RankAssumption ==
  \A a, b \in DOMAIN Rank : Rank[a] \in Int /\ (Rank[a] = Rank[b] => a = b)

VARIABLES
  store,   \* the engine's cache records
  held,    \* ids that a build holds
  uses,    \* how often a build took or released a record
  clock,
  rule,    \* the build-cache rule of the configuration
  pc,      \* "idle", "next", "pruning" or "done"
  depths,  \* [id -> cache_depth], of the records in the plan
  queue,   \* the ids of the targets still to be handled, in order
  report   \* set of [id, status]

vars == <<store, held, uses, clock, rule, pc, depths, queue, report>>

-----------------------------------------------------------------------------
(* The engine *)

Record(id) == CHOOSE i \in store : i.id = id
StoreIds == {i.id : i \in store}

Children(id) == {i \in store : id \in i.parents /\ i.id # id}

Closed(ids) == \A i \in ids : \A c \in Children(i) : c.id \in ids

\* A record and everything built on it.
Descendants(id) ==
  {d \in StoreIds \cup {id} :
     \A ids \in SUBSET (StoreIds \cup {id}) : id \in ids /\ Closed(ids) => d \in ids}

Inventory ==
  {[i EXCEPT !.referenced = @ \/ Descendants(i.id) \cap held # {}] : i \in store}

\* A build takes a cached record, which makes it used now, or lets go of it.
BuildUses ==
  /\ uses < MaxUses
  /\ uses' = uses + 1
  /\ \E i \in store :
       IF i.id \in held
       THEN held' = held \ {i.id} /\ UNCHANGED store
       ELSE /\ held' = held \cup {i.id}
            /\ store' = (store \ {i}) \cup {[i EXCEPT !.since = clock]}
  /\ UNCHANGED <<clock, rule, pc, depths, queue, report>>

Tick ==
  /\ clock < MaxClock
  /\ clock' = clock + 1
  /\ UNCHANGED <<store, held, uses, rule, pc, depths, queue, report>>

-----------------------------------------------------------------------------
(* The order of the targets *)

IdOrder(a, b) == Rank[a] < Rank[b]
Deeper(a, b) == IF a < b THEN b ELSE a

\* The depths known so far.
Memos(ids) == [ids -> Nat \cup {None}]

\* cache_depth(): the longest chain of known parents, which are called in the
\* order of their ids.  A record that is being visited counts as 0, which ends
\* the walk on a cyclic graph; the memo is handed from one call to the next.
CacheDepth(call, parents, id, memo, visiting) ==
  IF memo[id] # None THEN [depth |-> memo[id], memo |-> memo]
  ELSE IF id \in visiting THEN [depth |-> 0, memo |-> memo]
  ELSE LET climb[n \in 0..Len(parents[id])] ==
             IF n = 0 THEN [depth |-> 0, memo |-> memo]
             ELSE LET up == call[<<parents[id][n], climb[n - 1].memo, visiting \cup {id}>>]
                  IN  [depth |-> Deeper(climb[n - 1].depth, up.depth + 1), memo |-> up.memo]
           top == climb[Len(parents[id])]
       IN  [depth |-> top.depth, memo |-> [top.memo EXCEPT ![id] = top.depth]]

InOrder(ids) ==
  CHOOSE s \in SetToSeqs(ids) : \A m, n \in DOMAIN s : m < n => IdOrder(s[m], s[n])

\* All depths, the roots taken in the order the hash map happens to give.  Each
\* call visits one record more, so they are nested no deeper than there are ids.
CacheDepths(parents, order) ==
  LET ids   == DOMAIN parents
      known == [id \in ids |-> InOrder(parents[id] \cap ids)]
      calls[n \in 0..(Len(order) + 1)] ==
        [c \in ids \X Memos(ids) \X SUBSET ids |->
           IF n = 0 THEN [depth |-> 0, memo |-> c[2]]
           ELSE CacheDepth(calls[n - 1], known, c[1], c[2], c[3])]
      memos[n \in 0..Len(order)] ==
        IF n = 0 THEN [id \in ids |-> None]
        ELSE calls[Len(order) + 1][<<order[n], memos[n - 1], {}>>].memo
  IN  memos[Len(order)]

\* Mutant: the depths are compared the wrong way round.
BeforeSwapped(depth, a, b) ==
  \/ depth[a] < depth[b]
  \/ depth[a] = depth[b] /\ IdOrder(a, b)

\* The deeper record goes first, then the smaller name or id.
Before(depth, a, b) ==
  \/ depth[a] > depth[b]
  \/ depth[a] = depth[b] /\ IdOrder(a, b)

-----------------------------------------------------------------------------
(* The pass *)

CacheTargets == {i.id : i \in {j \in CacheRemovals(rule, Inventory, clock) : ~j.referenced}}

Prepare ==
  /\ pc = "idle"
  /\ LET parents == [id \in StoreIds |-> Record(id).parents]
     IN  \E order \in SetToSeqs(StoreIds) : depths' = CacheDepths(parents, order)
  /\ \E targets \in SetToSeqs(CacheTargets) :
       /\ \A m, n \in DOMAIN targets : m < n => Before(depths', targets[m], targets[n])
       /\ queue' = targets
  /\ pc' = "next"
  /\ UNCHANGED <<store, held, uses, clock, rule, report>>

\* The target has its outcome; the pass goes on with the next.
Settle(status) ==
  /\ report' = report \cup {[id |-> Head(queue), status |-> status]}
  /\ queue' = Tail(queue)
  /\ pc' = "next"
  /\ UNCHANGED <<held, uses, clock, rule, depths>>

\* Mutant: a target that is still idle is pruned without rebuilding the plan.
RevalidateIdle ==
  /\ pc = "next"
  /\ queue # <<>>
  /\ IF \E i \in Inventory : i.id = Head(queue) /\ ~i.referenced
     THEN pc' = "pruning" /\ UNCHANGED <<store, held, uses, clock, rule, depths, queue, report>>
     ELSE Settle("skipped") /\ UNCHANGED store

\* The plan is rebuilt from the cache as it is now and must still remove the target.
Revalidate ==
  /\ pc = "next"
  /\ queue # <<>>
  /\ IF Head(queue) \in CacheTargets
     THEN pc' = "pruning" /\ UNCHANGED <<store, held, uses, clock, rule, depths, queue, report>>
     ELSE Settle("skipped") /\ UNCHANGED store

Prunable(id) == id \in StoreIds /\ Descendants(id) \cap held = {} /\ Children(id) = {}

\* A prune filtered by the one id; an empty response is a skip.
Prune ==
  /\ pc = "pruning"
  /\ IF Prunable(Head(queue))
     THEN Settle("removed") /\ store' = store \ {Record(Head(queue))}
     ELSE Settle("refused") /\ UNCHANGED store

Finish ==
  /\ pc = "next"
  /\ queue = <<>>
  /\ pc' = "done"
  /\ UNCHANGED <<store, held, uses, clock, rule, depths, queue, report>>

Init ==
  /\ store \in Caches
  /\ held \in {{}} \cup {{i.id} : i \in store}
  /\ uses = 0
  /\ clock = 0
  /\ rule \in Rules
  /\ pc = "idle"
  /\ depths = <<>>
  /\ queue = <<>>
  /\ report = {}

Next == Prepare \/ Revalidate \/ Prune \/ Finish \/ BuildUses \/ Tick

Spec == Init /\ [][Next]_vars

-----------------------------------------------------------------------------
(* Properties *)

StatusOf(id) == {o.status : o \in {p \in report : p.id = id}}

\* On a common cycle neither of two records can be called the child.
Cyclic(a, b) == b \in Descendants(a) /\ a \in Descendants(b)

\* Children are processed before their parents, in whatever order the hash map
\* gave the roots of the depth computation and even if the graph has cycles.
ChildFirst ==
  \A m, n \in DOMAIN queue :
    (m < n /\ {queue[m], queue[n]} \subseteq StoreIds /\ queue[m] \in Record(queue[n]).parents)
      => Cyclic(queue[m], queue[n])

\* Within one pass nothing is evicted for the budget once the cache fits it:
\* unless a build interferes, a removed record was past the age floor or the
\* cache was still over the budget at that moment.
NoOverEviction ==
  [][(pc = "pruning" /\ store' # store /\ uses = 0) =>
       \/ Head(queue) \in {i.id : i \in CacheExpired(rule, store, clock)}
       \/ rule.max_bytes # None /\ Bytes(store) > rule.max_bytes]_vars

\* A pass no build interferes with leaves the cache within its budget, or
\* nothing that the budget may evict, or a record the engine refused to prune.
BudgetMetUnlessRefused ==
  (pc = "done" /\ uses = 0 /\ rule.max_bytes # None) =>
    \/ Bytes(store) <= rule.max_bytes
    \/ CacheCandidates(Inventory, {}) = {}
    \/ \E o \in report : o.status = "refused"

=============================================================================
