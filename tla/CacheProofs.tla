----------------------------- MODULE CacheProofs -----------------------------
(***************************************************************************)
(* For any cache, cyclic ones included, any rule and any order of a hash   *)
(* map: children come before their parents, nothing is evicted for a       *)
(* budget that is met, and a pass that nothing disturbs meets it.          *)
(***************************************************************************)
EXTENDS CachePass, FiniteSetTheorems, WellFoundedInduction, TLAPS

-----------------------------------------------------------------------------
(* Sums of sizes *)

\* Of some sets of a finite set's elements one contains no other of them.
LEMMA SmallestSet ==
  ASSUME NEW S, IsFiniteSet(S), NEW B \in SUBSET SUBSET S, B # {}
  PROVE  \E m \in B : \A s \in B : s \subseteq m => s = m
<1>1. B \subseteq FiniteSubsetsOf(S)
  BY FS_FiniteSubsetsOfFinite
<1>2. PICK m \in B : \A s \in B : ~(<<s, m>> \in StrictSubsetOrdering(S))
  BY <1>1, FS_StrictSubsetOrderingWellFounded, WFMin
<1>3. ASSUME NEW s \in B, s \subseteq m
      PROVE  s = m
  BY <1>2, <1>3 DEF StrictSubsetOrdering
<1>4. QED
  BY <1>3

Some(s) == CHOOSE x \in s : TRUE

\* g adds up the sizes of each set of elements of S, the element that CHOOSE takes first.
Adds(g, S) ==
  g = [s \in SUBSET S |-> IF s = {} THEN 0 ELSE Some(s).size + g[s \ {Some(s)}]]

Total(S) == MapThenSumSet(LAMBDA i : i.size, S)

LEMMA TotalIs ==
  ASSUME NEW S
  PROVE  Total(S) = (CHOOSE g : Adds(g, S))[S]
BY DEF Total, MapThenSumSet, MapThenFoldSet, Adds, Some

LEMMA AddsUnique ==
  ASSUME NEW S, IsFiniteSet(S), NEW T, NEW g, Adds(g, S), NEW h, Adds(h, T)
  PROVE  \A s \in SUBSET S : s \subseteq T => g[s] = h[s]
<1> DEFINE B == {s \in SUBSET S : s \subseteq T /\ g[s] # h[s]}
<1>1. SUFFICES ASSUME B # {}
               PROVE  FALSE
  OBVIOUS
<1>2. PICK m \in B : \A s \in B : s \subseteq m => s = m
  <2>1. B \in SUBSET SUBSET S
    OBVIOUS
  <2> HIDE DEF B
  <2>2. QED
    BY <1>1, <2>1, SmallestSet
<1>3. m \in SUBSET S /\ m \in SUBSET T /\ g[m] # h[m]
  BY <1>2
<1>4. /\ g[m] = IF m = {} THEN 0 ELSE Some(m).size + g[m \ {Some(m)}]
      /\ h[m] = IF m = {} THEN 0 ELSE Some(m).size + h[m \ {Some(m)}]
  BY <1>3 DEF Adds
<1>5. m # {} /\ Some(m) \in m
  BY <1>3, <1>4 DEF Some
<1>6. m \ {Some(m)} \notin B
  BY <1>2, <1>5
<1>7. g[m \ {Some(m)}] = h[m \ {Some(m)}]
  BY <1>3, <1>6
<1>8. QED
  BY <1>3, <1>4, <1>7

\* Every finite set has such sums,
LEMMA AddsExist ==
  ASSUME NEW S, IsFiniteSet(S)
  PROVE  \E g : Adds(g, S)
<1> DEFINE B == {T \in SUBSET S : ~\E g : Adds(g, T)}
<1>1. SUFFICES ASSUME B # {}
               PROVE  FALSE
  <2>1. S \in B <=> ~\E g : Adds(g, S)
    OBVIOUS
  <2>2. QED
    BY <2>1
<1>2. PICK T \in B : \A s \in B : s \subseteq T => s = T
  <2>1. B \in SUBSET SUBSET S
    OBVIOUS
  <2> HIDE DEF B
  <2>2. QED
    BY <1>1, <2>1, SmallestSet
<1>3. T \in SUBSET S /\ ~\E g : Adds(g, T)
  BY <1>2
<1>4. ASSUME NEW u \in SUBSET T, u # T
      PROVE  IsFiniteSet(u) /\ \E g : Adds(g, u) /\ Total(u) = g[u]
  <2>1. u \notin B /\ u \in SUBSET S
    BY <1>2, <1>3, <1>4
  <2>2. \E g : Adds(g, u)
    BY <2>1
  <2>3. Adds(CHOOSE g : Adds(g, u), u)
    BY <2>2
  <2>4. IsFiniteSet(u)
    BY <2>1, FS_Subset
  <2>5. QED
    BY <2>3, <2>4, TotalIs
<1>5. ASSUME NEW u \in SUBSET T, u # T
      PROVE  Total(u) = IF u = {} THEN 0 ELSE Some(u).size + Total(u \ {Some(u)})
  <2>1. PICK g : IsFiniteSet(u) /\ Adds(g, u) /\ Total(u) = g[u]
    BY <1>4, <1>5
  <2>2. g[u] = IF u = {} THEN 0 ELSE Some(u).size + g[u \ {Some(u)}]
    BY <2>1 DEF Adds
  <2>3. ASSUME u # {}
        PROVE  g[u \ {Some(u)}] = Total(u \ {Some(u)})
    <3> DEFINE v == u \ {Some(u)}
    <3>1. v \in SUBSET T /\ v \in SUBSET u /\ v # T
      BY <1>5, <2>3 DEF Some
    <3>2. PICK h : Adds(h, v) /\ Total(v) = h[v]
      BY <1>4, <3>1
    <3>3. g[v] = h[v]
      BY <2>1, <3>1, <3>2, AddsUnique
    <3>4. QED
      BY <3>2, <3>3
  <2>4. QED
    BY <2>1, <2>2, <2>3
<1> DEFINE G == [s \in SUBSET T |-> IF s = {} THEN 0 ELSE Some(s).size + Total(s \ {Some(s)})]
<1>6. ASSUME NEW s \in SUBSET T, s # {}
      PROVE  G[s \ {Some(s)}] = Total(s \ {Some(s)})
  <2>1. s \ {Some(s)} \in SUBSET T /\ s \ {Some(s)} # T
    BY <1>6 DEF Some
  <2>2. QED
    BY <1>5, <2>1
<1>7. G = [s \in SUBSET T |-> IF s = {} THEN 0 ELSE Some(s).size + G[s \ {Some(s)}]]
  BY <1>6
<1>8. Adds(G, T)
  <2> HIDE DEF G
  <2>1. QED
    BY <1>7 DEF Adds
<1>9. QED
  BY <1>3, <1>8

\* so that the total is the size of any element and the total of the others.
LEMMA TotalFirst ==
  ASSUME NEW S, IsFiniteSet(S)
  PROVE  Total(S) = IF S = {} THEN 0 ELSE Some(S).size + Total(S \ {Some(S)})
<1>1. PICK g : Adds(g, S) /\ Total(S) = g[S]
  <2>1. Adds(CHOOSE g : Adds(g, S), S)
    BY AddsExist
  <2>2. QED
    BY <2>1, TotalIs
<1>2. g[S] = IF S = {} THEN 0 ELSE Some(S).size + g[S \ {Some(S)}]
  BY <1>1 DEF Adds
<1>3. ASSUME S # {}
      PROVE  g[S \ {Some(S)}] = Total(S \ {Some(S)})
  <2> DEFINE u == S \ {Some(S)}
  <2>1. u \in SUBSET S /\ IsFiniteSet(u)
    BY FS_Subset
  <2>2. Adds(CHOOSE h : Adds(h, u), u)
    <3> HIDE DEF u
    <3>1. QED
      BY <2>1, AddsExist
  <2>3. g[u] = (CHOOSE h : Adds(h, u))[u]
    BY <1>1, <2>1, <2>2, AddsUnique
  <2>4. QED
    BY <2>3, TotalIs
<1>4. QED
  BY <1>1, <1>2, <1>3

LEMMA TotalTakes ==
  ASSUME NEW S, IsFiniteSet(S), \A i \in S : i.size \in Nat
  PROVE  /\ Total(S) \in Nat
         /\ \A x \in S : Total(S) = x.size + Total(S \ {x}) /\ Total(S \ {x}) \in Nat
<1> DEFINE Good(T) == /\ Total(T) \in Nat
                      /\ \A x \in T : Total(T) = x.size + Total(T \ {x}) /\ Total(T \ {x}) \in Nat
           B == {T \in SUBSET S : ~Good(T)}
<1>1. SUFFICES ASSUME B # {}
               PROVE  FALSE
  <2>1. S \in B <=> ~Good(S)
    BY Zenon
  <2>2. QED
    BY <2>1
<1>2. PICK T \in B : \A s \in B : s \subseteq T => s = T
  <2>1. B \in SUBSET SUBSET S
    BY Zenon
  <2> HIDE DEF B
  <2>2. QED
    BY <1>1, <2>1, SmallestSet
<1> HIDE DEF Good
<1>3. T \in SUBSET S /\ ~Good(T) /\ IsFiniteSet(T)
  BY <1>2, FS_Subset
<1>4. \A u \in SUBSET T : u # T => Good(u) /\ IsFiniteSet(u)
  BY <1>2, <1>3, FS_Subset
<1>5. Total(T) = IF T = {} THEN 0 ELSE Some(T).size + Total(T \ {Some(T)})
  BY <1>3, TotalFirst
<1>6. T # {}
  BY <1>3, <1>5 DEF Good
<1> DEFINE y == Some(T)
<1>7. y \in T /\ y.size \in Nat
  BY <1>3, <1>6 DEF Some
<1> HIDE DEF y
<1>8. Total(T) = y.size + Total(T \ {y}) /\ Total(T \ {y}) \in Nat
  BY <1>4, <1>5, <1>6, <1>7 DEF Good, y
<1>9. ASSUME NEW x \in T
      PROVE  Total(T) = x.size + Total(T \ {x}) /\ Total(T \ {x}) \in Nat
  <2>1. CASE x = y
    BY <1>8, <2>1
  <2>2. CASE x # y
    <3>1. x \in T \ {y} /\ y \in T \ {x} /\ x.size \in Nat /\ (T \ {y}) \ {x} = (T \ {x}) \ {y}
      BY <1>3, <1>7, <2>2
    <3>2. Good(T \ {y}) /\ Good(T \ {x})
      BY <1>4, <1>7
    <3>3. /\ Total(T \ {y}) = x.size + Total((T \ {y}) \ {x})
          /\ Total((T \ {y}) \ {x}) \in Nat
      BY <3>1, <3>2 DEF Good
    <3>4. Total(T \ {x}) = y.size + Total((T \ {x}) \ {y})
      BY <3>1, <3>2 DEF Good
    <3>5. PICK n \in Nat : n = Total((T \ {y}) \ {x}) /\ n = Total((T \ {x}) \ {y})
      BY <3>1, <3>3
    <3>6. Total(T) = y.size + (x.size + n) /\ Total(T \ {x}) = y.size + n
      BY <1>8, <3>3, <3>4, <3>5
    <3>7. QED
      BY <1>7, <3>1, <3>6
  <2>3. QED
    BY <2>1, <2>2
<1>10. QED
  BY <1>3, <1>7, <1>8, <1>9 DEF Good

-----------------------------------------------------------------------------
(* Bytes of a cache *)

SizeOf(i) == IF i.size = None THEN 0 ELSE i.size

LEMMA BytesTakes ==
  ASSUME NEW S, IsFiniteSet(S), S \subseteq CacheItem
  PROVE  /\ Bytes(S) \in Nat
         /\ \A x \in S : Bytes(S) = SizeOf(x) + Bytes(S \ {x})
<1> DEFINE Sized(T) == {i \in T : i.size # None}
<1>1. \A T : Bytes(T) = Total(Sized(T))
  BY DEF Bytes, Total
<1>2. IsFiniteSet(Sized(S)) /\ \A i \in Sized(S) : i.size \in Nat
  <2>1. Sized(S) \in SUBSET S
    OBVIOUS
  <2>2. \A i \in Sized(S) : i.size \in Nat
    BY DEF CacheItem
  <2>3. QED
    BY <2>1, <2>2, FS_Subset
<1>3. Bytes(S) \in Nat
  <2> HIDE DEF Sized
  <2>1. QED
    BY <1>1, <1>2, TotalTakes
<1>4. ASSUME NEW x \in S
      PROVE  Bytes(S) = SizeOf(x) + Bytes(S \ {x})
  <2>1. CASE x.size = None
    <3>1. Sized(S \ {x}) = Sized(S)
      BY <2>1
    <3>2. Bytes(S \ {x}) = Bytes(S)
      <4> HIDE DEF Sized
      <4>1. QED
        BY <1>1, <3>1
    <3>3. SizeOf(x) = 0
      BY <2>1 DEF SizeOf
    <3>4. QED
      BY <1>3, <3>2, <3>3
  <2>2. CASE x.size # None
    <3>1. Sized(S \ {x}) = Sized(S) \ {x} /\ x \in Sized(S)
      BY <1>4, <2>2
    <3> HIDE DEF Sized
    <3>2. Total(Sized(S)) = x.size + Total(Sized(S) \ {x})
      BY <1>2, <3>1, TotalTakes
    <3>3. QED
      BY <1>1, <2>2, <3>1, <3>2 DEF SizeOf
  <2>3. QED
    BY <2>1, <2>2
<1>5. QED
  BY <1>3, <1>4

LEMMA NoBytes == Bytes({}) = 0
<1>1. {i \in {} : i.size # None} = {} /\ IsFiniteSet({})
  BY FS_EmptySet
<1>2. Bytes({}) = Total({})
  BY <1>1 DEF Bytes, Total
<1>3. QED
  BY <1>1, <1>2, TotalFirst

\* The bytes of a part of the cache and of the rest add up.
LEMMA BytesPart ==
  ASSUME NEW S, IsFiniteSet(S), S \subseteq CacheItem, NEW T \in SUBSET S
  PROVE  Bytes(S) \in Nat /\ Bytes(T) \in Nat /\ Bytes(S \ T) \in Nat
         /\ Bytes(S) = Bytes(T) + Bytes(S \ T)
<1> DEFINE Parts(U) == Bytes(S) = Bytes(U) + Bytes(S \ U)
           B == {U \in SUBSET S : ~Parts(U)}
<1>1. \A U \in SUBSET S : IsFiniteSet(U) /\ U \subseteq CacheItem /\ Bytes(U) \in Nat
  BY FS_Subset, BytesTakes
<1>2. Bytes({}) = 0
  BY NoBytes
<1>3. SUFFICES ASSUME B # {}
               PROVE  FALSE
  <2>1. T \in B <=> ~Parts(T)
    BY Zenon
  <2>2. S \ T \in SUBSET S /\ S \in SUBSET S
    OBVIOUS
  <2>3. QED
    BY <1>1, <2>1, <2>2
<1>4. PICK U \in B : \A s \in B : s \subseteq U => s = U
  <2>1. B \in SUBSET SUBSET S
    BY Zenon
  <2> HIDE DEF B
  <2>2. QED
    BY <1>3, <2>1, SmallestSet
<1>5. U \in SUBSET S /\ ~Parts(U)
  BY <1>4
<1>6. CASE U = {}
  <2>1. S \ U = S /\ Bytes(U) = 0 /\ Bytes(S) \in Nat
    BY <1>1, <1>2, <1>6
  <2>2. QED
    BY <1>5, <2>1
<1>7. CASE U # {}
  <2>1. PICK x \in U : TRUE
    BY <1>7
  <2> DEFINE V == U \ {x}
  <2>2. V \in SUBSET S /\ Parts(V)
    BY <1>4, <1>5, <2>1
  <2>3. Bytes(U) = SizeOf(x) + Bytes(V)
    BY <1>1, <1>5, <2>1, BytesTakes
  <2>4. (S \ V) \ {x} = S \ U /\ S \ V \in SUBSET S /\ x \in S \ V
    BY <1>5, <2>1
  <2>5. Bytes(S \ V) = SizeOf(x) + Bytes(S \ U)
    <3>1. Bytes(S \ V) = SizeOf(x) + Bytes((S \ V) \ {x})
      BY <1>1, <2>4, BytesTakes
    <3>2. QED
      BY <2>4, <3>1
  <2>6. SizeOf(x) \in Nat
    BY <1>5, <2>1 DEF SizeOf, CacheItem
  <2> HIDE DEF V
  <2>7. PICK a \in Nat, b \in Nat, n \in Nat, k \in Nat :
          a = Bytes(V) /\ b = Bytes(S \ U) /\ n = SizeOf(x) /\ k = Bytes(S)
    BY <1>1, <1>5, <2>2, <2>6
  <2>8. k = a + (n + b) /\ Bytes(U) = n + a
    BY <2>2, <2>3, <2>5, <2>7
  <2>9. k = (n + a) + b
    BY <2>8
  <2>10. Bytes(S) = Bytes(U) + Bytes(S \ U)
    BY <2>7, <2>8, <2>9
  <2>11. QED
    BY <1>5, <2>10
<1>8. QED
  BY <1>6, <1>7

ImageBy(f, T) == {f[x] : x \in T}

\* Records that keep their size keep the bytes of the cache.
LEMMA BytesSame ==
  ASSUME NEW S, IsFiniteSet(S), S \subseteq CacheItem, NEW f \in [S -> CacheItem],
         \A x, y \in S : f[x] = f[y] => x = y,
         \A x \in S : f[x].size = x.size
  PROVE  \A T \in SUBSET S : IsFiniteSet(ImageBy(f, T)) /\ Bytes(ImageBy(f, T)) = Bytes(T)
<1> DEFINE Im(T) == ImageBy(f, T)
           Same(T) == Bytes(Im(T)) = Bytes(T)
           B == {U \in SUBSET S : ~Same(U)}
<1>1. ASSUME NEW T \in SUBSET S
      PROVE  IsFiniteSet(Im(T)) /\ Im(T) \subseteq CacheItem /\ IsFiniteSet(T) /\ T \subseteq CacheItem
  <2>1. IsFiniteSet(T)
    BY FS_Subset
  <2> DEFINE g == [x \in T |-> f[x]]
  <2>2. g \in Surjection(T, Im(T))
    BY DEF Surjection, ImageBy
  <2>3. QED
    BY <2>1, <2>2, FS_Surjection DEF ImageBy
<1>2. SUFFICES ASSUME B # {}
               PROVE  FALSE
  <2>1. ASSUME NEW T \in SUBSET S
        PROVE  T \in B <=> ~Same(T)
    BY Zenon DEF ImageBy
  <2> HIDE DEF Same
  <2>2. \A T \in SUBSET S : Same(T)
    BY <2>1
  <2>3. QED
    BY <1>1, <2>2 DEF Same
<1>3. PICK U \in B : \A s \in B : s \subseteq U => s = U
  <2>1. B \in SUBSET SUBSET S
    BY Zenon
  <2> HIDE DEF B
  <2>2. QED
    BY <1>2, <2>1, SmallestSet
<1>4. U \in SUBSET S /\ ~Same(U)
  BY <1>3
<1>5. CASE U = {}
  <2>1. Im(U) = U
    BY <1>5 DEF ImageBy
  <2>2. QED
    BY <1>4, <2>1
<1>6. CASE U # {}
  <2>1. PICK x \in U : TRUE
    BY <1>6
  <2> DEFINE V == U \ {x}
  <2>2. V \in SUBSET S /\ Same(V)
    BY <1>3, <1>4, <2>1
  <2>3. Im(V) = Im(U) \ {f[x]} /\ f[x] \in Im(U)
    BY <1>4, <2>1 DEF ImageBy
  <2>4. SizeOf(f[x]) = SizeOf(x)
    BY <1>4, <2>1 DEF SizeOf
  <2> HIDE DEF Im
  <2>5. Bytes(Im(U)) = SizeOf(f[x]) + Bytes(Im(U) \ {f[x]})
    BY <1>1, <1>4, <2>3, BytesTakes
  <2>6. Bytes(U) = SizeOf(x) + Bytes(V)
    BY <1>1, <1>4, <2>1, BytesTakes
  <2>7. Bytes(Im(V)) = Bytes(V)
    BY <2>2
  <2> HIDE DEF V
  <2>8. Bytes(Im(U) \ {f[x]}) = Bytes(V)
    BY <2>3, <2>7
  <2>9. QED
    BY <1>4, <2>4, <2>5, <2>6, <2>8
<1>7. QED
  BY <1>5, <1>6

-----------------------------------------------------------------------------
(* What the variables are *)

CacheTypes ==
  /\ store \subseteq CacheItem
  /\ IsFiniteSet(store)
  /\ \A i, j \in store : i.id = j.id => i = j
  /\ uses \in Nat
  /\ clock \in Nat
  /\ rule \in CacheRule
  /\ rule # None
  /\ pc \in {"idle", "next", "pruning", "done"}
  /\ queue \in Seq(DOMAIN Rank)
  /\ pc = "pruning" => queue # <<>>
  /\ pc = "done" => queue = <<>>

\* A record as the inventory shows it.
Shown(i) == [i EXCEPT !.referenced = @ \/ Descendants(i.id) \cap held # {}]

LEMMA RecordIs ==
  ASSUME CacheTypes, NEW i \in store
  PROVE  Record(i.id) = i
BY DEF CacheTypes, Record

LEMMA ShownIs ==
  ASSUME CacheTypes, NEW i \in store
  PROVE  /\ Shown(i) \in CacheItem
         /\ Shown(i).id = i.id /\ Shown(i).size = i.size /\ Shown(i).kind = i.kind
         /\ Shown(i).since = i.since /\ Shown(i).created = i.created
         /\ Shown(i).parents = i.parents
         /\ i.referenced => Shown(i).referenced
         /\ Shown(i).referenced = (i.referenced \/ Descendants(i.id) \cap held # {})
BY DEF CacheTypes, Shown, CacheItem

LEMMA InventoryIs ==
  ASSUME CacheTypes
  PROVE  /\ Inventory = {Shown(i) : i \in store}
         /\ Inventory \subseteq CacheItem
         /\ \A i, j \in Inventory : i.id = j.id => i = j
         /\ {i \in Inventory : i.kind = "build-cache"} = Inventory
         /\ \A i \in Inventory : \E s \in store : i = Shown(s)
<1>1. Inventory = {Shown(i) : i \in store}
  BY DEF Inventory, Shown
<1>2. Inventory \subseteq CacheItem
  BY <1>1, ShownIs
<1>3. \A i \in Inventory : \E s \in store : i = Shown(s)
  BY <1>1
<1>4. \A i, j \in Inventory : i.id = j.id => i = j
  BY <1>3, ShownIs DEF CacheTypes
<1>5. {i \in Inventory : i.kind = "build-cache"} = Inventory
  BY <1>2 DEF CacheItem
<1>6. QED
  BY <1>1, <1>2, <1>3, <1>4, <1>5

LEMMA InventoryBytes ==
  ASSUME CacheTypes
  PROVE  IsFiniteSet(Inventory) /\ Bytes(Inventory) = Bytes(store) /\ Bytes(store) \in Nat
<1> DEFINE f == [i \in store |-> Shown(i)]
<1>1. f \in [store -> CacheItem] /\ \A x \in store : f[x].size = x.size
  BY ShownIs
<1>2. \A x, y \in store : f[x] = f[y] => x = y
  BY ShownIs DEF CacheTypes
<1>3. Inventory = ImageBy(f, store)
  BY InventoryIs DEF ImageBy
<1> HIDE DEF f
<1>4. IsFiniteSet(store) /\ store \subseteq CacheItem /\ store \in SUBSET store
  BY DEF CacheTypes
<1>5. Bytes(store) \in Nat
  BY <1>4, BytesTakes
<1>6. IsFiniteSet(ImageBy(f, store)) /\ Bytes(ImageBy(f, store)) = Bytes(store)
  BY <1>1, <1>2, <1>4, BytesSame
<1>7. QED
  BY <1>3, <1>5, <1>6

\* The targets are listed once, all of them.
LEMMA ListIs ==
  ASSUME NEW S, IsFiniteSet(S), NEW q \in SetToSeqs(S)
  PROVE  /\ q \in Seq(S)
         /\ Len(q) = Cardinality(S)
         /\ {q[n] : n \in DOMAIN q} = S
         /\ \A m, n \in DOMAIN q : q[m] = q[n] => m = n
<1> DEFINE D == 1..Cardinality(S)
<1>1. q \in [D -> S] /\ \A i, j \in D : i # j => q[i] # q[j]
  BY DEF SetToSeqs
<1>2. Cardinality(S) \in Nat
  BY FS_CardinalityType
<1>3. q \in Seq(S) /\ Len(q) = Cardinality(S) /\ DOMAIN q = D
  BY <1>1, <1>2
<1>4. q \in Injection(D, S)
  BY <1>1 DEF Injection, IsInjective
<1>5. Cardinality(D) = Cardinality(S)
  BY <1>2, FS_Interval
<1>6. q \in Surjection(D, S)
  BY <1>4, <1>5, FS_Injection
<1>7. {q[n] : n \in DOMAIN q} = S
  BY <1>1, <1>3, <1>6 DEF Surjection
<1>8. QED
  BY <1>1, <1>3, <1>7

LEMMA TargetsAre ==
  ASSUME CacheTypes
  PROVE  IsFiniteSet(CacheTargets) /\ CacheTargets \subseteq StoreIds
         /\ IsFiniteSet(StoreIds) /\ StoreIds \subseteq DOMAIN Rank
<1>1. StoreIds \subseteq DOMAIN Rank
  BY DEF CacheTypes, StoreIds, CacheItem
<1>2. IsFiniteSet(StoreIds)
  <2> DEFINE f == [i \in store |-> i.id]
  <2>1. f \in Surjection(store, StoreIds)
    BY DEF StoreIds, Surjection
  <2>2. QED
    BY <2>1, FS_Surjection DEF CacheTypes
<1>3. CacheRemovals(rule, Inventory, clock) \subseteq Inventory
  BY InventoryIs DEF CacheRemovals, CacheExpired, OverBudget, CacheCandidates
<1>4. CacheTargets \subseteq StoreIds
  <2>1. ASSUME NEW t \in CacheTargets
        PROVE  t \in StoreIds
    <3>1. PICK j \in Inventory : t = j.id
      BY <1>3 DEF CacheTargets
    <3>2. PICK s \in store : j = Shown(s)
      BY <3>1, InventoryIs
    <3>3. QED
      BY <3>1, <3>2, ShownIs DEF StoreIds
  <2>2. QED
    BY <2>1
<1>5. QED
  BY <1>1, <1>2, <1>4, FS_Subset

LEMMA InitTypes ==
  ASSUME Init
  PROVE  CacheTypes
BY CachePassAssumption DEF Init, CacheTypes

\* The queue after a target has its outcome.
LEMMA SettleTakes ==
  ASSUME CacheTypes, queue # <<>>, NEW status, Settle(status)
  PROVE  /\ queue' \in Seq(DOMAIN Rank)
         /\ {queue'[n] : n \in DOMAIN queue'} \subseteq {queue[n] : n \in DOMAIN queue}
         /\ {queue[n] : n \in DOMAIN queue} \subseteq {queue'[n] : n \in DOMAIN queue'} \cup {Head(queue)}
         /\ Head(queue) \in {queue[n] : n \in DOMAIN queue}
         /\ Head(queue) \in DOMAIN Rank
<1>1. queue \in Seq(DOMAIN Rank) /\ queue # <<>> /\ queue' = Tail(queue)
  BY DEF CacheTypes, Settle
<1>2. /\ Len(queue) \in Nat \ {0} /\ DOMAIN queue = 1..Len(queue)
      /\ queue' \in Seq(DOMAIN Rank) /\ DOMAIN queue' = 1..(Len(queue) - 1)
      /\ \A n \in 1..(Len(queue) - 1) : queue'[n] = queue[n + 1]
      /\ Head(queue) = queue[1]
  BY <1>1
<1>3. \A n \in DOMAIN queue : n = 1 \/ (n - 1 \in DOMAIN queue' /\ queue'[n - 1] = queue[n])
  BY <1>2
<1>4. \A n \in DOMAIN queue' : n + 1 \in DOMAIN queue /\ queue'[n] = queue[n + 1]
  BY <1>2
<1>5. 1 \in DOMAIN queue /\ Head(queue) = queue[1] /\ Head(queue) \in DOMAIN Rank
  BY <1>1, <1>2
<1>6. {queue'[n] : n \in DOMAIN queue'} \subseteq {queue[n] : n \in DOMAIN queue}
  BY <1>4
<1>7. {queue[n] : n \in DOMAIN queue} \subseteq {queue'[n] : n \in DOMAIN queue'} \cup {Head(queue)}
  BY <1>3, <1>5
<1>8. QED
  BY <1>2, <1>5, <1>6, <1>7

LEMMA NextTypes ==
  ASSUME CacheTypes, [Next]_vars
  PROVE  CacheTypes'
<1>1. CASE Prepare
  <2>1. PICK targets \in SetToSeqs(CacheTargets) : queue' = targets
    BY <1>1 DEF Prepare
  <2>2. queue' \in Seq(DOMAIN Rank)
    BY <2>1, ListIs, TargetsAre
  <2>3. QED
    BY <1>1, <2>2 DEF Prepare, CacheTypes
<1>2. CASE Revalidate
  <2>1. CASE Settle("skipped") /\ UNCHANGED store
    <3>1. queue' \in Seq(DOMAIN Rank)
      BY <1>2, <2>1, SettleTakes DEF Revalidate
    <3>2. QED
      BY <2>1, <3>1 DEF Settle, CacheTypes
  <2>2. CASE pc' = "pruning" /\ UNCHANGED <<store, held, uses, clock, rule, depths, queue, report>>
    BY <1>2, <2>2 DEF Revalidate, CacheTypes
  <2>3. QED
    BY <1>2, <2>1, <2>2 DEF Revalidate
<1>3. CASE Prune
  <2>1. PICK status : Settle(status)
    BY <1>3 DEF Prune
  <2>2. queue' \in Seq(DOMAIN Rank)
    BY <1>3, <2>1, SettleTakes DEF Prune, CacheTypes
  <2>3. store' \in SUBSET store
    BY <1>3 DEF Prune
  <2>4. IsFiniteSet(store')
    BY <2>3, FS_Subset DEF CacheTypes
  <2>5. QED
    BY <2>1, <2>2, <2>3, <2>4 DEF Settle, CacheTypes
<1>4. CASE Finish
  BY <1>4 DEF Finish, CacheTypes
<1>5. CASE BuildUses
  <2>1. store' = store \/ \E i \in store : store' = (store \ {i}) \cup {[i EXCEPT !.since = clock]}
    BY <1>5 DEF BuildUses
  <2>2. store' \subseteq CacheItem /\ IsFiniteSet(store') /\ \A i, j \in store' : i.id = j.id => i = j
    <3>1. CASE store' = store
      BY <3>1 DEF CacheTypes
    <3>2. ASSUME NEW i \in store, store' = (store \ {i}) \cup {[i EXCEPT !.since = clock]}
          PROVE  store' \subseteq CacheItem /\ IsFiniteSet(store') /\ \A k, j \in store' : k.id = j.id => k = j
      <4> DEFINE used == [i EXCEPT !.since = clock]
      <4>1. used \in CacheItem /\ used.id = i.id
        BY DEF CacheTypes, CacheItem
      <4>2. IsFiniteSet(store \ {i})
        BY FS_RemoveElement DEF CacheTypes
      <4> HIDE DEF used
      <4>3. store' = (store \ {i}) \cup {used}
        BY <3>2 DEF used
      <4>4. IsFiniteSet(store')
        BY <4>2, <4>3, FS_AddElement
      <4>5. QED
        BY <4>1, <4>3, <4>4 DEF CacheTypes
    <3>3. QED
      BY <2>1, <3>1, <3>2
  <2>3. QED
    BY <1>5, <2>2 DEF BuildUses, CacheTypes
<1>6. CASE Tick
  BY <1>6 DEF Tick, CacheTypes
<1>7. CASE UNCHANGED vars
  BY <1>7 DEF vars, CacheTypes
<1>8. QED
  BY <1>1, <1>2, <1>3, <1>4, <1>5, <1>6, <1>7 DEF Next

-----------------------------------------------------------------------------
(* Nothing is evicted for a budget that is met *)

IsExpired(id) == id \in {i.id : i \in CacheExpired(rule, store, clock)}

\* The target that is about to be pruned still has a reason to go.
Justified ==
  (pc = "pruning" /\ uses = 0) =>
    IsExpired(Head(queue)) \/ (rule.max_bytes # None /\ Bytes(store) > rule.max_bytes)

\* A record past the age floor stays past it.
LEMMA FloorStays ==
  ASSUME NEW t \in Int \cup {None}, NEW now \in Int, NEW later \in Int, now <= later,
         NEW f \in Nat \cup {None}, MeetsFloor(AgeSeconds(now, t), f)
  PROVE  /\ MeetsFloor(AgeSeconds(later, t), f)
         /\ t \in Int /\ f \in Nat /\ now - t >= AsSecs(f) /\ now >= t
<1>1. t \in Int /\ f \in Nat /\ now >= t
  BY NoneAssumption DEF MeetsFloor, AgeSeconds
<1>2. AsSecs(f) \in Int
  BY <1>1 DEF AsSecs
<1>3. AgeSeconds(now, t) = now - t /\ AgeSeconds(later, t) = later - t
  BY <1>1, NoneAssumption DEF AgeSeconds
<1>4. now - t >= AsSecs(f)
  BY <1>3 DEF MeetsFloor
<1>5. QED
  BY <1>1, <1>2, <1>3, <1>4, NoneAssumption DEF MeetsFloor

\* Why a target is one.
LEMMA TargetWhy ==
  ASSUME CacheTypes, NEW id \in CacheTargets
  PROVE  IsExpired(id) \/ (rule.max_bytes # None /\ Bytes(store) > rule.max_bytes)
<1> DEFINE E == CacheExpired(rule, Inventory, clock)
<1>1. CacheRemovals(rule, Inventory, clock) =
        E \cup (IF rule.max_bytes = None THEN {} ELSE OverBudget(rule, Inventory, E))
  BY InventoryIs DEF CacheRemovals, CacheTypes
<1>2. PICK j : j \in CacheRemovals(rule, Inventory, clock) /\ j.id = id
  BY DEF CacheTargets
<1>3. CASE j \in E
  <2>1. /\ j \in Inventory /\ ~j.referenced
        /\ MeetsFloor(AgeSeconds(clock, LastUsed(j)), rule.older_than)
    BY <1>3 DEF CacheExpired
  <2>2. PICK i \in store : j = Shown(i)
    BY <2>1, InventoryIs
  <2>3. ~i.referenced /\ LastUsed(i) = LastUsed(j) /\ i.id = id
    BY <1>2, <2>1, <2>2, ShownIs DEF LastUsed
  <2>4. i \in CacheExpired(rule, store, clock)
    BY <2>1, <2>3 DEF CacheExpired
  <2>5. QED
    BY <2>3, <2>4 DEF IsExpired
<1>4. CASE rule.max_bytes # None /\ j \in OverBudget(rule, Inventory, E)
  <2> DEFINE C == CacheCandidates(Inventory, E)
             Older == {k \in C : CacheOlder(k, j)}
  <2>1. (Bytes(Inventory) - Bytes(E)) - Bytes(Older) > rule.max_bytes
    BY <1>4 DEF OverBudget
  <2>2. E \in SUBSET Inventory /\ Older \in SUBSET Inventory
    BY DEF CacheExpired, CacheCandidates
  <2> HIDE DEF E, Older
  <2>3. /\ Bytes(E) \in Nat /\ Bytes(Older) \in Nat /\ Bytes(Inventory) \in Nat
        /\ Bytes(Inventory) = Bytes(store) /\ rule.max_bytes \in Nat
    BY <1>4, <2>2, InventoryIs, InventoryBytes, BytesPart DEF CacheTypes, CacheRule
  <2>4. QED
    BY <1>4, <2>1, <2>3
<1>5. QED
  BY <1>1, <1>2, <1>3, <1>4

LEMMA NextJustified ==
  ASSUME CacheTypes, Justified, [Next]_vars
  PROVE  Justified'
<1>1. CASE Prepare \/ Prune \/ Finish
  BY <1>1 DEF Prepare, Prune, Finish, Settle, Justified
<1>2. CASE Revalidate
  <2>1. CASE Head(queue) \in CacheTargets
    <3>1. IsExpired(Head(queue)) \/ (rule.max_bytes # None /\ Bytes(store) > rule.max_bytes)
      BY <2>1, TargetWhy
    <3>2. UNCHANGED <<store, uses, clock, rule, queue>>
      BY <1>2, <2>1 DEF Revalidate
    <3>3. QED
      BY <3>1, <3>2 DEF Justified, IsExpired
  <2>2. CASE Head(queue) \notin CacheTargets
    BY <1>2, <2>2 DEF Revalidate, Settle, Justified
  <2>3. QED
    BY <2>1, <2>2
<1>3. CASE BuildUses
  <2>1. uses' # 0
    BY <1>3 DEF BuildUses, CacheTypes
  <2>2. QED
    BY <2>1 DEF Justified
<1>4. CASE Tick
  <2>1. UNCHANGED <<store, uses, rule, pc, queue>> /\ clock' = clock + 1
    BY <1>4 DEF Tick
  <2>2. CacheExpired(rule, store, clock) \subseteq CacheExpired(rule, store, clock + 1)
    <3>1. ASSUME NEW i \in store, MeetsFloor(AgeSeconds(clock, LastUsed(i)), rule.older_than)
          PROVE  MeetsFloor(AgeSeconds(clock + 1, LastUsed(i)), rule.older_than)
      <4>1. /\ LastUsed(i) \in Int \cup {None} /\ rule.older_than \in Nat \cup {None}
            /\ clock \in Int /\ clock + 1 \in Int /\ clock <= clock + 1
        BY DEF LastUsed, CacheTypes, CacheItem, CacheRule
      <4>2. QED
        BY <3>1, <4>1, FloorStays
    <3>2. QED
      BY <3>1 DEF CacheExpired
  <2>3. QED
    BY <2>1, <2>2 DEF Justified, IsExpired
<1>5. CASE UNCHANGED vars
  BY <1>5 DEF vars, Justified, IsExpired
<1>6. QED
  BY <1>1, <1>2, <1>3, <1>4, <1>5 DEF Next

-----------------------------------------------------------------------------
(* A record that nothing is built on leaves *)

\* The others keep what is built on them, except for the one that left.
LEMMA LeafLeaves ==
  ASSUME CacheTypes, NEW h, h \in StoreIds, Children(h) = {},
         store' = store \ {Record(h)}, NEW a \in StoreIds, a # h
  PROVE  Descendants(a)' = Descendants(a) \ {h}
<1>1. PICK x \in store : x.id = h /\ Record(h) = x
  BY RecordIs DEF StoreIds
<1>2. StoreIds' = StoreIds \ {h} /\ a \in StoreIds'
  BY <1>1 DEF StoreIds, CacheTypes
<1>3. store' = store \ {x} /\ \A i \in store' : i \in store /\ i.id # h
  BY <1>1 DEF CacheTypes
<1>4. \A i : /\ Children(i)' \subseteq Children(i)
             /\ Children(i) \subseteq Children(i)' \cup {x}
             /\ \A c \in Children(i)' : c.id # h
  BY <1>3 DEF Children
<1>5. /\ StoreIds \cup {a} = StoreIds
      /\ StoreIds' \cup {a} = StoreIds'
  BY <1>2
<1>6. ASSUME NEW d, d \in Descendants(a)'
      PROVE  d \in Descendants(a) /\ d # h
  <2>1. /\ d \in StoreIds'
        /\ \A ids \in SUBSET StoreIds' : a \in ids /\ Closed(ids)' => d \in ids
    BY <1>5, <1>6 DEF Descendants
  <2>2. ASSUME NEW ids \in SUBSET StoreIds, a \in ids, Closed(ids)
        PROVE  d \in ids
    <3> DEFINE kept == ids \ {h}
    <3>1. kept \in SUBSET StoreIds' /\ a \in kept
      BY <1>2, <2>2
    <3>2. Closed(kept)'
      BY <1>4, <2>2 DEF Closed
    <3>3. QED
      BY <2>1, <3>1, <3>2
  <2>3. QED
    BY <1>2, <1>5, <2>1, <2>2 DEF Descendants
<1>7. ASSUME NEW d, d \in Descendants(a), d # h
      PROVE  d \in Descendants(a)'
  <2>1. /\ d \in StoreIds
        /\ \A ids \in SUBSET StoreIds : a \in ids /\ Closed(ids) => d \in ids
    BY <1>5, <1>7 DEF Descendants
  <2>2. ASSUME NEW ids \in SUBSET StoreIds', a \in ids, Closed(ids)'
        PROVE  d \in ids
    <3> DEFINE more == ids \cup {h}
    <3>1. more \in SUBSET StoreIds /\ a \in more
      BY <1>2, <2>2
    <3>2. Closed(more)
      BY <1>1, <1>4, <2>2 DEF Closed
    <3>3. QED
      BY <1>7, <2>1, <3>1, <3>2
  <2>3. QED
    BY <1>2, <1>5, <1>7, <2>1, <2>2 DEF Descendants
<1>8. QED
  BY <1>6, <1>7

LEMMA InventoryLeaves ==
  ASSUME CacheTypes, NEW h, Prunable(h), store' = store \ {Record(h)}, UNCHANGED held
  PROVE  /\ Record(h) \in store /\ Record(h).id = h
         /\ Shown(Record(h)) \in Inventory
         /\ Inventory' = Inventory \ {Shown(Record(h))}
<1>1. PICK x \in store : x.id = h /\ Record(h) = x
  BY RecordIs DEF Prunable, StoreIds
<1>2. h \notin held
  BY DEF Prunable, Descendants, StoreIds
<1>3. ASSUME NEW i \in store, i # x
      PROVE  Shown(i)' = Shown(i)
  <2>1. i.id # h /\ i.id \in StoreIds
    BY <1>1, <1>3 DEF CacheTypes, StoreIds
  <2>2. Descendants(i.id)' = Descendants(i.id) \ {h}
    BY <2>1, LeafLeaves DEF Prunable
  <2>3. (Descendants(i.id)' \cap held # {}) = (Descendants(i.id) \cap held # {})
    BY <1>2, <2>2
  <2>4. QED
    BY <2>3 DEF Shown
<1>4. Inventory = {Shown(i) : i \in store}
  BY InventoryIs
<1>5. Inventory' = {Shown(i)' : i \in store \ {x}}
  BY <1>1 DEF Inventory, Shown
<1>6. Inventory' = {Shown(i) : i \in store \ {x}}
  BY <1>3, <1>5
<1>7. \A i \in store : Shown(i) = Shown(x) => i = x
  BY ShownIs DEF CacheTypes
<1>8. Inventory' = Inventory \ {Shown(x)}
  BY <1>4, <1>6, <1>7
<1>9. QED
  BY <1>1, <1>4, <1>8

-----------------------------------------------------------------------------
(* The budget *)

\* What the budget may evict, and what of it goes before s.
Candidates == CacheCandidates(Inventory, {})
Olds(s) == {c \in Candidates : CacheOlder(c, s)}

Queued == {queue[n] : n \in DOMAIN queue}

Undisturbed ==
  /\ uses = 0
  /\ pc \in {"next", "pruning", "done"}
  /\ rule.max_bytes # None
  /\ \A o \in report : o.status # "refused"

\* A candidate that is not, or no longer, to be removed stays because the cache
\* will be within the budget once the older candidates still queued are gone.
WithinBudget ==
  Undisturbed =>
    \A s \in Candidates :
      (s.id \notin Queued /\ \A c \in Olds(s) : c.id \in Queued)
        => Bytes(store) - Bytes(Olds(s)) <= rule.max_bytes

LEMMA CandidatesAre ==
  ASSUME CacheTypes
  PROVE  /\ Candidates \subseteq Inventory /\ Candidates \subseteq CacheItem
         /\ \A s \in Candidates :
              LastUsed(s) \in Int /\ Rank[s.id] \in Int /\ s.size \in Nat /\ ~s.referenced
         /\ \A s, t \in Candidates : Rank[s.id] = Rank[t.id] => s = t
<1>1. Candidates \subseteq Inventory /\ Inventory \subseteq CacheItem
  BY InventoryIs DEF Candidates, CacheCandidates
<1>2. \A s \in Candidates : ~s.referenced /\ s.size # None /\ LastUsed(s) # None
  BY DEF Candidates, CacheCandidates
<1>3. \A s \in CacheItem : /\ LastUsed(s) \in Int \cup {None} /\ s.size \in Nat \cup {None}
                           /\ s.id \in DOMAIN Rank
  BY DEF CacheItem, LastUsed
<1>4. \A s \in Candidates : LastUsed(s) \in Int /\ s.size \in Nat /\ Rank[s.id] \in Int
  BY <1>1, <1>2, <1>3, RankAssumption
<1>5. \A s, t \in Candidates : Rank[s.id] = Rank[t.id] => s = t
  <2>1. \A s, t \in Candidates : Rank[s.id] = Rank[t.id] => s.id = t.id
    BY <1>1, <1>3, RankAssumption
  <2>2. QED
    BY <1>1, <2>1, InventoryIs
<1>6. QED
  BY <1>1, <1>2, <1>4, <1>5

\* The code stops at the first candidate for which the rest is within the budget;
\* what is past the age floor is older than any candidate that is not.
LEMMA NotATarget ==
  ASSUME CacheTypes, rule.max_bytes # None,
         NEW s \in Candidates, s.id \notin CacheTargets
  PROVE  Bytes(store) - Bytes(Olds(s)) <= rule.max_bytes
<1> DEFINE E == CacheExpired(rule, Inventory, clock)
           C == CacheCandidates(Inventory, E)
           Older == {k \in C : CacheOlder(k, s)}
<1>1. CacheRemovals(rule, Inventory, clock) = E \cup OverBudget(rule, Inventory, E)
  BY InventoryIs DEF CacheRemovals, CacheTypes
<1>2. s \in Inventory /\ ~s.referenced /\ s.size # None /\ LastUsed(s) \in Int
  BY CandidatesAre DEF Candidates, CacheCandidates
<1>3. s \notin E /\ s \notin OverBudget(rule, Inventory, E)
  BY <1>1, <1>2 DEF CacheTargets
<1>4. s \in C
  BY <1>2, <1>3, NoneAssumption DEF CacheCandidates
<1>5. E \in SUBSET Inventory /\ Older \in SUBSET Inventory /\ Olds(s) \in SUBSET Inventory
  BY DEF CacheExpired, CacheCandidates, Olds, Candidates
<1>6. IsFiniteSet(Inventory) /\ Inventory \subseteq CacheItem /\ Bytes(Inventory) = Bytes(store)
  BY InventoryIs, InventoryBytes
<1>7. ~((Bytes(Inventory) - Bytes(E)) - Bytes(Older) > rule.max_bytes)
  BY <1>3, <1>4 DEF OverBudget
<1> DEFINE Sized == {i \in E : i.size # None}
<1>8. ASSUME NEW e \in E
      PROVE  LastUsed(e) \in Int /\ LastUsed(e) < LastUsed(s)
  <2>1. e \in CacheItem /\ s \in CacheItem
    BY <1>2, <1>5, <1>6
  <2>2. /\ LastUsed(e) \in Int \cup {None} /\ rule.older_than \in Nat \cup {None} /\ clock \in Int
        /\ MeetsFloor(AgeSeconds(clock, LastUsed(e)), rule.older_than)
        /\ ~MeetsFloor(AgeSeconds(clock, LastUsed(s)), rule.older_than)
    BY <1>2, <1>3, <2>1 DEF CacheExpired, LastUsed, CacheItem, CacheRule, CacheTypes
  <2>3. /\ LastUsed(e) \in Int /\ rule.older_than \in Nat
        /\ clock - LastUsed(e) >= AsSecs(rule.older_than) /\ clock >= LastUsed(e)
    <3>1. clock <= clock
      BY <2>2
    <3>2. QED
      BY <2>2, <3>1, FloorStays
  <2>4. ~(clock - LastUsed(s) >= AsSecs(rule.older_than) /\ clock >= LastUsed(s))
    BY <1>2, <2>2, <2>3, NoneAssumption DEF MeetsFloor, AgeSeconds
  <2>5. AsSecs(rule.older_than) \in Int
    BY <2>3 DEF AsSecs
  <2>6. QED
    BY <1>2, <2>2, <2>3, <2>4, <2>5
<1>9. Olds(s) = Older \cup Sized /\ Older \cap Sized = {}
  <2>1. \A e \in Sized : e \in Candidates /\ CacheOlder(e, s)
    BY <1>5, <1>8, NoneAssumption DEF Candidates, CacheCandidates, CacheOlder, CacheExpired
  <2>2. \A c \in Candidates : c \in C \/ c \in Sized
    BY DEF Candidates, CacheCandidates
  <2>3. \A c \in C : c \in Candidates /\ c \notin Sized
    BY DEF Candidates, CacheCandidates
  <2> HIDE DEF C, Sized
  <2>4. QED
    BY <2>1, <2>2, <2>3 DEF Olds
<1>10. Bytes(Sized) = Bytes(E)
  <2>1. {i \in Sized : i.size # None} = {i \in E : i.size # None}
    OBVIOUS
  <2>2. QED
    BY <2>1 DEF Bytes
<1>11. Olds(s) \ Older = Sized
  <2> HIDE DEF Sized, Older
  <2>1. QED
    BY <1>9
<1> HIDE DEF E, C, Older, Sized
<1>12. Bytes(Olds(s)) = Bytes(Older) + Bytes(E) /\ Bytes(Older) \in Nat /\ Bytes(E) \in Nat
  <2>1. IsFiniteSet(Olds(s)) /\ Olds(s) \subseteq CacheItem /\ Older \in SUBSET Olds(s)
    BY <1>5, <1>6, <1>9, FS_Subset
  <2>2. Bytes(Olds(s)) = Bytes(Older) + Bytes(Olds(s) \ Older)
        /\ Bytes(Older) \in Nat /\ Bytes(Olds(s) \ Older) \in Nat
    BY <2>1, BytesPart
  <2>3. QED
    BY <1>10, <1>11, <2>2
<1>13. Bytes(Inventory) \in Nat /\ rule.max_bytes \in Nat
  BY <1>6, InventoryBytes DEF CacheTypes, CacheRule
<1>14. PICK a \in Nat, b \in Nat, t \in Nat, m \in Nat :
         a = Bytes(Older) /\ b = Bytes(E) /\ t = Bytes(Inventory) /\ m = rule.max_bytes
  BY <1>12, <1>13
<1>15. ~((t - b) - a > m)
  BY <1>7, <1>14
<1>16. t - (a + b) <= m
  BY <1>15
<1>17. QED
  BY <1>6, <1>12, <1>14, <1>16

\* When nothing is queued any more the oldest candidate says so of the whole cache.
LEMMA AllSettled ==
  ASSUME CacheTypes, WithinBudget, Undisturbed, queue = <<>>, Candidates # {}
  PROVE  Bytes(store) <= rule.max_bytes
<1> DEFINE B == {Olds(s) : s \in Candidates}
<1>1. B \in SUBSET SUBSET Inventory /\ B # {} /\ IsFiniteSet(Inventory)
  <2>1. \A s \in Candidates : Olds(s) \subseteq Inventory
    BY CandidatesAre DEF Olds
  <2>2. QED
    BY <2>1, InventoryBytes
<1>2. PICK m \in B : \A o \in B : o \subseteq m => o = m
  <2> HIDE DEF B
  <2>1. QED
    BY <1>1, SmallestSet
<1>3. PICK s \in Candidates : m = Olds(s)
  BY <1>2
<1>4. ASSUME NEW c \in Olds(s)
      PROVE  FALSE
  <2>1. c \in Candidates /\ CacheOlder(c, s)
    BY <1>4 DEF Olds
  <2>2. ~CacheOlder(c, c)
    BY <2>1, CandidatesAre DEF CacheOlder
  <2>3. \A k \in Candidates : CacheOlder(k, c) => CacheOlder(k, s)
    BY <1>3, <2>1, CandidatesAre DEF CacheOlder
  <2>4. Olds(c) \subseteq Olds(s) /\ c \notin Olds(c)
    BY <2>2, <2>3 DEF Olds
  <2>5. QED
    BY <1>2, <1>3, <1>4, <2>1, <2>4
<1>5. Olds(s) = {}
  BY <1>4
<1>6. Queued = {}
  BY DEF Queued
<1>7. Bytes(store) - Bytes(Olds(s)) <= rule.max_bytes
  BY <1>3, <1>5, <1>6 DEF WithinBudget
<1>8. Bytes(store) \in Nat /\ rule.max_bytes \in Nat
  BY InventoryBytes DEF CacheTypes, CacheRule, Undisturbed
<1>9. Bytes({}) = 0
  BY NoBytes
<1>10. QED
  BY <1>5, <1>7, <1>8, <1>9

LEMMA NextWithinBudget ==
  ASSUME CacheTypes, WithinBudget, [Next]_vars
  PROVE  WithinBudget'
<1>1. SUFFICES ASSUME Undisturbed',
                      NEW s, s \in Candidates', s.id \notin Queued',
                      \A c \in Olds(s)' : c.id \in Queued'
               PROVE  (Bytes(store) - Bytes(Olds(s)) <= rule.max_bytes)'
  BY DEF WithinBudget
<1>2. CASE Prepare
  <2>1. UNCHANGED <<store, held, rule>>
    BY <1>2 DEF Prepare
  <2>2. s \in Candidates /\ Olds(s)' = Olds(s)
    BY <1>1, <2>1 DEF Candidates, Olds, Inventory, Descendants, Closed, Children, StoreIds
  <2>3. Queued' = CacheTargets
    <3>1. PICK targets \in SetToSeqs(CacheTargets) : queue' = targets
      BY <1>2 DEF Prepare
    <3>2. QED
      BY <3>1, ListIs, TargetsAre DEF Queued
  <2>4. rule.max_bytes # None /\ s.id \notin CacheTargets
    BY <1>1, <2>1, <2>3 DEF Undisturbed
  <2>5. QED
    BY <2>1, <2>2, <2>4, NotATarget
<1>3. CASE Revalidate /\ Head(queue) \in CacheTargets
  <2>1. UNCHANGED <<store, held, uses, rule, queue, report>> /\ pc = "next"
    BY <1>3 DEF Revalidate
  <2>2. Candidates' = Candidates /\ Olds(s)' = Olds(s) /\ Queued' = Queued
    BY <2>1 DEF Candidates, Olds, Inventory, Descendants, Closed, Children, StoreIds, Queued
  <2>3. Undisturbed
    BY <1>1, <2>1 DEF Undisturbed
  <2>4. QED
    BY <1>1, <2>1, <2>2, <2>3 DEF WithinBudget
<1>4. CASE Revalidate /\ Head(queue) \notin CacheTargets
  <2>1. Settle("skipped") /\ UNCHANGED store /\ queue # <<>> /\ pc = "next"
    BY <1>4 DEF Revalidate
  <2>2. UNCHANGED <<store, held, uses, rule>>
    BY <2>1 DEF Settle
  <2>3. s \in Candidates /\ Olds(s)' = Olds(s)
    BY <1>1, <2>2 DEF Candidates, Olds, Inventory, Descendants, Closed, Children, StoreIds
  <2>4. Queued' \subseteq Queued /\ Queued \subseteq Queued' \cup {Head(queue)}
    BY <2>1, SettleTakes DEF Queued
  <2>5. report \subseteq report'
    BY <2>1 DEF Settle
  <2>6. Undisturbed
    BY <1>1, <2>1, <2>2, <2>5 DEF Undisturbed
  <2>7. CASE s.id = Head(queue)
    <3>1. Bytes(store) - Bytes(Olds(s)) <= rule.max_bytes
      BY <1>4, <2>3, <2>6, <2>7, NotATarget DEF Undisturbed
    <3>2. QED
      BY <2>2, <2>3, <3>1
  <2>8. CASE s.id # Head(queue)
    <3>1. s.id \notin Queued /\ \A c \in Olds(s) : c.id \in Queued
      BY <1>1, <2>3, <2>4, <2>8
    <3>2. Bytes(store) - Bytes(Olds(s)) <= rule.max_bytes
      BY <2>3, <2>6, <3>1 DEF WithinBudget
    <3>3. QED
      BY <2>2, <2>3, <3>2
  <2>9. QED
    BY <2>7, <2>8
<1>5. CASE Prune /\ ~Prunable(Head(queue))
  <2>1. [id |-> Head(queue), status |-> "refused"] \in report'
    BY <1>5 DEF Prune, Settle
  <2>2. QED
    BY <1>1, <2>1 DEF Undisturbed
<1>6. CASE Prune /\ Prunable(Head(queue))
  <2> DEFINE h == Head(queue)
             x == Record(h)
  <2>1. Settle("removed") /\ store' = store \ {Record(h)} /\ pc = "pruning" /\ queue # <<>>
    BY <1>6 DEF Prune, CacheTypes
  <2>2. UNCHANGED <<held, uses, rule>> /\ report \subseteq report'
    BY <2>1 DEF Settle
  <2>3. /\ x \in store /\ x.id = h /\ Shown(x) \in Inventory
        /\ Inventory' = Inventory \ {Shown(x)}
    BY <1>6, <2>1, <2>2, InventoryLeaves
  <2>4. Queued' \subseteq Queued /\ Queued \subseteq Queued' \cup {h} /\ h \in Queued
    BY <2>1, SettleTakes DEF Queued
  <2>5. Undisturbed
    BY <1>1, <2>1, <2>2 DEF Undisturbed
  <2>6. Candidates' = Candidates \ {Shown(x)}
    BY <2>3 DEF Candidates, CacheCandidates
  <2>7. s \in Candidates /\ Olds(s)' = Olds(s) \ {Shown(x)} /\ s # Shown(x)
    BY <1>1, <2>6 DEF Olds
  <2>8. Shown(x).id = h /\ Shown(x).size = x.size /\ x \in CacheItem
    BY <2>3, ShownIs DEF CacheTypes
  <2> HIDE DEF h, x
  <2>9. s.id # h
    BY <2>3, <2>7, <2>8, CandidatesAre, InventoryIs
  <2>10. s.id \notin Queued /\ \A c \in Olds(s) : c.id \in Queued
    <3>1. \A c \in Olds(s) : c = Shown(x) \/ c.id \in Queued'
      BY <1>1, <2>7
    <3>2. QED
      BY <1>1, <2>4, <2>8, <2>9, <3>1
  <2>11. Bytes(store) - Bytes(Olds(s)) <= rule.max_bytes
    BY <2>5, <2>7, <2>10 DEF WithinBudget
  <2>12. Bytes(store) = SizeOf(x) + Bytes(store') /\ Bytes(store') \in Nat /\ SizeOf(x) \in Nat
    <3>1. IsFiniteSet(store) /\ store \subseteq CacheItem /\ store' = store \ {x} /\ store' \in SUBSET store
      BY <2>1 DEF CacheTypes, x
    <3>2. Bytes(store) = SizeOf(x) + Bytes(store \ {x})
      BY <2>3, <3>1, BytesTakes
    <3>3. Bytes(store') \in Nat
      BY <3>1, BytesPart
    <3>4. SizeOf(x) \in Nat
      BY <2>8 DEF SizeOf, CacheItem
    <3>5. QED
      BY <3>1, <3>2, <3>3, <3>4
  <2>13. /\ IsFiniteSet(Olds(s)) /\ Olds(s) \subseteq CacheItem
         /\ Bytes(Olds(s)) \in Nat /\ Bytes(Olds(s)') \in Nat
    <3>1. IsFiniteSet(Olds(s)) /\ Olds(s) \subseteq CacheItem
      <4>1. Olds(s) \in SUBSET Inventory
        BY CandidatesAre DEF Olds
      <4>2. QED
        BY <4>1, InventoryBytes, InventoryIs, FS_Subset
    <3>2. Olds(s)' \in SUBSET Olds(s) /\ Olds(s) \in SUBSET Olds(s)
      BY <2>7
    <3>3. QED
      BY <3>1, <3>2, BytesPart
  <2>14. Bytes(Olds(s)) <= SizeOf(x) + Bytes(Olds(s)')
    <3>1. CASE Shown(x) \in Olds(s)
      <4>1. Bytes(Olds(s)) = SizeOf(Shown(x)) + Bytes(Olds(s) \ {Shown(x)})
        BY <2>13, <3>1, BytesTakes
      <4>2. SizeOf(Shown(x)) = SizeOf(x)
        BY <2>8 DEF SizeOf
      <4>3. QED
        BY <2>7, <2>12, <2>13, <4>1, <4>2
    <3>2. CASE Shown(x) \notin Olds(s)
      <4>1. Olds(s)' = Olds(s)
        BY <2>7, <3>2
      <4>2. QED
        BY <2>12, <2>13, <4>1
    <3>3. QED
      BY <3>1, <3>2
  <2>15. rule' = rule /\ rule.max_bytes \in Nat
    BY <2>2, <2>5 DEF Undisturbed, CacheTypes, CacheRule
  <2>16. PICK b \in Nat, n \in Nat, o \in Nat, p \in Nat, m \in Nat :
           /\ b = Bytes(store') /\ n = SizeOf(x) /\ o = Bytes(Olds(s)) /\ p = Bytes(Olds(s)')
           /\ m = rule.max_bytes
    BY <2>12, <2>13, <2>15
  <2>17. (n + b) - o <= m /\ o <= n + p
    BY <2>11, <2>12, <2>14, <2>16
  <2>18. b - p <= m
    BY <2>17
  <2>19. QED
    BY <2>15, <2>16, <2>18
<1>7. CASE Finish \/ Tick \/ UNCHANGED vars
  <2>1. UNCHANGED <<store, held, uses, rule, queue, report>> /\ (pc' = pc \/ pc = "next")
    BY <1>7 DEF Finish, Tick, vars
  <2>2. Candidates' = Candidates /\ Olds(s)' = Olds(s) /\ Queued' = Queued
    BY <2>1 DEF Candidates, Olds, Inventory, Descendants, Closed, Children, StoreIds, Queued
  <2>3. Undisturbed
    BY <1>1, <2>1 DEF Undisturbed
  <2>4. QED
    BY <1>1, <2>1, <2>2, <2>3 DEF WithinBudget
<1>8. CASE BuildUses
  <2>1. uses' # 0
    BY <1>8 DEF BuildUses, CacheTypes
  <2>2. QED
    BY <1>1, <2>1 DEF Undisturbed
<1>9. QED
  BY <1>2, <1>3, <1>4, <1>5, <1>6, <1>7, <1>8 DEF Next

-----------------------------------------------------------------------------
(* Induction and recursion over 0..n *)

\* A set of numbers has a least one.
LEMMA LeastOf ==
  ASSUME NEW S \in SUBSET Nat, S # {}
  PROVE  \E m \in S : \A k \in S : m <= k
<1>1. PICK m \in S : \A k \in S : ~(<<k, m>> \in OpToRel(<, Nat))
  BY NatLessThanWellFounded, WFMin
<1>2. \A k \in S : ~(k < m)
  BY <1>1 DEF OpToRel
<1>3. QED
  BY <1>2

\* Induction over 0..n, for a set.
LEMMA UpTo ==
  ASSUME NEW n \in Nat, NEW S, 0 \in S, \A i \in 1..n : i - 1 \in S => i \in S
  PROVE  \A i \in 0..n : i \in S
<1> DEFINE missing == {i \in 0..n : i \notin S}
<1>1. SUFFICES ASSUME missing # {}
               PROVE  FALSE
  OBVIOUS
<1>2. missing \in SUBSET Nat
  OBVIOUS
<1>3. PICK m \in missing : \A k \in missing : m <= k
  <2> HIDE DEF missing
  <2>1. QED
    BY <1>1, <1>2, LeastOf
<1>4. m \in 1..n /\ m - 1 \in 0..n /\ m - 1 \notin missing
  BY <1>2, <1>3
<1>5. QED
  BY <1>3, <1>4

\* f begins with b and G[i] gives each further value from the one before it.
Follows(f, n, b, G) == f[0] = b /\ \A i \in 1..n : f[i] = G[i][f[i - 1]]

\* There is such a function.
LEMMA Recursion ==
  ASSUME NEW n \in Nat, NEW D, NEW b \in D, NEW G \in [1..n -> [D -> D]]
  PROVE  \E f \in [0..n -> D] : Follows(f, n, b, G)
<1> DEFINE Upto(k) == \E f \in [0..k -> D] : f[0] = b /\ \A i \in 1..k : f[i] = G[i][f[i - 1]]
<1>1. Upto(0)
  <2> DEFINE f == [i \in 0..0 |-> b]
  <2>1. f \in [0..0 -> D] /\ f[0] = b /\ \A i \in 1..0 : f[i] = G[i][f[i - 1]]
    OBVIOUS
  <2>2. QED
    BY <2>1
<1>2. \A k \in 1..n : Upto(k - 1) => Upto(k)
  <2>1. SUFFICES ASSUME NEW k \in 1..n, NEW f \in [0..(k - 1) -> D], f[0] = b,
                        \A i \in 1..(k - 1) : f[i] = G[i][f[i - 1]]
                 PROVE  Upto(k)
    OBVIOUS
  <2> DEFINE g == [i \in 0..k |-> IF i = k THEN G[k][f[k - 1]] ELSE f[i]]
  <2>2. G[k][f[k - 1]] \in D
    BY <2>1
  <2>3. g \in [0..k -> D]
    BY <2>1, <2>2
  <2>4. g[0] = b
    BY <2>1
  <2>5. \A i \in 1..k : g[i] = G[i][g[i - 1]]
    BY <2>1
  <2>6. QED
    BY <2>3, <2>4, <2>5
<1> DEFINE S == {k \in 0..n : Upto(k)}
<1> HIDE DEF Upto
<1>3. 0 \in S /\ \A i \in 1..n : i - 1 \in S => i \in S
  BY <1>1, <1>2
<1>4. n \in S
  <2> HIDE DEF S
  <2>1. \A i \in 0..n : i \in S
    BY <1>3, UpTo
  <2>2. QED
    BY <2>1
<1>5. QED
  BY <1>4 DEF Upto, Follows

\* A recursive function over 0..n has its values where each step stays there.
LEMMA StaysIn ==
  ASSUME NEW n \in Nat, NEW D, NEW f, f = [i \in 0..n |-> f[i]],
         f[0] \in D, \A i \in 1..n : f[i - 1] \in D => f[i] \in D
  PROVE  f \in [0..n -> D]
<1> DEFINE T == {i \in 0..n : f[i] \in D}
<1>1. 0 \in T /\ \A i \in 1..n : i - 1 \in T => i \in T
  OBVIOUS
<1>2. \A i \in 0..n : i \in T
  <2> HIDE DEF T
  <2>1. QED
    BY <1>1, UpTo
<1>3. QED
  BY <1>2

-----------------------------------------------------------------------------
(* What a call of cache_depth does *)

Outcomes(ids) == [depth : Nat, memo : Memos(ids)]
Calls(ids) == ids \X Memos(ids) \X SUBSET ids
Callees(ids) == [Calls(ids) -> Outcomes(ids)]

\* The walk after one parent more.
Above(call, walk, id, visiting) ==
  [depth |-> Deeper(walk.depth, call[<<id, walk.memo, visiting>>].depth + 1),
   memo  |-> call[<<id, walk.memo, visiting>>].memo]

LEMMA AboveType ==
  ASSUME NEW ids, NEW call \in Callees(ids), NEW walk \in Outcomes(ids),
         NEW id \in ids, NEW visiting \in SUBSET ids
  PROVE  /\ Above(call, walk, id, visiting) \in Outcomes(ids)
         /\ <<id, walk.memo, visiting>> \in Calls(ids)
<1>1. walk.memo \in Memos(ids) /\ walk.depth \in Nat
  BY DEF Outcomes
<1>2. <<id, walk.memo, visiting>> \in Calls(ids)
  BY <1>1 DEF Calls
<1>3. PICK up \in Outcomes(ids) : up = call[<<id, walk.memo, visiting>>]
  BY <1>2 DEF Callees
<1>4. up.depth \in Nat /\ up.memo \in Memos(ids)
  BY <1>3 DEF Outcomes
<1>5. Deeper(walk.depth, up.depth + 1) \in Nat
  BY <1>1, <1>4 DEF Deeper
<1>6. QED
  BY <1>2, <1>3, <1>4, <1>5 DEF Above, Outcomes

\* The walk over the parents, one after the other, for a record not yet visited.
Climbs(climb, call, parents, id, memo, visiting) ==
  LET L == Len(parents[id])
  IN  /\ climb[0] = [depth |-> 0, memo |-> memo]
      /\ \A n \in 1..L : climb[n] = Above(call, climb[n - 1], parents[id][n], visiting \cup {id})
      /\ CacheDepth(call, parents, id, memo, visiting) =
           [depth |-> climb[L].depth, memo |-> [climb[L].memo EXCEPT ![id] = climb[L].depth]]

LEMMA ClimbIs ==
  ASSUME NEW ids, NEW call \in Callees(ids), NEW parents \in [ids -> Seq(ids)],
         NEW id \in ids, NEW memo \in Memos(ids), NEW visiting \in SUBSET ids,
         memo[id] = None, id \notin visiting
  PROVE  \E climb \in [0..Len(parents[id]) -> Outcomes(ids)] :
           Climbs(climb, call, parents, id, memo, visiting)
<1> DEFINE Body(c, n) ==
             IF n = 0 THEN [depth |-> 0, memo |-> memo]
             ELSE LET up == call[<<parents[id][n], c[n - 1].memo, visiting \cup {id}>>]
                  IN  [depth |-> Deeper(c[n - 1].depth, up.depth + 1), memo |-> up.memo]
           Climbing(c) == c = [n \in 0..Len(parents[id]) |-> Body(c, n)]
           climb == CHOOSE c : Climbing(c)
<1>1. PICK L \in Nat : L = Len(parents[id]) /\ \A n \in 1..L : parents[id][n] \in ids
  OBVIOUS
<1>2. PICK vis \in SUBSET ids : vis = visiting \cup {id}
  OBVIOUS
<1>3. PICK D : D = Outcomes(ids)
  OBVIOUS
<1> DEFINE b == [depth |-> 0, memo |-> memo]
           G == [n \in 1..L |-> [w \in D |-> Above(call, w, parents[id][n], vis)]]
<1>4. b \in D
  BY <1>3 DEF Outcomes
<1>5. G \in [1..L -> [D -> D]]
  BY <1>1, <1>2, <1>3, AboveType
<1>6. PICK f \in [0..L -> D] : Follows(f, L, b, G)
  <2> HIDE DEF G, b
  <2>1. QED
    BY <1>4, <1>5, Recursion
<1>7. f[0] = b /\ \A n \in 1..L : f[n] = Above(call, f[n - 1], parents[id][n], vis)
  <2>1. ASSUME NEW n \in 1..L
        PROVE  f[n - 1] \in D /\ f[n] = G[n][f[n - 1]]
    <3>1. n - 1 \in 0..L
      OBVIOUS
    <3>2. f[n] = G[n][f[n - 1]]
      BY <1>6 DEF Follows
    <3>3. QED
      BY <1>6, <3>1, <3>2
  <2>2. f[0] = b
    BY <1>6 DEF Follows
  <2>3. QED
    BY <2>1, <2>2
<1>8. \A c, n : Body(c, n) = IF n = 0 THEN b ELSE Above(call, c[n - 1], parents[id][n], vis)
  BY <1>2 DEF Above
<1> HIDE DEF Body
<1>9. Climbing(f)
  <2>1. \A n \in 0..L : f[n] = Body(f, n)
    BY <1>7, <1>8
  <2>2. QED
    BY <1>1, <2>1
<1>10. Climbing(climb)
  <2> HIDE DEF Climbing
  <2>1. QED
    BY <1>9
<1>11. CacheDepth(call, parents, id, memo, visiting) =
         [depth |-> climb[L].depth, memo |-> [climb[L].memo EXCEPT ![id] = climb[L].depth]]
  BY <1>1 DEF CacheDepth, Body
<1> HIDE DEF climb
<1>12. climb[0] = b /\ \A n \in 1..L : climb[n] = Above(call, climb[n - 1], parents[id][n], vis)
  <2> HIDE DEF b
  <2>1. \A n \in 0..L : climb[n] = Body(climb, n)
    BY <1>1, <1>10
  <2>2. 0 \in 0..L /\ \A n \in 1..L : n \in 0..L /\ n # 0
    OBVIOUS
  <2>3. QED
    BY <1>8, <2>1, <2>2
<1>13. climb \in [0..L -> D]
  <2>1. climb = [n \in 0..L |-> climb[n]]
    BY <1>1, <1>10
  <2>2. ASSUME NEW n \in 1..L, climb[n - 1] \in D
        PROVE  climb[n] \in D
    <3>1. climb[n - 1] \in Outcomes(ids) /\ parents[id][n] \in ids
      BY <1>1, <1>3, <2>2
    <3>2. Above(call, climb[n - 1], parents[id][n], vis) \in Outcomes(ids)
      BY <3>1, AboveType
    <3>3. QED
      BY <1>3, <1>12, <3>2
  <2>3. climb[0] \in D
    BY <1>4, <1>12
  <2> HIDE DEF b
  <2>4. QED
    BY <2>1, <2>2, <2>3, StaysIn
<1>14. Climbs(climb, call, parents, id, memo, visiting)
  BY <1>1, <1>2, <1>11, <1>12 DEF Climbs
<1>15. QED
  BY <1>1, <1>3, <1>13, <1>14

LEMMA DepthType ==
  ASSUME NEW ids, NEW call \in Callees(ids), NEW parents \in [ids -> Seq(ids)],
         NEW id \in ids, NEW memo \in Memos(ids), NEW visiting \in SUBSET ids
  PROVE  CacheDepth(call, parents, id, memo, visiting) \in Outcomes(ids)
<1>1. CASE memo[id] # None
  <2>1. memo[id] \in Nat
    BY <1>1 DEF Memos
  <2>2. CacheDepth(call, parents, id, memo, visiting) = [depth |-> memo[id], memo |-> memo]
    BY <1>1 DEF CacheDepth
  <2>3. QED
    BY <2>1, <2>2 DEF Outcomes
<1>2. CASE memo[id] = None /\ id \in visiting
  <2>1. CacheDepth(call, parents, id, memo, visiting) = [depth |-> 0, memo |-> memo]
    BY <1>2 DEF CacheDepth
  <2>2. QED
    BY <2>1 DEF Outcomes
<1>3. CASE memo[id] = None /\ id \notin visiting
  <2>1. PICK climb \in [0..Len(parents[id]) -> Outcomes(ids)] :
          Climbs(climb, call, parents, id, memo, visiting)
    BY <1>3, ClimbIs
  <2>2. PICK top \in Outcomes(ids) : top = climb[Len(parents[id])]
    <3>1. Len(parents[id]) \in 0..Len(parents[id])
      OBVIOUS
    <3>2. QED
      BY <2>1, <3>1
  <2>3. top.depth \in Nat /\ top.memo \in Memos(ids)
    BY <2>2 DEF Outcomes
  <2>4. [top.memo EXCEPT ![id] = top.depth] \in Memos(ids)
    BY <2>3 DEF Memos
  <2>5. CacheDepth(call, parents, id, memo, visiting) =
          [depth |-> top.depth, memo |-> [top.memo EXCEPT ![id] = top.depth]]
    BY <2>1, <2>2 DEF Climbs
  <2>6. QED
    BY <2>3, <2>4, <2>5 DEF Outcomes
<1>4. QED
  BY <1>1, <1>2, <1>3

Known(parents) == [id \in DOMAIN parents |-> InOrder(parents[id] \cap DOMAIN parents)]

\* Calls that may nest n deep, and the memo after n roots.
Computes(calls, memos, parents, order) ==
  LET ids == DOMAIN parents
      L   == Len(order)
  IN  /\ \A n \in 1..(L + 1) : \A c \in Calls(ids) :
           calls[n][c] = CacheDepth(calls[n - 1], Known(parents), c[1], c[2], c[3])
      /\ memos[0] = [id \in ids |-> None]
      /\ \A n \in 1..L : memos[n] = calls[L + 1][<<order[n], memos[n - 1], {}>>].memo
      /\ CacheDepths(parents, order) = memos[L]

LEMMA DepthsAre ==
  ASSUME NEW ids, NEW parents, ids = DOMAIN parents, Known(parents) \in [ids -> Seq(ids)],
         NEW order \in Seq(ids)
  PROVE  \E calls \in [0..(Len(order) + 1) -> Callees(ids)], memos \in [0..Len(order) -> Memos(ids)] :
           Computes(calls, memos, parents, order)
<1>1. PICK L \in Nat : L = Len(order) /\ \A n \in 1..L : order[n] \in ids
  OBVIOUS
<1>2. PICK known \in [ids -> Seq(ids)] : known = Known(parents)
  OBVIOUS
<1> DEFINE Level(h, n) ==
             [c \in ids \X Memos(ids) \X SUBSET ids |->
                IF n = 0 THEN [depth |-> 0, memo |-> c[2]]
                ELSE CacheDepth(h[n - 1], known, c[1], c[2], c[3])]
           Calling(h) == h = [n \in 0..(L + 1) |-> Level(h, n)]
           calls == CHOOSE h : Calling(h)
           Turn(m, n) ==
             IF n = 0 THEN [id \in ids |-> None]
             ELSE calls[L + 1][<<order[n], m[n - 1], {}>>].memo
           Noting(m) == m = [n \in 0..L |-> Turn(m, n)]
           memos == CHOOSE m : Noting(m)
<1>3. CacheDepths(parents, order) = memos[L]
  BY <1>1, <1>2 DEF CacheDepths, Known
<1> DEFINE base == [c \in Calls(ids) |-> [depth |-> 0, memo |-> c[2]]]
           Rise(h) == [c \in Calls(ids) |-> CacheDepth(h, known, c[1], c[2], c[3])]
           D == Callees(ids)
           G == [n \in 1..(L + 1) |-> [h \in D |-> Rise(h)]]
<1>4. base \in D
  <2>1. \A c \in Calls(ids) : c[2] \in Memos(ids)
    BY DEF Calls
  <2>2. \A c \in Calls(ids) : [depth |-> 0, memo |-> c[2]] \in Outcomes(ids)
    BY <2>1 DEF Outcomes
  <2>3. QED
    BY <2>2 DEF Callees
<1>5. ASSUME NEW h \in D
      PROVE  Rise(h) \in D
  <2>1. ASSUME NEW c \in Calls(ids)
        PROVE  CacheDepth(h, known, c[1], c[2], c[3]) \in Outcomes(ids)
    <3>1. c[1] \in ids /\ c[2] \in Memos(ids) /\ c[3] \in SUBSET ids
      BY DEF Calls
    <3>2. QED
      BY <3>1, DepthType
  <2>2. QED
    BY <2>1 DEF Callees
<1>6. \A h, n : Level(h, n) = IF n = 0 THEN base ELSE Rise(h[n - 1])
  BY DEF Calls
<1> HIDE DEF Level
<1>7. PICK f \in [0..(L + 1) -> D] : f[0] = base /\ \A n \in 1..(L + 1) : f[n] = Rise(f[n - 1])
  <2>1. G \in [1..(L + 1) -> [D -> D]]
    BY <1>5
  <2> HIDE DEF G, D, base, Rise
  <2>2. PICK f \in [0..(L + 1) -> D] : Follows(f, L + 1, base, G)
    <3>1. PICK N \in Nat : N = L + 1
      OBVIOUS
    <3>2. \E f \in [0..N -> D] : Follows(f, N, base, G)
      BY <1>4, <2>1, <3>1, Recursion
    <3>3. QED
      BY <3>1, <3>2
  <2>3. ASSUME NEW n \in 1..(L + 1)
        PROVE  f[n] = Rise(f[n - 1])
    <3>1. n - 1 \in 0..(L + 1)
      OBVIOUS
    <3>2. f[n] = G[n][f[n - 1]] /\ f[n - 1] \in D
      BY <2>2, <3>1 DEF Follows
    <3>3. QED
      BY <3>2 DEF G
  <2>4. QED
    BY <2>2, <2>3 DEF Follows
<1> HIDE DEF D, base, Rise
<1>8. Calling(f)
  <2>1. ASSUME NEW n \in 0..(L + 1)
        PROVE  f[n] = Level(f, n)
    BY <1>6, <1>7
  <2>2. QED
    BY <1>7, <2>1
<1>9. Calling(calls)
  <2> HIDE DEF Calling
  <2>1. QED
    BY <1>8
<1> HIDE DEF calls
<1>10. calls[0] = base /\ \A n \in 1..(L + 1) : calls[n] = Rise(calls[n - 1])
  <2>1. \A n \in 0..(L + 1) : calls[n] = Level(calls, n)
    BY <1>9
  <2>2. 0 \in 0..(L + 1) /\ \A n \in 1..(L + 1) : n \in 0..(L + 1) /\ n # 0
    OBVIOUS
  <2>3. QED
    BY <1>6, <2>1, <2>2
<1>11. calls \in [0..(L + 1) -> D]
  <2>1. calls = [n \in 0..(L + 1) |-> calls[n]]
    BY <1>9
  <2>2. L + 1 \in Nat
    OBVIOUS
  <2>3. calls[0] \in D /\ \A n \in 1..(L + 1) : calls[n - 1] \in D => calls[n] \in D
    BY <1>4, <1>5, <1>10
  <2>4. QED
    BY <2>1, <2>2, <2>3, StaysIn
<1>12. PICK top \in Callees(ids) : top = calls[L + 1]
  <2>1. L + 1 \in 0..(L + 1)
    OBVIOUS
  <2>2. QED
    BY <1>11, <2>1 DEF D
<1> DEFINE none == [id \in ids |-> None]
           H == [n \in 1..L |-> [m \in Memos(ids) |-> top[<<order[n], m, {}>>].memo]]
<1>13. none \in Memos(ids)
  BY DEF Memos
<1>14. ASSUME NEW n \in 1..L, NEW m \in Memos(ids)
       PROVE  top[<<order[n], m, {}>>].memo \in Memos(ids)
  <2>1. order[n] \in ids
    BY <1>1
  <2>2. <<order[n], m, {}>> \in Calls(ids)
    BY <2>1 DEF Calls
  <2>3. top[<<order[n], m, {}>>] \in Outcomes(ids)
    BY <2>2 DEF Callees
  <2>4. QED
    BY <2>3 DEF Outcomes
<1>15. \A m, n : Turn(m, n) = IF n = 0 THEN none ELSE top[<<order[n], m[n - 1], {}>>].memo
  BY <1>12
<1> HIDE DEF Turn
<1>16. PICK g \in [0..L -> Memos(ids)] :
         g[0] = none /\ \A n \in 1..L : g[n] = top[<<order[n], g[n - 1], {}>>].memo
  <2>1. H \in [1..L -> [Memos(ids) -> Memos(ids)]]
    BY <1>14
  <2> HIDE DEF H, none
  <2>2. PICK g \in [0..L -> Memos(ids)] : Follows(g, L, none, H)
    BY <1>13, <2>1, Recursion
  <2>3. ASSUME NEW n \in 1..L
        PROVE  g[n] = top[<<order[n], g[n - 1], {}>>].memo
    <3>1. n - 1 \in 0..L
      OBVIOUS
    <3>2. g[n] = H[n][g[n - 1]] /\ g[n - 1] \in Memos(ids)
      BY <2>2, <3>1 DEF Follows
    <3>3. QED
      BY <3>2 DEF H
  <2>4. QED
    BY <2>2, <2>3 DEF Follows
<1> HIDE DEF none
<1>17. Noting(g)
  <2>1. ASSUME NEW n \in 0..L
        PROVE  g[n] = Turn(g, n)
    <3>1. n = 0 \/ n \in 1..L
      OBVIOUS
    <3>2. QED
      BY <1>15, <1>16, <3>1
  <2>2. QED
    BY <1>16, <2>1
<1>18. Noting(memos)
  <2> HIDE DEF Noting
  <2>1. QED
    BY <1>17
<1> HIDE DEF memos
<1>19. memos[0] = none /\ \A n \in 1..L : memos[n] = top[<<order[n], memos[n - 1], {}>>].memo
  <2>1. \A n \in 0..L : memos[n] = Turn(memos, n)
    BY <1>18
  <2>2. 0 \in 0..L /\ \A n \in 1..L : n \in 0..L /\ n # 0
    OBVIOUS
  <2>3. QED
    BY <1>15, <2>1, <2>2
<1>20. memos \in [0..L -> Memos(ids)]
  <2>1. memos = [n \in 0..L |-> memos[n]]
    BY <1>18
  <2>2. memos[0] \in Memos(ids) /\ \A n \in 1..L : memos[n - 1] \in Memos(ids) => memos[n] \in Memos(ids)
    BY <1>13, <1>14, <1>19
  <2>3. QED
    BY <2>1, <2>2, StaysIn
<1>21. ASSUME NEW n \in 1..(L + 1), NEW c \in Calls(ids)
       PROVE  calls[n][c] = CacheDepth(calls[n - 1], Known(parents), c[1], c[2], c[3])
  <2>1. calls[n] = Rise(calls[n - 1])
    BY <1>10
  <2>2. QED
    BY <1>2, <2>1 DEF Rise
<1>22. Computes(calls, memos, parents, order)
  BY <1>1, <1>3, <1>12, <1>19, <1>21 DEF Computes, none
<1>23. QED
  BY <1>1, <1>11, <1>20, <1>22 DEF D

-----------------------------------------------------------------------------
(* The order of ids *)

LEMMA Ordered ==
  ASSUME NEW S \in SUBSET DOMAIN Rank, IsFiniteSet(S)
  PROVE  InOrder(S) \in SetToSeqs(S)
<1> DEFINE k == Cardinality(S)
           Below(a) == {i \in S : IdOrder(i, a)}
           f == [a \in S |-> Cardinality(Below(a)) + 1]
           s == [n \in 1..k |-> CHOOSE a \in S : f[a] = n]
           Sorted(q) == \A m, n \in DOMAIN q : m < n => IdOrder(q[m], q[n])
<1>1. k \in Nat /\ \A a \in S : Rank[a] \in Int
  BY FS_CardinalityType, RankAssumption
<1>2. ASSUME NEW a \in S
      PROVE  /\ IsFiniteSet(Below(a)) /\ Cardinality(Below(a)) \in Nat
             /\ Cardinality(Below(a)) < k
  <2>1. Below(a) \in SUBSET S /\ a \notin Below(a)
    BY <1>1 DEF IdOrder
  <2> HIDE DEF Below
  <2>2. IsFiniteSet(Below(a)) /\ Cardinality(Below(a)) <= k /\ Cardinality(Below(a)) # k
    BY <2>1, FS_Subset
  <2>3. Cardinality(Below(a)) \in Nat
    BY <2>2, FS_CardinalityType
  <2>4. QED
    BY <1>1, <2>2, <2>3
<1>3. ASSUME NEW a \in S, NEW b \in S, IdOrder(a, b)
      PROVE  f[a] < f[b]
  <2>1. Below(a) \in SUBSET Below(b)
    BY <1>1, <1>3 DEF IdOrder
  <2>2. a \in Below(b) /\ a \notin Below(a)
    BY <1>1, <1>3 DEF IdOrder
  <2> HIDE DEF Below
  <2>3. Cardinality(Below(a)) <= Cardinality(Below(b)) /\ Cardinality(Below(a)) # Cardinality(Below(b))
    BY <1>2, <2>1, <2>2, FS_Subset
  <2>4. QED
    BY <1>2, <2>3
<1>4. f \in [S -> 1..k]
  <2> HIDE DEF k, Below
  <2>1. \A a \in S : Cardinality(Below(a)) + 1 \in 1..k
    BY <1>1, <1>2
  <2>2. QED
    BY <2>1
<1> HIDE DEF f, k
<1>5. \A a, b \in S : a # b => IdOrder(a, b) \/ IdOrder(b, a)
  BY <1>1, RankAssumption DEF IdOrder
<1>6. f \in Injection(S, 1..k)
  <2>1. \A a, b \in S : f[a] \in Int /\ (IdOrder(a, b) => f[a] < f[b])
    BY <1>1, <1>3, <1>4
  <2>2. \A a, b \in S : f[a] = f[b] => a = b
    BY <1>5, <2>1
  <2>3. QED
    BY <1>4, <2>2 DEF Injection, IsInjective
<1>7. \A n \in 1..k : \E a \in S : f[a] = n
  <2>1. Cardinality(1..k) = k /\ IsFiniteSet(1..k)
    BY <1>1, FS_Interval
  <2>2. f \in Surjection(S, 1..k)
    BY <1>6, <2>1, FS_Injection DEF k
  <2>3. QED
    BY <2>2 DEF Surjection
<1>8. \A n \in 1..k : s[n] \in S /\ f[s[n]] = n
  BY <1>7
<1>9. s \in [1..k -> S] /\ DOMAIN s = 1..k
  BY <1>8
<1> HIDE DEF s
<1>10. s \in SetToSeqs(S)
  BY <1>8, <1>9 DEF SetToSeqs, k
<1>11. ASSUME NEW m \in 1..k, NEW n \in 1..k, m < n
       PROVE  IdOrder(s[m], s[n])
  <2>1. s[m] \in S /\ s[n] \in S /\ f[s[m]] = m /\ f[s[n]] = n
    BY <1>8
  <2>2. s[m] # s[n] /\ ~IdOrder(s[n], s[m])
    BY <1>3, <1>11, <2>1
  <2>3. QED
    BY <1>5, <2>1, <2>2
<1>12. Sorted(s)
  BY <1>9, <1>11
<1>13. QED
  <2> HIDE DEF Sorted
  <2>1. InOrder(S) = CHOOSE q \in SetToSeqs(S) : Sorted(q)
    BY DEF InOrder, Sorted
  <2>2. QED
    BY <1>10, <1>12, <2>1

\* The known parents of each record, listed.
Ups(known, a) == {known[a][n] : n \in DOMAIN known[a]}

LEMMA KnownIs ==
  ASSUME NEW parents, DOMAIN parents \subseteq DOMAIN Rank, IsFiniteSet(DOMAIN parents)
  PROVE  /\ Known(parents) \in [DOMAIN parents -> Seq(DOMAIN parents)]
         /\ \A a \in DOMAIN parents : Ups(Known(parents), a) = parents[a] \cap DOMAIN parents
<1>1. ASSUME NEW a \in DOMAIN parents
      PROVE  /\ Known(parents)[a] \in Seq(DOMAIN parents)
             /\ Ups(Known(parents), a) = parents[a] \cap DOMAIN parents
  <2> DEFINE S == parents[a] \cap DOMAIN parents
  <2>1. S \in SUBSET DOMAIN Rank /\ IsFiniteSet(S)
    BY FS_Subset
  <2>2. Known(parents)[a] = InOrder(S)
    BY DEF Known
  <2> HIDE DEF S
  <2>3. InOrder(S) \in Seq(S) /\ {InOrder(S)[n] : n \in DOMAIN InOrder(S)} = S
    BY <2>1, Ordered, ListIs
  <2>4. S \subseteq DOMAIN parents
    BY DEF S
  <2>5. InOrder(S) \in Seq(DOMAIN parents)
    BY <2>3, <2>4
  <2>6. Ups(Known(parents), a) = S
    BY <2>2, <2>3 DEF Ups
  <2>7. QED
    BY <2>2, <2>5, <2>6 DEF S
<1>2. QED
  BY <1>1 DEF Known

-----------------------------------------------------------------------------
(* What the depths tell *)

\* With a record the set has its known parents.
Rising(known, U) == \A u \in U : Ups(known, u) \subseteq U

\* a is among the ancestors of b.
Reaches(known, b, a) ==
  \A U \in SUBSET DOMAIN known : b \in U /\ Rising(known, U) => a \in U

LEMMA ReachesOn ==
  ASSUME NEW known, NEW a
  PROVE  /\ Reaches(known, a, a)
         /\ \A b : \A p \in Ups(known, a) : Reaches(known, b, a) => Reaches(known, b, p)
BY DEF Reaches, Rising

\* A memoised record is deeper than each of its parents, or an ancestor of it.
Measured(known, memo) ==
  \A a \in DOMAIN known : memo[a] # None =>
    \A p \in Ups(known, a) : (memo[p] # None /\ memo[p] < memo[a]) \/ Reaches(known, p, a)

\* A depth once noted stays, and the records being visited have none.
Grows(ids, memo, later) == \A a \in ids : memo[a] # None => later[a] = memo[a]
Spares(visiting, memo, later) == \A v \in visiting : memo[v] = None => later[v] = None

\* A call as cache_depth makes it: what is being visited led to the record.
Sound(known, c) ==
  /\ Measured(known, c[2])
  /\ \A v \in c[3] : Reaches(known, v, c[1])

Result(known, c, r) ==
  /\ Grows(DOMAIN known, c[2], r.memo)
  /\ Measured(known, r.memo)
  /\ Spares(c[3], c[2], r.memo)
  /\ c[1] \in c[3] \/ r.memo[c[1]] = r.depth

\* The calls that may nest n deep are right where there are fewer records left.
LevelRight(known, n, call) ==
  \A c \in Calls(DOMAIN known) :
    (Cardinality(DOMAIN known \ c[3]) < n /\ Sound(known, c)) => Result(known, c, call[c])

\* The walk over the first n parents of a record.
WalkRight(known, id, memo, visiting, w, n) ==
  /\ Grows(DOMAIN known, memo, w.memo)
  /\ Measured(known, w.memo)
  /\ Spares(visiting, memo, w.memo)
  /\ \A j \in 1..n :
       \/ Reaches(known, known[id][j], id)
       \/ w.memo[known[id][j]] # None /\ w.memo[known[id][j]] < w.depth

LEMMA WalkOn ==
  ASSUME NEW known, NEW ids, ids = DOMAIN known, known \in [ids -> Seq(ids)],
         NEW call \in Callees(ids), NEW n \in Nat, LevelRight(known, n, call),
         NEW id \in ids, NEW memo \in Memos(ids), NEW visiting \in SUBSET ids,
         Cardinality(ids \ visiting) < n, \A v \in visiting : Reaches(known, v, id),
         NEW w \in Outcomes(ids), NEW k \in 1..Len(known[id]),
         WalkRight(known, id, memo, visiting, w, k - 1)
  PROVE  WalkRight(known, id, memo, visiting, Above(call, w, known[id][k], visiting), k)
<1> DEFINE p == known[id][k]
           c == <<p, w.memo, visiting>>
           next == Above(call, w, p, visiting)
<1>1. p \in ids /\ p \in Ups(known, id)
  BY DEF Ups
<1>2. c \in Calls(ids) /\ next \in Outcomes(ids) /\ c[1] = p /\ c[2] = w.memo /\ c[3] = visiting
  BY <1>1, AboveType
<1>3. PICK r \in Outcomes(ids) : r = call[c]
  BY <1>2 DEF Callees
<1>4. next.depth = Deeper(w.depth, r.depth + 1) /\ next.memo = r.memo
  BY <1>3 DEF Above
<1> HIDE DEF c, next, p
<1>5. Sound(known, c)
  BY <1>1, <1>2, ReachesOn DEF Sound, WalkRight
<1>6. Result(known, c, r)
  BY <1>2, <1>3, <1>5 DEF LevelRight
<1>7. /\ Grows(ids, w.memo, r.memo) /\ Measured(known, r.memo) /\ Spares(visiting, w.memo, r.memo)
      /\ p \in visiting \/ r.memo[p] = r.depth
  BY <1>2, <1>6 DEF Result
<1>8. w.depth \in Nat /\ r.depth \in Nat /\ w.memo \in Memos(ids) /\ r.memo \in Memos(ids)
  BY <1>3 DEF Outcomes
<1>9. w.depth <= next.depth /\ r.depth < next.depth /\ next.depth \in Nat
  BY <1>4, <1>8 DEF Deeper
<1>10. Grows(ids, memo, next.memo)
  BY <1>4, <1>7 DEF Grows, WalkRight
<1>11. Spares(visiting, memo, next.memo)
  BY <1>4, <1>7 DEF Spares, WalkRight
<1>12. ASSUME NEW j \in 1..k
       PROVE  \/ Reaches(known, known[id][j], id)
              \/ next.memo[known[id][j]] # None /\ next.memo[known[id][j]] < next.depth
  <2>1. CASE j = k
    <3>1. CASE p \in visiting
      BY <2>1, <3>1 DEF p
    <3>2. CASE r.memo[p] = r.depth
      BY <1>4, <1>8, <1>9, <2>1, <3>2, NoneAssumption DEF p
    <3>3. QED
      BY <1>7, <3>1, <3>2
  <2>2. CASE j # k
    <3>1. j \in 1..(k - 1)
      BY <2>2
    <3>2. PICK q \in ids : q = known[id][j]
      <4>1. j \in 1..Len(known[id])
        OBVIOUS
      <4>2. QED
        BY <4>1
    <3>3. Reaches(known, q, id) \/ (w.memo[q] # None /\ w.memo[q] < w.depth)
      BY <3>1, <3>2 DEF WalkRight
    <3>4. CASE w.memo[q] # None /\ w.memo[q] < w.depth
      <4>1. r.memo[q] = w.memo[q] /\ w.memo[q] \in Nat
        BY <1>7, <1>8, <3>4 DEF Grows, Memos
      <4>2. QED
        BY <1>4, <1>8, <1>9, <3>2, <3>4, <4>1
    <3>5. QED
      BY <3>2, <3>3, <3>4
  <2>3. QED
    BY <2>1, <2>2
<1>13. QED
  BY <1>4, <1>7, <1>10, <1>11, <1>12 DEF WalkRight, next, p

LEMMA CallRight ==
  ASSUME NEW known, NEW ids, ids = DOMAIN known, known \in [ids -> Seq(ids)], IsFiniteSet(ids),
         NEW call \in Callees(ids), NEW n \in Nat, LevelRight(known, n, call),
         NEW id \in ids, NEW memo \in Memos(ids), NEW visiting \in SUBSET ids,
         Cardinality(ids \ visiting) < n + 1, Sound(known, <<id, memo, visiting>>)
  PROVE  Result(known, <<id, memo, visiting>>, CacheDepth(call, known, id, memo, visiting))
<1> DEFINE c == <<id, memo, visiting>>
           r == CacheDepth(call, known, id, memo, visiting)
<1>1. c[1] = id /\ c[2] = memo /\ c[3] = visiting
  OBVIOUS
<1> HIDE DEF c
<1>2. Measured(known, memo) /\ \A v \in visiting : Reaches(known, v, id)
  BY <1>1 DEF Sound, c
<1>3. CASE memo[id] # None
  <2>1. r = [depth |-> memo[id], memo |-> memo]
    BY <1>3 DEF CacheDepth
  <2>2. QED
    BY <1>1, <1>2, <2>1 DEF Result, Grows, Spares, c
<1>4. CASE memo[id] = None /\ id \in visiting
  <2>1. r = [depth |-> 0, memo |-> memo]
    BY <1>4 DEF CacheDepth
  <2>2. QED
    BY <1>1, <1>2, <1>4, <2>1 DEF Result, Grows, Spares, c
<1>5. CASE memo[id] = None /\ id \notin visiting
  <2>1. PICK L \in Nat : L = Len(known[id]) /\ DOMAIN known[id] = 1..L
    <3>1. known[id] \in Seq(ids)
      OBVIOUS
    <3>2. QED
      BY <3>1
  <2>2. PICK climb \in [0..L -> Outcomes(ids)] : Climbs(climb, call, known, id, memo, visiting)
    <3>1. \E climb \in [0..Len(known[id]) -> Outcomes(ids)] :
            Climbs(climb, call, known, id, memo, visiting)
      BY <1>5, ClimbIs
    <3>2. QED
      BY <2>1, <3>1
  <2>3. PICK within \in SUBSET ids : within = visiting \cup {id}
    OBVIOUS
  <2>4. /\ climb[0] = [depth |-> 0, memo |-> memo]
        /\ \A k \in 1..L : climb[k] = Above(call, climb[k - 1], known[id][k], within)
        /\ r = [depth |-> climb[L].depth, memo |-> [climb[L].memo EXCEPT ![id] = climb[L].depth]]
    BY <2>1, <2>2, <2>3 DEF Climbs
  <2> HIDE DEF r
  <2>5. Cardinality(ids \ within) < n
    <3>1. ids \ within = (ids \ visiting) \ {id} /\ id \in ids \ visiting
      BY <1>5, <2>3
    <3>2. IsFiniteSet(ids \ visiting)
      BY FS_Subset
    <3>3. PICK rest : rest = ids \ visiting
      OBVIOUS
    <3>4. Cardinality(rest \ {id}) = Cardinality(rest) - 1 /\ Cardinality(rest) \in Nat
      BY <3>1, <3>2, <3>3, FS_RemoveElement, FS_CardinalityType
    <3>5. Cardinality(ids \ within) = Cardinality(rest) - 1
      BY <3>1, <3>3, <3>4
    <3>6. QED
      BY <3>3, <3>4, <3>5
  <2>6. \A v \in within : Reaches(known, v, id)
    BY <1>2, <2>3, ReachesOn
  <2>7. \A k \in 0..L : WalkRight(known, id, memo, within, climb[k], k)
    <3> DEFINE S == {k \in 0..L : WalkRight(known, id, memo, within, climb[k], k)}
    <3>1. 0 \in S
      <4>1. climb[0].memo = memo /\ 1..0 = {}
        BY <2>4
      <4>2. WalkRight(known, id, memo, within, climb[0], 0)
        BY <1>2, <4>1 DEF WalkRight, Grows, Spares
      <4>3. QED
        BY <4>2
    <3>2. ASSUME NEW k \in 1..L, k - 1 \in S
          PROVE  k \in S
      <4>1. PICK w \in Outcomes(ids) : w = climb[k - 1]
        BY <2>2, <3>2
      <4>2. WalkRight(known, id, memo, within, w, k - 1)
        BY <3>2, <4>1
      <4>3. WalkRight(known, id, memo, within, Above(call, w, known[id][k], within), k)
        BY <2>1, <2>5, <2>6, <4>2, WalkOn
      <4>4. climb[k] = Above(call, w, known[id][k], within)
        BY <2>4, <4>1
      <4>5. QED
        BY <4>3, <4>4
    <3> HIDE DEF S
    <3>3. \A k \in 0..L : k \in S
      BY <3>1, <3>2, UpTo
    <3>4. QED
      BY <3>3 DEF S
  <2>8. PICK top \in Outcomes(ids) : top = climb[L] /\ WalkRight(known, id, memo, within, top, L)
    <3>1. L \in 0..L
      OBVIOUS
    <3>2. QED
      BY <2>2, <2>7, <3>1
  <2>9. top.depth \in Nat /\ top.memo \in Memos(ids)
    BY <2>8 DEF Outcomes
  <2>10. PICK noted \in Memos(ids) : noted = [top.memo EXCEPT ![id] = top.depth]
    BY <2>9 DEF Memos
  <2>11. r.depth = top.depth /\ r.memo = noted
    BY <2>4, <2>8, <2>10
  <2>12. top.memo[id] = None
    BY <1>5, <2>3, <2>8 DEF WalkRight, Spares
  <2>13. noted[id] = top.depth /\ \A a \in ids : a # id => noted[a] = top.memo[a]
    BY <2>9, <2>10 DEF Memos
  <2>14. Grows(ids, memo, noted)
    BY <1>5, <2>8, <2>13 DEF Grows, WalkRight
  <2>15. Spares(visiting, memo, noted)
    BY <1>5, <2>3, <2>8, <2>13 DEF Spares, WalkRight
  <2>16. ASSUME NEW a \in ids, noted[a] # None, NEW p \in Ups(known, a)
         PROVE  (noted[p] # None /\ noted[p] < noted[a]) \/ Reaches(known, p, a)
    <3>1. p \in ids
      BY DEF Ups
    <3>2. CASE a = id
      <4>1. PICK j \in 1..L : p = known[id][j]
        BY <2>1, <3>2 DEF Ups
      <4>2. Reaches(known, p, id) \/ (top.memo[p] # None /\ top.memo[p] < top.depth)
        BY <2>8, <4>1 DEF WalkRight
      <4>3. QED
        BY <2>12, <2>13, <3>1, <3>2, <4>2
    <3>3. CASE a # id
      <4>1. (top.memo[p] # None /\ top.memo[p] < top.memo[a]) \/ Reaches(known, p, a)
        BY <2>8, <2>13, <2>16, <3>3 DEF WalkRight, Measured
      <4>2. QED
        BY <2>12, <2>13, <3>1, <3>3, <4>1
    <3>4. QED
      BY <3>2, <3>3
  <2>17. Measured(known, noted)
    BY <2>16 DEF Measured
  <2>18. QED
    BY <1>1, <2>11, <2>13, <2>14, <2>15, <2>17 DEF Result, r, c
<1>6. QED
  BY <1>3, <1>4, <1>5

\* Every record is deeper than each of its parents that is not built on it.
LEMMA DepthsRight ==
  ASSUME NEW parents, DOMAIN parents \subseteq DOMAIN Rank, IsFiniteSet(DOMAIN parents),
         NEW order \in SetToSeqs(DOMAIN parents)
  PROVE  /\ CacheDepths(parents, order) \in [DOMAIN parents -> Nat]
         /\ \A a \in DOMAIN parents : \A p \in parents[a] \cap DOMAIN parents :
              \/ CacheDepths(parents, order)[p] < CacheDepths(parents, order)[a]
              \/ Reaches(Known(parents), p, a)
<1>1. PICK ids : ids = DOMAIN parents
  OBVIOUS
<1>2. PICK known \in [ids -> Seq(ids)] : known = Known(parents)
  BY <1>1, KnownIs
<1>3. ids = DOMAIN known /\ IsFiniteSet(ids)
  BY <1>1, <1>2
<1>4. PICK L \in Nat :
        /\ L = Len(order) /\ L = Cardinality(ids)
        /\ order \in Seq(ids) /\ {order[n] : n \in 1..L} = ids
  <2>1. /\ order \in Seq(ids) /\ Len(order) = Cardinality(ids)
        /\ {order[n] : n \in DOMAIN order} = ids
    <3>1. order \in SetToSeqs(ids)
      BY <1>1
    <3> HIDE <1>1
    <3>2. QED
      BY <1>3, <3>1, ListIs
  <2>2. DOMAIN order = 1..Len(order) /\ Len(order) \in Nat
    BY <2>1
  <2>3. QED
    BY <2>1, <2>2
<1>5. PICK calls \in [0..(L + 1) -> Callees(ids)], memos \in [0..L -> Memos(ids)] :
        /\ \A n \in 1..(L + 1) : \A c \in Calls(ids) :
             calls[n][c] = CacheDepth(calls[n - 1], Known(parents), c[1], c[2], c[3])
        /\ memos[0] = [id \in ids |-> None]
        /\ \A n \in 1..L : memos[n] = calls[L + 1][<<order[n], memos[n - 1], {}>>].memo
        /\ CacheDepths(parents, order) = memos[L]
  <2>1. Known(parents) \in [ids -> Seq(ids)]
    BY <1>2
  <2>2. \E calls \in [0..(Len(order) + 1) -> Callees(ids)], memos \in [0..Len(order) -> Memos(ids)] :
          Computes(calls, memos, parents, order)
    BY <1>1, <1>4, <2>1, DepthsAre
  <2>3. PICK calls \in [0..(L + 1) -> Callees(ids)], memos \in [0..L -> Memos(ids)] :
          Computes(calls, memos, parents, order)
    BY <1>4, <2>2
  <2>4. /\ \A n \in 1..(L + 1) : \A c \in Calls(ids) :
             calls[n][c] = CacheDepth(calls[n - 1], Known(parents), c[1], c[2], c[3])
        /\ memos[0] = [id \in ids |-> None]
        /\ \A n \in 1..L : memos[n] = calls[L + 1][<<order[n], memos[n - 1], {}>>].memo
        /\ CacheDepths(parents, order) = memos[L]
    BY <1>1, <1>4, <2>3 DEF Computes
  <2>5. QED
    BY <2>4
<1>6. \A n \in 0..(L + 1) : LevelRight(known, n, calls[n])
  <2> DEFINE S == {n \in 0..(L + 1) : LevelRight(known, n, calls[n])}
  <2>1. 0 \in S
    <3>1. ASSUME NEW c \in Calls(ids)
          PROVE  ~(Cardinality(ids \ c[3]) < 0)
      <4>1. IsFiniteSet(ids \ c[3])
        BY <1>3, FS_Subset
      <4>2. Cardinality(ids \ c[3]) \in Nat
        BY <4>1, FS_CardinalityType
      <4>3. QED
        BY <4>2
    <3>2. LevelRight(known, 0, calls[0])
      BY <1>3, <3>1 DEF LevelRight
    <3>3. QED
      BY <3>2
  <2>2. ASSUME NEW n \in 1..(L + 1), n - 1 \in S
        PROVE  n \in S
    <3>1. n - 1 \in Nat /\ (n - 1) + 1 = n /\ n - 1 \in 0..(L + 1)
      OBVIOUS
    <3>2. PICK call \in Callees(ids) : call = calls[n - 1] /\ LevelRight(known, n - 1, call)
      BY <1>5, <2>2, <3>1
    <3>3. ASSUME NEW c \in Calls(ids), Cardinality(ids \ c[3]) < n, Sound(known, c)
          PROVE  Result(known, c, calls[n][c])
      <4>1. PICK id \in ids, memo \in Memos(ids), visiting \in SUBSET ids : c = <<id, memo, visiting>>
        BY DEF Calls
      <4>2. c[1] = id /\ c[2] = memo /\ c[3] = visiting
        BY <4>1
      <4>3. calls[n][c] = CacheDepth(call, known, id, memo, visiting)
        BY <1>2, <1>5, <3>2, <4>2
      <4>4. Cardinality(ids \ visiting) < (n - 1) + 1 /\ Sound(known, <<id, memo, visiting>>)
        BY <3>1, <3>3, <4>1, <4>2
      <4>5. Result(known, <<id, memo, visiting>>, CacheDepth(call, known, id, memo, visiting))
        BY <1>3, <3>1, <3>2, <4>4, CallRight
      <4>6. QED
        BY <4>1, <4>3, <4>5
    <3>4. LevelRight(known, n, calls[n])
      BY <1>3, <3>3 DEF LevelRight
    <3>5. QED
      BY <3>4
  <2> HIDE DEF S
  <2>3. \A n \in 0..(L + 1) : n \in S
    <3>1. PICK N \in Nat : N = L + 1
      OBVIOUS
    <3>2. QED
      BY <2>1, <2>2, <3>1, UpTo
  <2>4. QED
    BY <2>3 DEF S
<1>7. PICK top \in Callees(ids) : top = calls[L + 1] /\ LevelRight(known, L + 1, top)
  <2>1. L + 1 \in 0..(L + 1)
    OBVIOUS
  <2>2. QED
    BY <1>5, <1>6, <2>1
<1> DEFINE Noted(n) == /\ Measured(known, memos[n])
                       /\ \A j \in 1..n : memos[n][order[j]] # None
<1>8. \A n \in 0..L : Noted(n)
  <2> DEFINE S == {n \in 0..L : Noted(n)}
  <2>1. Noted(0)
    <3>1. 1..0 = {} /\ \A a \in ids : memos[0][a] = None
      BY <1>5
    <3>2. Measured(known, memos[0])
      BY <1>3, <3>1 DEF Measured
    <3>3. QED
      BY <3>1, <3>2
  <2>2. ASSUME NEW n \in 1..L, Noted(n - 1)
        PROVE  Noted(n)
    <3>1. n - 1 \in 0..L /\ n \in 0..L
      OBVIOUS
    <3>2. PICK memo \in Memos(ids) : memo = memos[n - 1]
      BY <1>5, <3>1
    <3>3. PICK id \in ids : id = order[n]
      BY <1>4
    <3> DEFINE c == <<id, memo, {}>>
    <3>4. c \in Calls(ids) /\ c[1] = id /\ c[2] = memo /\ c[3] = {}
      BY DEF Calls
    <3>5. PICK r \in Outcomes(ids) : r = top[c]
      BY <3>4 DEF Callees
    <3>6. memos[n] = r.memo
      BY <1>5, <1>7, <3>2, <3>3, <3>5
    <3> HIDE DEF c
    <3>7. Sound(known, c)
      BY <2>2, <3>2, <3>4 DEF Sound
    <3>8. Cardinality(ids \ c[3]) < L + 1
      <4>1. ids \ c[3] = ids
        BY <3>4
      <4>2. Cardinality(ids \ c[3]) = L
        BY <1>4, <4>1
      <4>3. QED
        BY <4>2
    <3>9. Result(known, c, r)
      BY <1>3, <1>7, <3>4, <3>5, <3>7, <3>8 DEF LevelRight
    <3>10. Grows(ids, memo, r.memo) /\ Measured(known, r.memo) /\ r.memo[id] = r.depth
      BY <1>3, <3>4, <3>9 DEF Result
    <3>11. r.depth \in Nat
      BY <3>5 DEF Outcomes
    <3>12. ASSUME NEW j \in 1..n
           PROVE  memos[n][order[j]] # None
      <4>1. CASE j = n
        BY <3>3, <3>6, <3>10, <3>11, <4>1, NoneAssumption
      <4>2. CASE j # n
        <5>1. j \in 1..(n - 1) /\ j \in 1..L
          BY <4>2
        <5>2. PICK q \in ids : q = order[j]
          BY <1>4, <5>1
        <5>3. memo[q] # None
          BY <2>2, <3>2, <5>1, <5>2
        <5>4. QED
          BY <3>6, <3>10, <5>2, <5>3 DEF Grows
      <4>3. QED
        BY <4>1, <4>2
    <3>13. QED
      BY <3>6, <3>10, <3>12
  <2> HIDE DEF Noted
  <2>3. 0 \in S /\ \A n \in 1..L : n - 1 \in S => n \in S
    BY <2>1, <2>2
  <2>4. \A n \in 0..L : n \in S
    <3> HIDE DEF S
    <3>1. QED
      BY <2>3, UpTo
  <2>5. QED
    BY <2>4
<1>9. PICK depth \in Memos(ids) : depth = CacheDepths(parents, order) /\ depth = memos[L] /\ Noted(L)
  <2>1. L \in 0..L
    OBVIOUS
  <2> HIDE DEF Noted
  <2>2. QED
    BY <1>5, <1>8, <2>1
<1>10. \A a \in ids : depth[a] # None
  <2>1. \A a \in ids : \E j \in 1..L : a = order[j]
    BY <1>4
  <2>2. QED
    BY <1>9, <2>1
<1>11. depth \in [ids -> Nat]
  BY <1>10 DEF Memos
<1>12. ASSUME NEW a \in ids, NEW p \in parents[a] \cap ids
       PROVE  depth[p] < depth[a] \/ Reaches(known, p, a)
  <2>1. p \in Ups(known, a)
    BY <1>1, <1>2, <1>3, KnownIs
  <2>2. QED
    BY <1>3, <1>9, <1>10, <2>1 DEF Measured
<1>13. QED
  BY <1>1, <1>2, <1>9, <1>11, <1>12

-----------------------------------------------------------------------------
(* Children before their parents *)

\* What has a record among its ancestors is built on it.
LEMMA ReachedIsBelow ==
  ASSUME CacheTypes, NEW known, DOMAIN known = StoreIds,
         \A a \in StoreIds : Ups(known, a) = Record(a).parents \cap StoreIds,
         NEW a \in StoreIds, NEW b \in StoreIds, Reaches(known, b, a)
  PROVE  b \in Descendants(a)
<1>1. StoreIds \cup {a} = StoreIds
  OBVIOUS
<1>2. ASSUME NEW below \in SUBSET StoreIds, a \in below, Closed(below), b \notin below
      PROVE  FALSE
  <2> DEFINE U == StoreIds \ below
  <2>1. ASSUME NEW u \in U, NEW p \in Ups(known, u), p \in below
        PROVE  FALSE
    <3>1. PICK i \in store : i.id = u
      BY DEF StoreIds
    <3>2. p \in i.parents
      BY <2>1, <3>1, RecordIs
    <3>3. i \in Children(p)
      BY <2>1, <3>1, <3>2 DEF Children
    <3>4. QED
      BY <1>2, <2>1, <3>1, <3>3 DEF Closed
  <2>2. Rising(known, U)
    <3>1. \A u \in U : Ups(known, u) \subseteq StoreIds
      OBVIOUS
    <3>2. QED
      BY <2>1, <3>1 DEF Rising
  <2>3. a \in U
    BY <1>2, <2>2 DEF Reaches
  <2>4. QED
    BY <1>2, <2>3
<1>3. QED
  BY <1>1, <1>2 DEF Descendants

\* A record is built on its parents.
LEMMA ChildIsBelow ==
  ASSUME CacheTypes, NEW a \in StoreIds, NEW p \in StoreIds, p \in Record(a).parents
  PROVE  a \in Descendants(p)
<1>1. PICK i \in store : i.id = a /\ p \in i.parents
  BY RecordIs DEF StoreIds
<1>2. a = p \/ i \in Children(p)
  BY <1>1 DEF Children
<1>3. QED
  BY <1>1, <1>2 DEF Descendants, Closed

LEMMA PrepareChildFirst ==
  ASSUME CacheTypes, Prepare
  PROVE  ChildFirst'
<1> DEFINE parents == [id \in StoreIds |-> Record(id).parents]
<1>1. PICK order \in SetToSeqs(StoreIds) : depths' = CacheDepths(parents, order)
  BY DEF Prepare
<1>2. PICK targets \in SetToSeqs(CacheTargets) :
        /\ \A m, n \in DOMAIN targets : m < n => Before(depths', targets[m], targets[n])
        /\ queue' = targets
  BY DEF Prepare
<1>3. DOMAIN parents = StoreIds /\ \A a \in StoreIds : parents[a] = Record(a).parents
  OBVIOUS
<1> HIDE DEF parents
<1>4. PICK known : known = Known(parents)
  OBVIOUS
<1>5. DOMAIN known = StoreIds /\ \A a \in StoreIds : Ups(known, a) = Record(a).parents \cap StoreIds
  BY <1>3, <1>4, KnownIs, TargetsAre
<1>6. /\ depths' \in [StoreIds -> Nat]
      /\ \A a \in StoreIds : \A p \in Record(a).parents \cap StoreIds :
           depths'[p] < depths'[a] \/ Reaches(known, p, a)
  BY <1>1, <1>3, <1>4, DepthsRight, TargetsAre
<1>7. UNCHANGED store
  BY DEF Prepare
<1>8. ASSUME NEW m \in DOMAIN targets, NEW n \in DOMAIN targets, m < n,
             targets[m] \in StoreIds, targets[n] \in StoreIds,
             targets[m] \in Record(targets[n]).parents
      PROVE  Cyclic(targets[m], targets[n])
  <2>1. PICK p \in StoreIds, a \in StoreIds : p = targets[m] /\ a = targets[n]
    BY <1>8
  <2>2. Before(depths', p, a) /\ p \in Record(a).parents
    BY <1>2, <1>8, <2>1
  <2>3. depths'[p] \in Nat /\ depths'[a] \in Nat
    BY <1>6
  <2>4. ~(depths'[p] < depths'[a])
    BY <2>2, <2>3 DEF Before
  <2>5. Reaches(known, p, a)
    BY <1>6, <2>2, <2>4
  <2>6. p \in Descendants(a)
    BY <1>5, <2>5, ReachedIsBelow
  <2>7. a \in Descendants(p)
    BY <2>2, ChildIsBelow
  <2>8. QED
    BY <2>1, <2>6, <2>7 DEF Cyclic
<1>9. \A a, b : Cyclic(a, b)' = Cyclic(a, b)
  BY <1>7 DEF Cyclic, Descendants, Closed, Children, StoreIds
<1>10. StoreIds' = StoreIds /\ \A a : Record(a)' = Record(a)
  BY <1>7 DEF StoreIds, Record
<1>11. QED
  BY <1>2, <1>8, <1>9, <1>10 DEF ChildFirst

\* The order of the rest of a queue is that of the queue.
LEMMA SettleKeepsOrder ==
  ASSUME CacheTypes, queue # <<>>, queue' = Tail(queue), ChildFirst,
         StoreIds' \subseteq StoreIds,
         \A a \in StoreIds' : Record(a)' = Record(a),
         \A a, b \in StoreIds' : Cyclic(a, b) => Cyclic(a, b)'
  PROVE  ChildFirst'
<1>1. ASSUME NEW m \in DOMAIN queue', NEW n \in DOMAIN queue', m < n,
             NEW a \in StoreIds', NEW b \in StoreIds', a = queue'[m], b = queue'[n],
             a \in Record(b)'.parents
      PROVE  Cyclic(a, b)'
  <2>1. queue \in Seq(DOMAIN Rank)
    BY DEF CacheTypes
  <2>2. /\ m + 1 \in DOMAIN queue /\ n + 1 \in DOMAIN queue /\ m + 1 < n + 1
        /\ queue'[m] = queue[m + 1] /\ queue'[n] = queue[n + 1]
    BY <1>1, <2>1
  <2>3. a \in Record(b).parents /\ a \in StoreIds /\ b \in StoreIds
    BY <1>1
  <2>4. Cyclic(a, b)
    BY <1>1, <2>2, <2>3 DEF ChildFirst
  <2>5. QED
    BY <2>4
<1>2. QED
  BY <1>1 DEF ChildFirst

LEMMA NextChildFirst ==
  ASSUME CacheTypes, ChildFirst, [Next]_vars
  PROVE  ChildFirst'
<1>1. ASSUME UNCHANGED store
      PROVE  /\ StoreIds' = StoreIds /\ \A a : Record(a)' = Record(a)
             /\ \A a, b : Cyclic(a, b)' = Cyclic(a, b)
  BY <1>1 DEF StoreIds, Record, Cyclic, Descendants, Closed, Children
<1>2. CASE Prepare
  BY <1>2, PrepareChildFirst
<1>3. CASE Finish \/ Tick \/ UNCHANGED vars \/ (Revalidate /\ Head(queue) \in CacheTargets)
  <2>1. UNCHANGED <<store, queue>>
    BY <1>3 DEF Finish, Tick, vars, Revalidate
  <2>2. QED
    BY <1>1, <2>1 DEF ChildFirst
<1>4. CASE Revalidate /\ Head(queue) \notin CacheTargets
  <2>1. UNCHANGED store /\ queue' = Tail(queue) /\ queue # <<>>
    BY <1>4 DEF Revalidate, Settle
  <2>2. QED
    BY <1>1, <2>1, SettleKeepsOrder
<1>5. CASE Prune /\ ~Prunable(Head(queue))
  <2>1. UNCHANGED store /\ queue' = Tail(queue) /\ queue # <<>>
    BY <1>5 DEF Prune, Settle, CacheTypes
  <2>2. QED
    BY <1>1, <2>1, SettleKeepsOrder
<1>6. CASE Prune /\ Prunable(Head(queue))
  <2>1. PICK h : h = Head(queue)
    OBVIOUS
  <2>2. /\ store' = store \ {Record(h)} /\ queue' = Tail(queue) /\ queue # <<>>
        /\ h \in StoreIds /\ Children(h) = {}
    BY <1>6, <2>1 DEF Prune, Settle, CacheTypes, Prunable
  <2>3. PICK x \in store : x.id = h /\ store' = store \ {x}
    BY <2>2, RecordIs DEF StoreIds
  <2>4. StoreIds' = StoreIds \ {h}
    BY <2>3 DEF StoreIds, CacheTypes
  <2>5. ASSUME NEW a \in StoreIds'
        PROVE  Record(a)' = Record(a)
    <3>1. PICK i \in store' : i.id = a
      BY DEF StoreIds
    <3>2. i \in store
      BY <2>3, <3>1
    <3>3. (CHOOSE k \in store' : k.id = a) = i
      BY <2>3, <3>1, <3>2 DEF CacheTypes
    <3>4. Record(a) = i
      BY <3>1, <3>2, RecordIs
    <3>5. QED
      BY <3>3, <3>4 DEF Record
  <2>6. ASSUME NEW a \in StoreIds', NEW b \in StoreIds', Cyclic(a, b)
        PROVE  Cyclic(a, b)'
    <3>1. a \in StoreIds /\ b \in StoreIds /\ a # h /\ b # h
      BY <2>4
    <3>2. Descendants(a)' = Descendants(a) \ {h}
      BY <2>2, <3>1, LeafLeaves
    <3>3. Descendants(b)' = Descendants(b) \ {h}
      BY <2>2, <3>1, LeafLeaves
    <3>4. QED
      BY <2>6, <3>1, <3>2, <3>3 DEF Cyclic
  <2>7. QED
    BY <2>2, <2>4, <2>5, <2>6, SettleKeepsOrder
<1>7. CASE BuildUses
  <2>1. UNCHANGED queue
    BY <1>7 DEF BuildUses
  <2>2. CASE UNCHANGED store
    BY <1>1, <2>1, <2>2 DEF ChildFirst
  <2>3. CASE store' # store
    <3>1. PICK i \in store : store' = (store \ {i}) \cup {[i EXCEPT !.since = clock]}
      BY <1>7, <2>3 DEF BuildUses
    <3> DEFINE used == [i EXCEPT !.since = clock]
    <3>2. used.id = i.id /\ used.parents = i.parents
      BY DEF CacheTypes, CacheItem
    <3>3. store' = (store \ {i}) \cup {used}
      BY <3>1
    <3> HIDE DEF used
    <3>4. StoreIds' = StoreIds
      BY <3>2, <3>3 DEF StoreIds
    <3>5. ASSUME NEW ids, Closed(ids)
          PROVE  Closed(ids)'
      BY <3>2, <3>3, <3>5 DEF Closed, Children
    <3>6. ASSUME NEW ids, Closed(ids)'
          PROVE  Closed(ids)
      BY <3>2, <3>3, <3>6 DEF Closed, Children
    <3>7. \A a : Descendants(a)' = Descendants(a)
      <4>1. \A ids : Closed(ids)' <=> Closed(ids)
        BY <3>5, <3>6
      <4>2. QED
        BY <3>4, <4>1 DEF Descendants
    <3>8. \A a, b : Cyclic(a, b) => Cyclic(a, b)'
      BY <3>7 DEF Cyclic
    <3>9. ASSUME NEW a \in StoreIds
          PROVE  Record(a)'.parents = Record(a).parents
      <4>1. PICK k \in store : k.id = a
        BY DEF StoreIds
      <4>2. Record(a) = k
        BY <4>1, RecordIs
      <4>3. CASE k = i
        <5>1. (CHOOSE j \in store' : j.id = a) = used
          BY <3>2, <3>3, <4>1, <4>3 DEF CacheTypes
        <5>2. QED
          BY <3>2, <4>2, <4>3, <5>1 DEF Record
      <4>4. CASE k # i
        <5>1. k \in store' /\ \A j \in store' : j.id = a => j = k
          BY <3>2, <3>3, <4>1, <4>4 DEF CacheTypes
        <5>2. (CHOOSE j \in store' : j.id = a) = k
          BY <4>1, <5>1
        <5>3. QED
          BY <4>2, <5>2 DEF Record
      <4>5. QED
        BY <4>3, <4>4
    <3>10. ASSUME NEW m \in DOMAIN queue, NEW n \in DOMAIN queue, m < n,
                  queue[m] \in StoreIds, queue[n] \in StoreIds,
                  queue[m] \in Record(queue[n])'.parents
           PROVE  Cyclic(queue[m], queue[n])'
      <4>1. PICK a \in StoreIds, b \in StoreIds : a = queue[m] /\ b = queue[n]
        BY <3>10
      <4>2. a \in Record(b).parents
        BY <2>1, <3>9, <3>10, <4>1
      <4>3. Cyclic(a, b)
        BY <3>10, <4>1, <4>2 DEF ChildFirst
      <4>4. QED
        BY <2>1, <3>8, <4>1, <4>3
    <3>11. QED
      BY <2>1, <3>4, <3>10 DEF ChildFirst
  <2>4. QED
    BY <2>2, <2>3
<1>8. QED
  BY <1>2, <1>3, <1>4, <1>5, <1>6, <1>7 DEF Next

-----------------------------------------------------------------------------

\* Nothing goes for a budget that is met: as long as no build takes or releases
\* a record, a record that is pruned was past the age floor or the cache, as it
\* is then, was over the budget.
THEOREM CacheNoOverEviction == Spec => NoOverEviction
<1> DEFINE Inv == CacheTypes /\ Justified
<1>1. Init => Inv
  BY InitTypes DEF Init, Justified
<1>2. Inv /\ [Next]_vars => Inv'
  BY NextTypes, NextJustified
<1>3. Inv /\ [Next]_vars =>
        [(pc = "pruning" /\ store' # store /\ uses = 0) =>
           \/ Head(queue) \in {i.id : i \in CacheExpired(rule, store, clock)}
           \/ rule.max_bytes # None /\ Bytes(store) > rule.max_bytes]_vars
  BY DEF Justified, IsExpired
<1>4. QED
  BY <1>1, <1>2, <1>3, PTL DEF Spec, NoOverEviction

\* A pass no build interferes with leaves the cache within the budget, nothing
\* that the budget may evict, or a record the engine refused to prune, although
\* targets are handled children first and not from the oldest on, and whatever
\* falls past the age floor in the meantime.
THEOREM CacheMeetsBudget == Spec => []BudgetMetUnlessRefused
<1> DEFINE Inv == CacheTypes /\ WithinBudget
<1>1. Init => Inv
  BY InitTypes DEF Init, WithinBudget, Undisturbed
<1>2. Inv /\ [Next]_vars => Inv'
  BY NextTypes, NextWithinBudget
<1>3. Inv => BudgetMetUnlessRefused
  BY AllSettled DEF BudgetMetUnlessRefused, Candidates, Undisturbed, CacheTypes
<1>4. QED
  BY <1>1, <1>2, <1>3, PTL DEF Spec

\* Children are processed before their parents, for every cache graph and every
\* order in which the hash map gives the roots, except on a common cycle: the
\* depths order each record after what it is built on because a memo once noted
\* stays and only an ancestor that is being visited counts as 0.
THEOREM CacheChildFirst == Spec => []ChildFirst
<1> DEFINE Inv == CacheTypes /\ ChildFirst
<1>1. Init => Inv
  BY InitTypes DEF Init, ChildFirst
<1>2. Inv /\ [Next]_vars => Inv'
  BY NextTypes, NextChildFirst
<1>3. Inv => ChildFirst
  OBVIOUS
<1>4. QED
  BY <1>1, <1>2, <1>3, PTL DEF Spec

=============================================================================
