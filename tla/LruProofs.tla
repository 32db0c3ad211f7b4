----------------------------- MODULE LruProofs ------------------------------
(***************************************************************************)
(* Proofs about lru.Cache for every set of keys, callers and shards, every *)
(* capacity and time to live: list and map agree, eviction takes an entry  *)
(* that as many others have been used after, and Range misses nothing.     *)
(***************************************************************************)
EXTENDS Lru, SharedLemmas

-----------------------------------------------------------------------------
(* The list of a shard                                                     *)

LEMMA EmptyListed ==
    ASSUME NEW sn
    PROVE  Listed(<<>>, {}, sn)
  <1>1. <<>> \in Seq(Keys) /\ Len(<<>>) = 0
    BY EmptySeq
  <1> QED BY <1>1 DEF Listed

\* Later uses do no harm to the order.
LEMMA ListedLater ==
    ASSUME NEW l, NEW D, NEW sn, NEW sn2, Listed(l, D, sn),
           \A k \in D : sn[k] \subseteq sn2[k]
    PROVE  Listed(l, D, sn2)
  BY DEF Listed

\* A node leaves the list.
LEMMA ListedRemove ==
    ASSUME NEW l, NEW D, NEW sn, Listed(l, D, sn), NEW k \in D
    PROVE  /\ Listed(Without(l, k), D \ {k}, sn)
           /\ Len(Without(l, k)) = Len(l) - 1 /\ Len(l) \in Nat \ {0}
  <1>1. PICK p \in 1..Len(l) : p = Position(l, k) /\ l[p] = k
    BY DEF Listed, Position
  <1>2. PICK n \in Nat : n = Len(l)
    BY DEF Listed
  <1>3. PICK r \in Seq(Keys) : r = Without(l, k) /\ Len(r) = n - 1
                  /\ \A j \in 1..n-1 : r[j] = IF j < p THEN l[j] ELSE l[j+1]
    BY <1>1, <1>2, RemoveAtProperties DEF Without, Listed
  <1>4. \A i, j \in 1..n : i < j => l[i] # l[j] /\ l[i] \in sn[l[j]]
    BY <1>2 DEF Listed
  <1>5. \A j \in 1..n-1 : \/ j < p /\ j \in 1..n /\ r[j] = l[j]
                          \/ j >= p /\ j + 1 \in 1..n /\ r[j] = l[j + 1]
    BY <1>1, <1>2, <1>3
  <1>6. \A i \in 1..n-1 : r[i] \in D \ {k}
    <2> SUFFICES ASSUME NEW i \in 1..n-1 PROVE r[i] \in D \ {k}
      OBVIOUS
    <2>1. CASE i < p /\ i \in 1..n /\ r[i] = l[i]
      BY <1>1, <1>2, <1>4, <2>1 DEF Listed
    <2>2. CASE i >= p /\ i + 1 \in 1..n /\ r[i] = l[i + 1]
      <3>1. p < i + 1
        BY <1>1, <1>2, <2>2
      <3> QED BY <1>1, <1>2, <1>4, <2>2, <3>1 DEF Listed
    <2> QED BY <1>5, <2>1, <2>2
  <1>7. ASSUME NEW x \in D \ {k}
        PROVE  \E i \in 1..n-1 : r[i] = x
    <2>1. PICK i \in 1..n : l[i] = x
      BY <1>2 DEF Listed
    <2>2. i # p
      BY <1>1, <1>7, <2>1
    <2>3. CASE i < p
      <3>1. i \in 1..n-1 /\ r[i] = l[i]
        BY <1>1, <1>2, <1>3, <2>3
      <3> QED BY <2>1, <3>1
    <2>4. CASE i > p
      <3>1. i - 1 \in 1..n-1 /\ ~(i - 1 < p) /\ (i - 1) + 1 = i
        BY <1>1, <1>2, <2>4
      <3>2. r[i - 1] = l[i]
        BY <1>3, <3>1
      <3> QED BY <2>1, <3>1, <3>2
    <2> QED BY <1>1, <1>2, <2>2, <2>3, <2>4
  <1>8. ASSUME NEW i \in 1..n-1, NEW j \in 1..n-1, i < j
        PROVE  r[i] # r[j] /\ r[i] \in sn[r[j]]
    <2>1. PICK a \in 1..n : r[i] = l[a] /\ ((a = i /\ i < p) \/ (a = i + 1 /\ i >= p))
      BY <1>5
    <2>2. PICK b \in 1..n : r[j] = l[b] /\ ((b = j /\ j < p) \/ (b = j + 1 /\ j >= p))
      BY <1>5
    <2>3. a < b
      BY <1>1, <1>2, <1>8, <2>1, <2>2
    <2> QED BY <1>4, <2>1, <2>2, <2>3
  <1>9. Listed(r, D \ {k}, sn)
    BY <1>3, <1>6, <1>7, <1>8 DEF Listed
  <1> QED BY <1>1, <1>2, <1>3, <1>9

\* Each of the keys D has seen the use of k when sn has become sn2.
UseSeen(k, D, sn, sn2) == \A j \in D : sn[j] \cup {k} \subseteq sn2[j]

\* A key that has just been used is put in front.
LEMMA ListedFront ==
    ASSUME NEW l, NEW D, NEW sn, Listed(l, D, sn), NEW k \in Keys \ D, NEW sn2,
           UseSeen(k, D, sn, sn2)
    PROVE  /\ Listed(<<k>> \o l, D \cup {k}, sn2)
           /\ Len(<<k>> \o l) = Len(l) + 1 /\ Len(l) \in Nat
           /\ (<<k>> \o l)[1] = k
           /\ \A i \in 1..Len(l) : (<<k>> \o l)[i + 1] = l[i]
  <1>1. l \in Seq(Keys) /\ <<k>> \in Seq(Keys) /\ Len(<<k>>) = 1 /\ <<k>>[1] = k
    BY DEF Listed
  <1> USE DEF UseSeen
  <1>2. PICK n \in Nat : n = Len(l)
    BY <1>1
  <1>3. PICK r \in Seq(Keys) : r = <<k>> \o l /\ Len(r) = n + 1 /\ r[1] = k
                  /\ \A i \in 1..n : r[i + 1] = l[i]
    <2>1. <<k>> \o l \in Seq(Keys) /\ Len(<<k>> \o l) = n + 1
      BY <1>1, <1>2, ConcatProperties
    <2>2. (<<k>> \o l)[1] = k /\ \A i \in 1..n : (<<k>> \o l)[i + 1] = l[i]
      BY <1>1, <1>2, ConcatProperties
    <2> QED BY <2>1, <2>2
  <1>4. \A i \in 1..n+1 : i = 1 \/ (i - 1 \in 1..n /\ r[i] = l[i - 1] /\ i > 1)
    <2> SUFFICES ASSUME NEW i \in 1..n+1, i # 1
                 PROVE  i - 1 \in 1..n /\ r[i] = l[i - 1] /\ i > 1
      OBVIOUS
    <2>1. i - 1 \in 1..n /\ (i - 1) + 1 = i /\ i > 1
      BY <1>2
    <2>2. r[(i - 1) + 1] = l[i - 1]
      BY <1>3, <2>1
    <2> QED BY <2>1, <2>2
  <1>5. /\ \A i \in 1..n : l[i] \in D
        /\ \A i, j \in 1..n : i < j => l[i] # l[j] /\ l[i] \in sn[l[j]]
        /\ D \subseteq Keys
    BY <1>2 DEF Listed
  <1>6. ASSUME NEW i \in 1..n+1, NEW j \in 1..n+1, i < j
        PROVE  r[i] # r[j] /\ r[i] \in sn2[r[j]]
    <2>1. j - 1 \in 1..n /\ r[j] = l[j - 1]
      BY <1>2, <1>4, <1>6
    <2>2. CASE i = 1
      BY <1>3, <1>5, <2>1, <2>2
    <2>3. CASE i - 1 \in 1..n /\ r[i] = l[i - 1]
      <3>1. i - 1 < j - 1
        BY <1>2, <1>6
      <3>2. l[i - 1] # l[j - 1] /\ l[i - 1] \in sn[l[j - 1]] /\ l[j - 1] \in D
        BY <1>5, <2>1, <2>3, <3>1
      <3> QED BY <2>1, <2>3, <3>2
    <2> QED BY <1>4, <2>2, <2>3
  <1>7. \A i \in 1..n+1 : r[i] \in D \cup {k}
    BY <1>3, <1>4, <1>5
  <1>8. ASSUME NEW x \in D \cup {k}
        PROVE  \E i \in 1..n+1 : r[i] = x
    <2>1. CASE x = k
      <3>1. 1 \in 1..n+1
        BY <1>2
      <3> QED BY <1>3, <2>1, <3>1
    <2>2. CASE x \in D
      <3>1. PICK i \in 1..n : l[i] = x
        BY <1>2, <2>2 DEF Listed
      <3>2. i + 1 \in 1..n+1
        BY <1>2
      <3> QED BY <1>3, <3>1, <3>2
    <2> QED BY <2>1, <2>2
  <1>9. Listed(r, D \cup {k}, sn2)
    BY <1>3, <1>5, <1>6, <1>7, <1>8 DEF Listed
  <1> QED BY <1>2, <1>3, <1>9

\* The oldest node leaves the list.
LEMMA ListedDropLast ==
    ASSUME NEW l, NEW D, NEW sn, Listed(l, D, sn), l # <<>>
    PROVE  /\ Listed(Front(l), D \ {Last(l)}, sn) /\ Last(l) = l[Len(l)] /\ Last(l) \in D
           /\ Len(Front(l)) = Len(l) - 1 /\ Len(l) \in Nat \ {0}
  <1>1. PICK n \in Nat \ {0} : n = Len(l)
    BY FrontProperties DEF Listed
  <1>2. PICK r \in Seq(Keys) : /\ r = Front(l) /\ Len(r) = n - 1
                               /\ \A j \in 1..n-1 : r[j] = l[j]
    BY <1>1, FrontProperties DEF Listed
  <1>3. PICK z \in Keys : z = Last(l) /\ z = l[n]
    BY <1>1, FrontProperties DEF Listed
  <1>4. n \in 1..n /\ \A j \in 1..n-1 : j \in 1..n /\ j < n
    BY <1>1
  <1>5. /\ \A i \in 1..n : l[i] \in D
        /\ \A i, j \in 1..n : i < j => l[i] # l[j] /\ l[i] \in sn[l[j]]
        /\ \A x \in D : \E i \in 1..n : l[i] = x
        /\ D \subseteq Keys
    BY <1>1 DEF Listed
  <1>6. \A j \in 1..n-1 : r[j] \in D \ {z}
    BY <1>2, <1>3, <1>4, <1>5
  <1>7. \A x \in D \ {z} : \E i \in 1..n-1 : r[i] = x
    <2>1. \A i \in 1..n : i = n \/ i \in 1..n-1
      BY <1>1
    <2> QED BY <1>2, <1>3, <1>5, <2>1
  <1>8. \A i, j \in 1..n-1 : i < j => r[i] # r[j] /\ r[i] \in sn[r[j]]
    BY <1>2, <1>4, <1>5
  <1>9. Listed(r, D \ {z}, sn)
    BY <1>2, <1>5, <1>6, <1>7, <1>8 DEF Listed
  <1> QED BY <1>1, <1>2, <1>3, <1>4, <1>5, <1>9

\* The list is as long as its keys are many.
LEMMA ListedCount ==
    ASSUME NEW l, NEW D, NEW sn, Listed(l, D, sn)
    PROVE  /\ ToSet(l) = D /\ IsFiniteSet(D) /\ Cardinality(D) = Len(l)
           /\ Len(l) \in Nat
  <1>1. PICK n \in Nat : n = Len(l) /\ DOMAIN l = 1..n
    BY DEF Listed
  <1>2. ToSet(l) = {l[i] : i \in 1..n}
    BY <1>1 DEF ToSet
  <1>3. {l[i] : i \in 1..n} = D
    BY <1>1 DEF Listed
  <1>4. \A i, j \in 1..n : l[i] = l[j] => i = j
    <2>1. \A i, j \in 1..n : i < j => l[i] # l[j]
      BY <1>1 DEF Listed
    <2>2. \A i, j \in 1..n : i < j \/ j < i \/ i = j
      OBVIOUS
    <2> QED BY <2>1, <2>2
  <1>5. IsFiniteSet({l[i] : i \in 1..n}) /\ Cardinality({l[i] : i \in 1..n}) = n
    BY <1>4, DistinctCount
  <1> QED BY <1>1, <1>2, <1>3, <1>5

-----------------------------------------------------------------------------
(* The invariant says what the runs check                                  *)

LEMMA IndInvShards ==
    ASSUME IndInv
    PROVE  ShardsAgree
  <1> SUFFICES ASSUME NEW s \in Shards
               PROVE  /\ ToSet(order[s]) = DOMAIN items[s]
                      /\ Len(order[s]) = Cardinality(DOMAIN items[s])
                      /\ Len(order[s]) <= Capacity
                      /\ \A k \in DOMAIN items[s] : ShardOf[k] = s /\ items[s][k] <= now
    BY DEF ShardsAgree
  <1>1. ShardInv(s)
    BY DEF IndInv
  <1>2. ToSet(order[s]) = DOMAIN items[s] /\ Cardinality(DOMAIN items[s]) = Len(order[s])
    BY <1>1, ListedCount DEF ShardInv
  <1> QED BY <1>1, <1>2 DEF ShardInv

LEMMA IndInvRange ==
    ASSUME IndInv
    PROVE  RangeCovers
  BY DEF IndInv, CallerInv, RangeCovers

LEMMA InitIndInv == Init => IndInv
  <1> SUFFICES ASSUME Init PROVE IndInv
    OBVIOUS
  <1>1. <<>> \in Seq(Keys) /\ DOMAIN <<>> = {} /\ Len(<<>>) = 0
    BY EmptySeq
  <1>2. 1 \in Shards
    BY LruAssumption DEF Shards
  <1>3. TypeOK
    <2>1. DOMAIN items = Shards /\ \A s \in Shards : items[s] = <<>>
      BY DEF Init
    <2>2. <<>> \in [DOMAIN <<>> -> Nat]
      BY <1>1
    <2> QED BY <1>1, <1>2, <2>1, <2>2 DEF Init, TypeOK
  <1>4. \A s \in Shards : ShardInv(s)
    <2> SUFFICES ASSUME NEW s \in Shards PROVE ShardInv(s)
      OBVIOUS
    <2>1. items[s] = <<>> /\ order[s] = <<>>
      BY DEF Init
    <2> QED BY <1>1, <2>1, EmptyListed, LruAssumption DEF ShardInv
  <1>5. \A c \in Callers : CallerInv(c)
    BY DEF Init, CallerInv
  <1> QED BY <1>3, <1>4, <1>5 DEF IndInv

-----------------------------------------------------------------------------
(* Operations on a shard                                                   *)

\* The parts of the type invariant about the maps.
LEMMA ItemsType ==
    ASSUME TypeOK
    PROVE  /\ DOMAIN items = Shards
           /\ \A s \in Shards : items[s] \in [DOMAIN items[s] -> Nat]
  <1>1. DOMAIN [s \in Shards |-> items[s]] = Shards
    OBVIOUS
  <1>2. items = [s \in Shards |-> items[s]]
    BY DEF TypeOK
  <1>3. DOMAIN items = Shards
    BY <1>1, <1>2, Zenon
  <1> QED BY <1>3 DEF TypeOK

\* A use of k concerns the keys of its shard only.
LEMMA UseProperties ==
    ASSUME TypeOK, NEW k \in Keys, Use(k)
    PROVE  /\ since' \in [Keys -> SUBSET Keys]
           /\ \A j \in Keys : ShardOf[j] # ShardOf[k] => since'[j] = since[j]
           /\ \A j \in Keys : ShardOf[j] = ShardOf[k] /\ j # k => since'[j] = since[j] \cup {k}
  <1>1. \A j \in Keys : since'[j] \subseteq since[j] \cup {k}
    BY DEF Use
  <1>2. since' = [j \in Keys |-> since'[j]]
    BY DEF Use
  <1>3. \A j \in Keys : since[j] \subseteq Keys
    BY DEF TypeOK
  <1>4. \A j \in Keys : since'[j] \in SUBSET Keys
    BY <1>1, <1>3
  <1>5. since' \in [Keys -> SUBSET Keys]
    BY <1>2, <1>4
  <1> QED BY <1>5 DEF Use

\* What an operation on shard s must leave behind for the other shards and
\* callers to keep their invariants.
LEMMA ShardStep ==
    ASSUME IndInv, NEW s \in Shards, NEW m, NEW l,
           items' = [items EXCEPT ![s] = m], order' = [order EXCEPT ![s] = l],
           m \in [DOMAIN m -> Nat],
           \A j \in DOMAIN m : ShardOf[j] = s /\ m[j] <= now,
           Listed(l, DOMAIN m, since'), Len(l) <= Capacity,
           since' \in [Keys -> SUBSET Keys],
           \A j \in Keys : ShardOf[j] # s => since'[j] = since[j],
           Watch(items', now), now' = now
    PROVE  /\ items' = [t \in Shards |-> items'[t]]
           /\ \A t \in Shards : items'[t] \in [DOMAIN items'[t] -> Nat]
           /\ order' \in [Shards -> Seq(Keys)]
           /\ \A t \in Shards : ShardInv(t)'
           /\ stay' \in [Callers -> SUBSET Keys]
           /\ \A d \in Callers : /\ stay'[d] \subseteq stay[d]
                                 /\ \A j \in stay'[d] : Valid(items, j, now)'
  <1>1. TypeOK
    BY DEF IndInv
  <1>2. /\ items'[s] = m /\ order'[s] = l
        /\ \A t \in Shards \ {s} : items'[t] = items[t] /\ order'[t] = order[t]
        /\ items' = [t \in Shards |-> items'[t]]
    <2>1. DOMAIN items = Shards /\ order \in [Shards -> Seq(Keys)]
      BY <1>1, ItemsType DEF TypeOK
    <2> QED BY <2>1
  <1>3. order' \in [Shards -> Seq(Keys)]
    BY <1>1 DEF TypeOK, Listed
  <1>4. \A t \in Shards : items'[t] \in [DOMAIN items'[t] -> Nat]
    BY <1>1, <1>2, ItemsType
  <1>5. ASSUME NEW t \in Shards
        PROVE  ShardInv(t)'
    <2>1. CASE t = s
      BY <1>2, <2>1 DEF ShardInv
    <2>2. CASE t # s
      <3>1. ShardInv(t)
        BY DEF IndInv
      <3>2. \A j \in DOMAIN items[t] : since[j] \subseteq since'[j]
        <4>1. \A j \in DOMAIN items[t] : j \in Keys /\ ShardOf[j] = t
          BY <3>1 DEF ShardInv, Listed
        <4>2. \A j \in DOMAIN items[t] : since'[j] = since[j]
          BY <2>2, <4>1
        <4> QED BY <4>2
      <3>3. Listed(order[t], DOMAIN items[t], since')
        BY <3>1, <3>2, ListedLater DEF ShardInv
      <3> QED BY <1>2, <2>2, <3>1, <3>3 DEF ShardInv
    <2> QED BY <2>1, <2>2
  <1>6. /\ stay' \in [Callers -> SUBSET Keys]
        /\ \A d \in Callers : /\ stay'[d] \subseteq stay[d]
                              /\ \A j \in stay'[d] : Valid(items', j, now)
    BY <1>1 DEF Watch, TypeOK
  <1>7. \A j : Valid(items', j, now) => Valid(items, j, now)'
    BY DEF Valid
  <1> QED BY <1>2, <1>3, <1>4, <1>5, <1>6, <1>7

\* An idle caller's step leaves the invariants of all callers.
LEMMA CallersStep ==
    ASSUME IndInv,
           \A d \in Callers : \/ pc'[d] = pc[d]
                              \/ pc[d] = "idle" /\ pc'[d] \in {"idle", "evict"},
           \A d \in Callers : /\ stay'[d] \subseteq stay[d]
                              /\ \A j \in stay'[d] : Valid(items, j, now)',
           UNCHANGED <<now, at, began, seen, again>>
    PROVE  \A d \in Callers : CallerInv(d)'
  <1> SUFFICES ASSUME NEW d \in Callers PROVE CallerInv(d)'
    OBVIOUS
  <1>1. CallerInv(d)
    BY DEF IndInv
  <1> QED BY <1>1 DEF CallerInv

\* The two together.
LEMMA OperationStep ==
    ASSUME IndInv, NEW s \in Shards, NEW m, NEW l,
           items' = [items EXCEPT ![s] = m], order' = [order EXCEPT ![s] = l],
           m \in [DOMAIN m -> Nat],
           \A j \in DOMAIN m : ShardOf[j] = s /\ m[j] <= now,
           Listed(l, DOMAIN m, since'), Len(l) <= Capacity,
           since' \in [Keys -> SUBSET Keys],
           \A j \in Keys : ShardOf[j] # s => since'[j] = since[j],
           Watch(items', now), UNCHANGED <<now, at, began, seen, again>>,
           pc' \in [Callers -> {"idle", "evict", "purge", "range", "limit", "ranged", "limited"}],
           \A d \in Callers : \/ pc'[d] = pc[d]
                              \/ pc[d] = "idle" /\ pc'[d] \in {"idle", "evict"},
           victim' \in [Callers -> Keys \cup {EmptyKey}]
    PROVE  IndInv'
  <1>1. /\ items' = [t \in Shards |-> items'[t]]
        /\ \A t \in Shards : items'[t] \in [DOMAIN items'[t] -> Nat]
        /\ order' \in [Shards -> Seq(Keys)]
        /\ \A t \in Shards : ShardInv(t)'
        /\ stay' \in [Callers -> SUBSET Keys]
        /\ \A d \in Callers : /\ stay'[d] \subseteq stay[d]
                              /\ \A j \in stay'[d] : Valid(items, j, now)'
    BY ShardStep
  <1>2. \A d \in Callers : CallerInv(d)'
    BY <1>1, CallersStep
  <1>3. TypeOK'
    <2>1. now \in Nat /\ at \in [Callers -> Shards] /\ began \in [Callers -> Nat]
            /\ seen \in [Callers -> SUBSET Keys] /\ again \in [Callers -> SUBSET Keys]
      BY DEF IndInv, TypeOK
    <2> QED BY <1>1, <2>1 DEF TypeOK
  <1> QED BY <1>1, <1>2, <1>3 DEF IndInv

\* get with a hit on an expired entry, and del: the node leaves list and map.
LEMMA UnlinkStep ==
    ASSUME IndInv, NEW c \in Callers, NEW k \in Keys, pc[c] = "idle",
           k \in DOMAIN items[ShardOf[k]], Unlink(ShardOf[k], k), Watch(items', now),
           UNCHANGED <<now, pc, localVars, since>>
    PROVE  IndInv'
  <1> USE DEF localVars
  <1>1. TypeOK
    BY DEF IndInv
  <1>2. PICK s \in Shards : s = ShardOf[k]
    BY LruAssumption
  <1>3. ShardInv(s) /\ k \in DOMAIN items[s]
    BY <1>2 DEF IndInv
  <1> DEFINE m == [j \in DOMAIN items[s] \ {k} |-> items[s][j]]
             l == Without(order[s], k)
  <1>4. items' = [items EXCEPT ![s] = m] /\ order' = [order EXCEPT ![s] = l]
    BY <1>2 DEF Unlink
  <1>5. DOMAIN m = DOMAIN items[s] \ {k} /\ \A j \in DOMAIN m : m[j] = items[s][j]
    OBVIOUS
  <1>6. items[s] \in [DOMAIN items[s] -> Nat]
    BY <1>1 DEF TypeOK
  <1>7. m \in [DOMAIN m -> Nat]
    BY <1>6
  <1>8. Listed(l, DOMAIN items[s] \ {k}, since) /\ Len(l) = Len(order[s]) - 1
          /\ Len(order[s]) \in Nat
    BY <1>3, ListedRemove DEF ShardInv
  <1> HIDE DEF m, l
  <1>9. \A j \in DOMAIN m : ShardOf[j] = s /\ m[j] <= now
    BY <1>3, <1>5 DEF ShardInv
  <1>10. Listed(l, DOMAIN m, since')
    BY <1>5, <1>8
  <1>11. Len(l) <= Capacity
    BY <1>3, <1>8, LruAssumption DEF ShardInv
  <1>12. /\ pc' \in [Callers -> {"idle", "evict", "purge", "range", "limit", "ranged", "limited"}]
         /\ \A d \in Callers : pc'[d] = pc[d]
         /\ victim' \in [Callers -> Keys \cup {EmptyKey}]
         /\ since' \in [Keys -> SUBSET Keys] /\ \A j \in Keys : since'[j] = since[j]
    BY <1>1 DEF TypeOK
  <1>13. UNCHANGED <<now, at, began, seen, again>>
    OBVIOUS
  <1> QED BY <1>4, <1>7, <1>9, <1>10, <1>11, <1>12, <1>13, OperationStep

\* A used key goes to the front: what is true of the list without it.
LEMMA UsedFirst ==
    ASSUME IndInv, NEW k \in Keys, NEW l, NEW D \in SUBSET Keys, k \notin D,
           Listed(l, D, since), \A j \in D : ShardOf[j] = ShardOf[k], Use(k)
    PROVE  /\ Listed(<<k>> \o l, D \cup {k}, since')
           /\ Len(<<k>> \o l) = Len(l) + 1 /\ Len(l) \in Nat
           /\ (<<k>> \o l)[1] = k
           /\ \A i \in 1..Len(l) : (<<k>> \o l)[i + 1] = l[i]
  <1>1. UseSeen(k, D, since, since')
    BY DEF Use, UseSeen
  <1>2. k \in Keys \ D
    OBVIOUS
  <1> HIDE DEF Use
  <1> QED BY <1>1, <1>2, ListedFront

\* get with a hit on a valid entry, and set of a cached key.
LEMMA MoveToFrontStep ==
    ASSUME IndInv, NEW c \in Callers, NEW k \in Keys, pc[c] = "idle",
           k \in DOMAIN items[ShardOf[k]], NEW m,
           items' = [items EXCEPT ![ShardOf[k]] = m],
           m \in [DOMAIN items[ShardOf[k]] -> Nat],
           \A j \in DOMAIN m : m[j] <= now,
           order' = MoveToFront(ShardOf[k], k), Use(k), Watch(items', now),
           UNCHANGED <<now, pc, localVars>>
    PROVE  IndInv'
  <1> USE DEF localVars
  <1>1. TypeOK
    BY DEF IndInv
  <1>2. PICK s \in Shards : s = ShardOf[k]
    BY LruAssumption
  <1>3. ShardInv(s) /\ k \in DOMAIN items[s]
    BY <1>2 DEF IndInv
  <1> DEFINE r == Without(order[s], k)
             l == <<k>> \o r
  <1>4. order' = [order EXCEPT ![s] = l]
    BY <1>2 DEF MoveToFront
  <1>5. /\ Listed(r, DOMAIN items[s] \ {k}, since) /\ Len(r) = Len(order[s]) - 1
        /\ Len(order[s]) \in Nat
    BY <1>3, ListedRemove DEF ShardInv
  <1>6. DOMAIN items[s] \ {k} \in SUBSET Keys /\ k \notin DOMAIN items[s] \ {k}
    BY <1>3 DEF ShardInv, Listed
  <1>7. \A j \in DOMAIN items[s] \ {k} : ShardOf[j] = ShardOf[k]
    BY <1>2, <1>3 DEF ShardInv
  <1>8. /\ Listed(l, (DOMAIN items[s] \ {k}) \cup {k}, since')
        /\ Len(l) = Len(r) + 1 /\ Len(r) \in Nat
    BY <1>5, <1>6, <1>7, UsedFirst
  <1> HIDE DEF l, r
  <1>9. DOMAIN m = DOMAIN items[s] /\ (DOMAIN items[s] \ {k}) \cup {k} = DOMAIN m
    BY <1>2, <1>3
  <1>10. Listed(l, DOMAIN m, since')
    BY <1>8, <1>9
  <1>11. Len(l) <= Capacity
    BY <1>3, <1>5, <1>8, LruAssumption DEF ShardInv
  <1>12. /\ m \in [DOMAIN m -> Nat]
         /\ \A j \in DOMAIN m : ShardOf[j] = s /\ m[j] <= now
    BY <1>2, <1>3, <1>9 DEF ShardInv
  <1>13. /\ pc' \in [Callers -> {"idle", "evict", "purge", "range", "limit", "ranged", "limited"}]
         /\ \A d \in Callers : pc'[d] = pc[d]
         /\ victim' \in [Callers -> Keys \cup {EmptyKey}]
    BY <1>1 DEF TypeOK
  <1>14. items' = [items EXCEPT ![s] = m] /\ UNCHANGED <<now, at, began, seen, again>>
    BY <1>2
  <1>15. /\ since' \in [Keys -> SUBSET Keys]
         /\ \A j \in Keys : ShardOf[j] # s => since'[j] = since[j]
    BY <1>1, <1>2, UseProperties
  <1> QED BY <1>4, <1>10, <1>11, <1>12, <1>13, <1>14, <1>15, OperationStep

LEMMA GetStep ==
    ASSUME IndInv, NEW c \in Callers, NEW k \in Keys, Get(c, k)
    PROVE  IndInv'
  <1>1. /\ pc[c] = "idle" /\ k \in DOMAIN items[ShardOf[k]] /\ Watch(items', now)
        /\ UNCHANGED <<now, pc, localVars>>
    BY DEF Get
  <1>2. CASE Unlink(ShardOf[k], k) /\ UNCHANGED since
    BY <1>1, <1>2, UnlinkStep DEF localVars
  <1>3. CASE order' = MoveToFront(ShardOf[k], k) /\ Use(k) /\ UNCHANGED items
    <2>1. PICK s \in Shards : s = ShardOf[k]
      BY LruAssumption
    <2>2. TypeOK /\ ShardInv(s)
      BY DEF IndInv
    <2>3. PICK m : m = items[s]
      OBVIOUS
    <2>4. m \in [DOMAIN items[s] -> Nat] /\ \A j \in DOMAIN m : m[j] <= now
      BY <2>2, <2>3 DEF TypeOK, ShardInv
    <2>5. items' = [items EXCEPT ![s] = m]
      BY <1>3, <2>2, <2>3 DEF TypeOK
    <2> QED BY <1>1, <1>3, <2>1, <2>4, <2>5, MoveToFrontStep
  <1> QED BY <1>2, <1>3 DEF Get

LEMMA OverwriteStep ==
    ASSUME IndInv, NEW c \in Callers, NEW k \in Keys, Overwrite(c, k)
    PROVE  IndInv'
  <1>1. /\ pc[c] = "idle" /\ k \in DOMAIN items[ShardOf[k]] /\ Watch(items', now)
        /\ items' = [items EXCEPT ![ShardOf[k]][k] = IF TTL > 0 THEN now ELSE @]
        /\ order' = MoveToFront(ShardOf[k], k) /\ Use(k)
        /\ UNCHANGED <<now, pc, localVars>>
    BY DEF Overwrite
  <1>2. PICK s \in Shards : s = ShardOf[k]
    BY LruAssumption
  <1>3. TypeOK /\ ShardInv(s)
    BY DEF IndInv
  <1>4. PICK v \in Nat : v = (IF TTL > 0 THEN now ELSE items[s][k]) /\ v <= now
    <2>1. now \in Nat /\ items[s] \in [DOMAIN items[s] -> Nat]
      BY <1>3, ItemsType DEF TypeOK
    <2>2. items[s][k] \in Nat /\ items[s][k] <= now
      BY <1>1, <1>2, <1>3, <2>1 DEF ShardInv
    <2> QED BY <2>1, <2>2
  <1> DEFINE m == [items[s] EXCEPT ![k] = v]
  <1>5. items' = [items EXCEPT ![s] = m]
    BY <1>1, <1>2, <1>4
  <1>6. m \in [DOMAIN items[s] -> Nat] /\ \A j \in DOMAIN m : m[j] <= now
    BY <1>3, <1>4, ItemsType DEF ShardInv
  <1> HIDE DEF m
  <1> QED BY <1>1, <1>2, <1>5, <1>6, MoveToFrontStep

\* The oldest node has seen the use of all the others.
LEMMA ListedOldest ==
    ASSUME NEW l, NEW D, NEW sn, Listed(l, D, sn), l # <<>>, sn \in [Keys -> SUBSET Keys]
    PROVE  Cardinality(sn[Last(l)]) >= Len(l) - 1
  <1>a. Last(l) = l[Len(l)] /\ Last(l) \in D /\ Len(l) \in Nat \ {0} /\ D \subseteq Keys
    <2>1. Last(l) = l[Len(l)] /\ Last(l) \in D /\ Len(l) \in Nat \ {0}
      BY ListedDropLast
    <2> QED BY <2>1 DEF Listed
  <1>1. PICK n \in Nat : n = Len(l) - 1 /\ Len(l) = n + 1
    <2>1. Len(l) - 1 \in Nat /\ Len(l) = (Len(l) - 1) + 1
      BY <1>a
    <2> QED BY <2>1
  <1>2. PICK v \in Keys : v = Last(l) /\ v = l[n + 1]
    BY <1>a, <1>1
  <1>3. PICK T : T = {l[i] : i \in 1..n}
    OBVIOUS
  <1>4. n + 1 \in 1..n+1 /\ \A i \in 1..n : i \in 1..n+1 /\ i < n + 1
    OBVIOUS
  <1>5. \A i, j \in 1..n+1 : i < j => l[i] # l[j] /\ l[i] \in sn[l[j]]
    BY <1>1 DEF Listed
  <1>6. T \subseteq sn[v]
    BY <1>2, <1>3, <1>4, <1>5
  <1>7. \A i, j \in 1..n : l[i] = l[j] => i = j
    <2>1. \A i, j \in 1..n : i < j \/ j < i \/ i = j
      OBVIOUS
    <2> QED BY <1>4, <1>5, <2>1
  <1>8. IsFiniteSet(T) /\ Cardinality(T) = n
    BY <1>3, <1>7, DistinctCount
  <1>9. IsFiniteSet(sn[v])
    <2>1. sn[v] \subseteq Keys
      OBVIOUS
    <2> QED BY <2>1, FS_Subset, LruAssumption
  <1>10. Cardinality(T) <= Cardinality(sn[v])
    BY <1>6, <1>9, FS_Subset
  <1> QED BY <1>1, <1>2, <1>8, <1>10

\* set of a new key: the map and list of its shard before an eviction, and
\* what the eviction leaves.
LEMMA InsertProperties ==
    ASSUME IndInv, NEW c \in Callers, NEW k \in Keys, Insert(c, k)
    PROVE  /\ IndInv'
           /\ pc'[c] = "evict" => Cardinality(since'[victim'[c]]) >= Capacity
           /\ \A d \in Callers \ {c} : pc'[d] = pc[d]
  <1>1. TypeOK
    BY DEF IndInv
  <1>2. PICK s \in Shards : s = ShardOf[k]
    BY LruAssumption
  <1>3. ShardInv(s)
    BY DEF IndInv
  <1> DEFINE m == [j \in DOMAIN items[s] \cup {k} |->
                     IF j = k THEN (IF TTL > 0 THEN now ELSE 0) ELSE items[s][j]]
             l == <<k>> \o order[s]
             over == Cardinality(DOMAIN m) > Capacity
             left == IF over THEN UnlinkOldest(m, l, k) ELSE [items |-> m, order |-> l]
  <1>4. /\ pc[c] = "idle" /\ k \notin DOMAIN items[s]
        /\ items' = [items EXCEPT ![s] = left.items]
        /\ order' = [order EXCEPT ![s] = left.order]
        /\ pc' = [pc EXCEPT ![c] = IF over THEN "evict" ELSE "idle"]
        /\ victim' = [victim EXCEPT ![c] = IF over THEN Last(l) ELSE @]
        /\ Use(k) /\ Watch(items', now)
        /\ UNCHANGED <<now, at, began, seen, again>>
    BY <1>2 DEF Insert
  <1>5. /\ DOMAIN m = DOMAIN items[s] \cup {k} /\ m \in [DOMAIN m -> Nat]
        /\ \A j \in DOMAIN m : ShardOf[j] = s /\ m[j] <= now
    <2>1. now \in Nat /\ items[s] \in [DOMAIN items[s] -> Nat]
      BY <1>1, ItemsType DEF TypeOK
    <2>2. \A j \in DOMAIN items[s] : /\ ShardOf[j] = s /\ items[s][j] <= now
                                     /\ items[s][j] \in Nat
      BY <1>3, <2>1 DEF ShardInv
    <2> QED BY <1>2, <2>1, <2>2
  <1>6. /\ Listed(l, DOMAIN m, since')
        /\ Len(l) = Len(order[s]) + 1 /\ Len(order[s]) \in Nat
    <2>1. /\ DOMAIN items[s] \in SUBSET Keys
          /\ \A j \in DOMAIN items[s] : ShardOf[j] = ShardOf[k]
          /\ Listed(order[s], DOMAIN items[s], since)
      BY <1>2, <1>3 DEF ShardInv, Listed
    <2>2. /\ Listed(l, DOMAIN items[s] \cup {k}, since')
          /\ Len(l) = Len(order[s]) + 1 /\ Len(order[s]) \in Nat
      BY <1>4, <2>1, UsedFirst
    <2> HIDE DEF l, m
    <2> QED BY <1>5, <2>2
  <1>7. Cardinality(DOMAIN m) = Len(l)
    <2> HIDE DEF l, m
    <2> QED BY <1>6, ListedCount
  <1>8. /\ since' \in [Keys -> SUBSET Keys]
        /\ \A j \in Keys : ShardOf[j] # s => since'[j] = since[j]
    BY <1>1, <1>2, <1>4, UseProperties
  <1>9. /\ pc' \in [Callers -> {"idle", "evict", "purge", "range", "limit", "ranged", "limited"}]
        /\ \A d \in Callers \ {c} : pc'[d] = pc[d]
        /\ pc'[c] = IF over THEN "evict" ELSE "idle"
    BY <1>1, <1>4 DEF TypeOK
  <1>10. \A d \in Callers : \/ pc'[d] = pc[d]
                            \/ pc[d] = "idle" /\ pc'[d] \in {"idle", "evict"}
    BY <1>4, <1>9
  <1> HIDE DEF m, l
  <1>11. CASE over
    <2> DEFINE m2 == [j \in DOMAIN m \ {Last(l)} |-> m[j]]
               l2 == Front(l)
    <2>1. left.items = m2 /\ left.order = l2
      BY <1>11 DEF UnlinkOldest
    <2>2. Len(l) = Capacity + 1 /\ l # <<>>
      <3>1. Len(l) = Capacity + 1
        BY <1>3, <1>6, <1>7, <1>11, LruAssumption DEF ShardInv
      <3> QED BY <3>1, LruAssumption
    <2>3. /\ Listed(l2, DOMAIN m \ {Last(l)}, since') /\ Len(l2) = Capacity
          /\ Last(l) \in Keys
      <3>1. /\ Listed(Front(l), DOMAIN m \ {Last(l)}, since')
            /\ Last(l) \in DOMAIN m /\ Len(Front(l)) = Len(l) - 1
        BY <1>6, <2>2, ListedDropLast
      <3>2. DOMAIN m \subseteq Keys
        BY <1>6 DEF Listed
      <3> QED BY <2>2, <3>1, <3>2, LruAssumption
    <2>4. DOMAIN m2 = DOMAIN m \ {Last(l)} /\ \A j \in DOMAIN m2 : m2[j] = m[j]
      OBVIOUS
    <2>5. m2 \in [DOMAIN m2 -> Nat] /\ \A j \in DOMAIN m2 : ShardOf[j] = s /\ m2[j] <= now
      BY <1>5
    <2> HIDE DEF m2, l2, left, over
    <2>6. items' = [items EXCEPT ![s] = m2] /\ order' = [order EXCEPT ![s] = l2]
      BY <1>4, <2>1
    <2>7. Listed(l2, DOMAIN m2, since') /\ Len(l2) <= Capacity
      BY <2>3, <2>4, LruAssumption
    <2>8. victim' = [victim EXCEPT ![c] = Last(l)]
      BY <1>4, <1>11
    <2>9. victim' \in [Callers -> Keys \cup {EmptyKey}] /\ victim'[c] = Last(l)
      BY <1>1, <2>3, <2>8 DEF TypeOK
    <2>10. IndInv'
      BY <1>4, <1>8, <1>9, <1>10, <2>5, <2>6, <2>7, <2>9, OperationStep
    <2>11. Cardinality(since'[Last(l)]) >= Len(l) - 1
      BY <1>6, <1>8, <2>2, ListedOldest
    <2>12. Len(l) - 1 = Capacity
      BY <2>2, LruAssumption
    <2> QED BY <1>9, <2>9, <2>10, <2>11, <2>12
  <1>12. CASE ~over
    <2>1. left.items = m /\ left.order = l
      BY <1>12
    <2>2. Len(l) <= Capacity
      BY <1>6, <1>7, <1>12, LruAssumption
    <2> HIDE DEF left, over
    <2>3. items' = [items EXCEPT ![s] = m] /\ order' = [order EXCEPT ![s] = l]
      BY <1>4, <2>1
    <2>4. victim' = [victim EXCEPT ![c] = victim[c]]
      BY <1>4, <1>12
    <2>5. victim' \in [Callers -> Keys \cup {EmptyKey}] /\ pc'[c] = "idle"
      BY <1>1, <1>9, <1>12, <2>4 DEF TypeOK
    <2>6. IndInv'
      BY <1>4, <1>5, <1>6, <1>8, <1>9, <1>10, <2>2, <2>3, <2>5, OperationStep
    <2> QED BY <1>9, <2>5, <2>6
  <1> QED BY <1>11, <1>12

\* Purge empties one shard after the other.
LEMMA PurgeShardStep ==
    ASSUME IndInv, NEW c \in Callers, PurgeShard(c)
    PROVE  IndInv'
  <1>1. TypeOK
    BY DEF IndInv
  <1>2. PICK s \in Shards : s = at[c]
    BY <1>1 DEF TypeOK
  <1>3. /\ pc[c] = "purge"
        /\ items' = [items EXCEPT ![s] = <<>>] /\ order' = [order EXCEPT ![s] = <<>>]
        /\ at' = [at EXCEPT ![c] = IF @ = NShards THEN 1 ELSE @ + 1]
        /\ pc' = [pc EXCEPT ![c] = IF s = NShards THEN "idle" ELSE "purge"]
        /\ Watch(items', now)
        /\ UNCHANGED <<now, first, began, victim, seen, again, since>>
    BY <1>2 DEF PurgeShard
  <1>4. /\ DOMAIN <<>> = {} /\ Len(<<>>) = 0 /\ <<>> \in [DOMAIN <<>> -> Nat]
        /\ Listed(<<>>, DOMAIN <<>>, since')
    <2>1. DOMAIN <<>> = {} /\ Len(<<>>) = 0 /\ <<>> \in [DOMAIN <<>> -> Nat]
      BY EmptySeq
    <2>2. Listed(<<>>, {}, since')
      BY EmptyListed
    <2> QED BY <2>1, <2>2
  <1>5. PICK z : z = <<>>
    OBVIOUS
  <1>6. /\ DOMAIN z = {} /\ Len(z) <= Capacity /\ z \in [DOMAIN z -> Nat]
        /\ Listed(z, DOMAIN z, since')
        /\ items' = [items EXCEPT ![s] = z] /\ order' = [order EXCEPT ![s] = z]
    BY <1>3, <1>4, <1>5, LruAssumption
  <1>7. \A j \in DOMAIN z : ShardOf[j] = s /\ z[j] <= now
    BY <1>6
  <1>8. /\ since' \in [Keys -> SUBSET Keys]
        /\ \A j \in Keys : ShardOf[j] # s => since'[j] = since[j]
    BY <1>1, <1>3 DEF TypeOK
  <1>9. /\ items' = [t \in Shards |-> items'[t]]
        /\ \A t \in Shards : items'[t] \in [DOMAIN items'[t] -> Nat]
        /\ order' \in [Shards -> Seq(Keys)]
        /\ \A t \in Shards : ShardInv(t)'
        /\ stay' \in [Callers -> SUBSET Keys]
        /\ \A d \in Callers : /\ stay'[d] \subseteq stay[d]
                              /\ \A j \in stay'[d] : Valid(items, j, now)'
    BY <1>3, <1>6, <1>7, <1>8, ShardStep
  <1>10. PICK n \in Shards : n = IF at[c] = NShards THEN 1 ELSE at[c] + 1
    BY <1>2, LruAssumption DEF Shards
  <1>11. at' = [at EXCEPT ![c] = n]
    BY <1>3, <1>10
  <1>12. /\ at' \in [Callers -> Shards] /\ at'[c] = n
         /\ \A d \in Callers \ {c} : at'[d] = at[d] /\ pc'[d] = pc[d]
         /\ pc' \in [Callers -> {"idle", "evict", "purge", "range", "limit", "ranged", "limited"}]
         /\ pc'[c] = IF s = NShards THEN "idle" ELSE "purge"
    BY <1>1, <1>3, <1>11 DEF TypeOK
  <1>13. TypeOK'
    <2>1. /\ now' \in Nat /\ began' \in [Callers -> Nat]
          /\ victim' \in [Callers -> Keys \cup {EmptyKey}]
          /\ seen' \in [Callers -> SUBSET Keys] /\ again' \in [Callers -> SUBSET Keys]
      BY <1>1, <1>3 DEF TypeOK
    <2> QED BY <1>8, <1>9, <1>12, <2>1 DEF TypeOK
  <1>14. ASSUME NEW d \in Callers
         PROVE  CallerInv(d)'
    <2>1. CallerInv(d)
      BY DEF IndInv
    <2>2. CASE d = c
      <3>1. pc'[c] = "idle" => at'[c] = 1
        BY <1>2, <1>10, <1>12
      <3> QED BY <1>3, <1>9, <1>12, <2>1, <2>2, <3>1 DEF CallerInv
    <2>3. CASE d # c
      BY <1>3, <1>9, <1>12, <2>1, <2>3 DEF CallerInv
    <2> QED BY <2>2, <2>3
  <1> QED BY <1>9, <1>13, <1>14 DEF IndInv

-----------------------------------------------------------------------------
(* Steps that leave the shards alone                                       *)

LEMMA ShardsKept ==
    ASSUME IndInv, UNCHANGED <<items, order, now, since>>
    PROVE  /\ items' = [s \in Shards |-> items'[s]]
           /\ \A s \in Shards : items'[s] \in [DOMAIN items'[s] -> Nat]
           /\ order' \in [Shards -> Seq(Keys)] /\ now' \in Nat
           /\ since' \in [Keys -> SUBSET Keys]
           /\ \A s \in Shards : ShardInv(s)'
           /\ \A j : Valid(items, j, now)' <=> Valid(items, j, now)
  <1>1. TypeOK
    BY DEF IndInv
  <1>2. items' = [s \in Shards |-> items'[s]]
    BY <1>1, Zenon DEF TypeOK
  <1>3. /\ \A s \in Shards : items'[s] \in [DOMAIN items'[s] -> Nat]
        /\ order' \in [Shards -> Seq(Keys)] /\ now' \in Nat
        /\ since' \in [Keys -> SUBSET Keys]
    BY <1>1, ItemsType DEF TypeOK
  <1>4. \A s \in Shards : ShardInv(s)'
    BY DEF IndInv, ShardInv
  <1>5. \A j : Valid(items, j, now)' <=> Valid(items, j, now)
    BY DEF Valid
  <1> QED BY <1>2, <1>3, <1>4, <1>5

\* onEvict returns, and Purge begins.
LEMMA QuietStep ==
    ASSUME IndInv, NEW c \in Callers, EvictCallback(c) \/ PurgeBegin(c)
    PROVE  IndInv'
  <1> USE DEF localVars
  <1>1. /\ pc[c] \in {"idle", "evict"}
        /\ UNCHANGED <<items, order, now, at, first, began, seen, again, since, stay>>
    BY DEF EvictCallback, PurgeBegin
  <1>2. PICK x \in {"idle", "purge"} : pc' = [pc EXCEPT ![c] = x]
    BY DEF EvictCallback, PurgeBegin
  <1>3. TypeOK
    BY DEF IndInv
  <1>4. victim' \in [Callers -> Keys \cup {EmptyKey}]
    BY <1>3 DEF TypeOK, EvictCallback, PurgeBegin
  <1>5. /\ pc'[c] = x /\ \A d \in Callers \ {c} : pc'[d] = pc[d]
        /\ pc' \in [Callers -> {"idle", "evict", "purge", "range", "limit", "ranged", "limited"}]
    BY <1>2, <1>3 DEF TypeOK
  <1>6. /\ items' = [s \in Shards |-> items'[s]]
        /\ \A s \in Shards : items'[s] \in [DOMAIN items'[s] -> Nat]
        /\ order' \in [Shards -> Seq(Keys)] /\ now' \in Nat
        /\ since' \in [Keys -> SUBSET Keys]
        /\ \A s \in Shards : ShardInv(s)'
        /\ \A j : Valid(items, j, now)' <=> Valid(items, j, now)
    BY <1>1, ShardsKept
  <1>7. TypeOK'
    <2>1. /\ at' \in [Callers -> Shards] /\ began' \in [Callers -> Nat]
          /\ seen' \in [Callers -> SUBSET Keys] /\ again' \in [Callers -> SUBSET Keys]
          /\ stay' \in [Callers -> SUBSET Keys]
      BY <1>1, <1>3 DEF TypeOK
    <2> QED BY <1>4, <1>5, <1>6, <2>1 DEF TypeOK
  <1>8. ASSUME NEW d \in Callers
        PROVE  CallerInv(d)'
    <2>1. CallerInv(d)
      BY DEF IndInv
    <2> QED BY <1>1, <1>5, <1>6, <2>1 DEF CallerInv
  <1> QED BY <1>6, <1>7, <1>8 DEF IndInv

LEMMA TickStep ==
    ASSUME IndInv, Tick
    PROVE  IndInv'
  <1>1. TypeOK
    BY DEF IndInv
  <1>2. /\ now' = now + 1 /\ Watch(items, now')
        /\ UNCHANGED <<items, order, pc, at, began, victim, seen, again, since>>
    BY DEF Tick, localVars
  <1>3. /\ stay' \in [Callers -> SUBSET Keys]
        /\ \A d \in Callers : /\ stay'[d] \subseteq stay[d]
                              /\ \A j \in stay'[d] : Valid(items, j, now')
    BY <1>1, <1>2 DEF Watch, TypeOK
  <1>4. \A j : Valid(items, j, now') => Valid(items, j, now)'
    BY <1>2 DEF Valid
  <1>5. now \in Nat /\ now' \in Nat /\ now <= now'
    BY <1>1, <1>2 DEF TypeOK
  <1>6. TypeOK'
    <2>1. items' = [s \in Shards |-> items'[s]]
      BY <1>1, <1>2, Zenon DEF TypeOK
    <2>2. /\ \A s \in Shards : items'[s] \in [DOMAIN items'[s] -> Nat]
          /\ order' \in [Shards -> Seq(Keys)] /\ since' \in [Keys -> SUBSET Keys]
          /\ pc' \in [Callers -> {"idle", "evict", "purge", "range", "limit", "ranged", "limited"}]
          /\ at' \in [Callers -> Shards] /\ began' \in [Callers -> Nat]
          /\ victim' \in [Callers -> Keys \cup {EmptyKey}]
          /\ seen' \in [Callers -> SUBSET Keys] /\ again' \in [Callers -> SUBSET Keys]
      BY <1>1, <1>2, ItemsType DEF TypeOK
    <2> QED BY <1>3, <1>5, <2>1, <2>2 DEF TypeOK
  <1>7. ASSUME NEW s \in Shards
        PROVE  ShardInv(s)'
    <2>1. ShardInv(s)
      BY DEF IndInv
    <2>2. \A k \in DOMAIN items[s] : items[s][k] <= now'
      <3>1. \A k \in DOMAIN items[s] : items[s][k] \in Nat /\ items[s][k] <= now
        BY <1>1, <2>1, ItemsType DEF ShardInv
      <3> QED BY <1>5, <3>1
    <2> QED BY <1>2, <2>1, <2>2 DEF ShardInv
  <1>8. ASSUME NEW d \in Callers
        PROVE  CallerInv(d)'
    <2>1. CallerInv(d)
      BY DEF IndInv
    <2>2. began[d] <= now'
      <3>1. began[d] \in Nat /\ began[d] <= now
        BY <1>1, <2>1 DEF TypeOK, CallerInv
      <3> QED BY <1>5, <3>1
    <2> QED BY <1>2, <1>3, <1>4, <2>1, <2>2 DEF CallerInv
  <1> QED BY <1>6, <1>7, <1>8 DEF IndInv

-----------------------------------------------------------------------------
(* Range and RangeLimit                                                    *)

LEMMA RangeBeginStep ==
    ASSUME IndInv, NEW c \in Callers, NEW kind \in {"range", "limit"}, RangeBegin(c, kind)
    PROVE  IndInv'
  <1>1. TypeOK
    BY DEF IndInv
  <1> DEFINE S == {k \in Cached(items) : Valid(items, k, now)}
  <1>2. /\ pc[c] = "idle" /\ pc' = [pc EXCEPT ![c] = kind]
        /\ began' = [began EXCEPT ![c] = now] /\ stay' = [stay EXCEPT ![c] = S]
        /\ UNCHANGED <<items, order, now, at, first, victim, seen, again, since>>
    BY DEF RangeBegin
  <1>3. S \subseteq Keys /\ \A k \in S : Valid(items, k, now)
    <2>1. \A s \in Shards : DOMAIN items[s] \subseteq Keys
      BY DEF IndInv, ShardInv, Listed
    <2> QED BY <2>1 DEF Cached
  <1> HIDE DEF S
  <1>4. /\ items' = [s \in Shards |-> items'[s]]
        /\ \A s \in Shards : items'[s] \in [DOMAIN items'[s] -> Nat]
        /\ order' \in [Shards -> Seq(Keys)] /\ now' \in Nat
        /\ since' \in [Keys -> SUBSET Keys]
        /\ \A s \in Shards : ShardInv(s)'
        /\ \A j : Valid(items, j, now)' <=> Valid(items, j, now)
    BY <1>2, ShardsKept
  <1>5. /\ pc'[c] = kind /\ began'[c] = now /\ stay'[c] = S
        /\ \A d \in Callers \ {c} : pc'[d] = pc[d] /\ began'[d] = began[d]
                                      /\ stay'[d] = stay[d]
    BY <1>1, <1>2 DEF TypeOK
  <1>6. TypeOK'
    <2>1. /\ at' \in [Callers -> Shards] /\ began' \in [Callers -> Nat]
          /\ pc' \in [Callers -> {"idle", "evict", "purge", "range", "limit", "ranged", "limited"}]
          /\ victim' \in [Callers -> Keys \cup {EmptyKey}]
          /\ seen' \in [Callers -> SUBSET Keys] /\ again' \in [Callers -> SUBSET Keys]
          /\ stay' \in [Callers -> SUBSET Keys]
      BY <1>1, <1>2, <1>3 DEF TypeOK
    <2> QED BY <1>4, <2>1 DEF TypeOK
  <1>7. ASSUME NEW d \in Callers
        PROVE  CallerInv(d)'
    <2>1. CallerInv(d)
      BY DEF IndInv
    <2>2. CASE d # c
      BY <1>2, <1>4, <1>5, <2>1, <2>2 DEF CallerInv
    <2>3. CASE d = c
      <3>1. at[c] = 1 /\ seen[c] = {} /\ again[c] = {}
        BY <1>2, <2>1, <2>3 DEF CallerInv
      <3>2. \A k \in S : ~(ShardOf[k] < 1)
        <4>1. \A k \in S : ShardOf[k] \in Shards
          BY <1>3, LruAssumption
        <4> QED BY <4>1, LruAssumption DEF Shards
      <3>3. now <= now /\ now' = now
        BY <1>1, <1>2 DEF TypeOK
      <3> QED BY <1>2, <1>3, <1>4, <1>5, <2>3, <3>1, <3>2, <3>3 DEF CallerInv
    <2> QED BY <2>2, <2>3
  <1> QED BY <1>4, <1>6, <1>7 DEF IndInv

\* A visit of some keys by c, which stays at its shard or goes to the next.
LEMMA VisitStep ==
    ASSUME IndInv, NEW c \in Callers, NEW K \in SUBSET Keys, Visit(c, K),
           UNCHANGED <<items, order, now, began, victim, since, stay>>,
           at' \in [Callers -> Shards],
           pc' \in [Callers -> {"idle", "evict", "purge", "range", "limit", "ranged", "limited"}],
           \A d \in Callers \ {c} : pc'[d] = pc[d] /\ at'[d] = at[d],
           CallerInv(c)'
    PROVE  IndInv'
  <1>1. TypeOK
    BY DEF IndInv
  <1>2. /\ items' = [s \in Shards |-> items'[s]]
        /\ \A s \in Shards : items'[s] \in [DOMAIN items'[s] -> Nat]
        /\ order' \in [Shards -> Seq(Keys)] /\ now' \in Nat
        /\ since' \in [Keys -> SUBSET Keys]
        /\ \A s \in Shards : ShardInv(s)'
        /\ \A j : Valid(items, j, now)' <=> Valid(items, j, now)
    BY ShardsKept
  <1>3. /\ seen' \in [Callers -> SUBSET Keys] /\ again' \in [Callers -> SUBSET Keys]
        /\ \A d \in Callers \ {c} : seen'[d] = seen[d] /\ again'[d] = again[d]
    BY <1>1 DEF Visit, TypeOK
  <1>4. TypeOK'
    <2>1. /\ began' \in [Callers -> Nat] /\ stay' \in [Callers -> SUBSET Keys]
          /\ victim' \in [Callers -> Keys \cup {EmptyKey}]
      BY <1>1 DEF TypeOK
    <2> QED BY <1>2, <1>3, <2>1 DEF TypeOK
  <1>5. ASSUME NEW d \in Callers, d # c
        PROVE  CallerInv(d)'
    <2>1. CallerInv(d)
      BY DEF IndInv
    <2> QED BY <1>2, <1>3, <1>5, <2>1 DEF CallerInv
  <1> QED BY <1>2, <1>4, <1>5 DEF IndInv

\* The range goes on to the next shard, or has visited the last.
LEMMA NextShardProperties ==
    ASSUME TypeOK, NEW c \in Callers, NextShard(c)
    PROVE  /\ at' \in [Callers -> Shards]
           /\ pc[c] \in {"range", "limit"} =>
                pc' \in [Callers -> {"idle", "evict", "purge", "range", "limit", "ranged", "limited"}]
           /\ \A d \in Callers \ {c} : pc'[d] = pc[d] /\ at'[d] = at[d]
           /\ \/ at[c] < NShards /\ at'[c] = at[c] + 1 /\ pc'[c] = pc[c]
              \/ /\ at[c] = NShards
                 /\ pc'[c] = IF pc[c] = "range" THEN "ranged" ELSE "limited"
  <1>1. PICK s \in Shards : s = at[c]
    BY DEF TypeOK
  <1>2. PICK n \in Shards : n = IF s = NShards THEN 1 ELSE s + 1
    BY LruAssumption DEF Shards
  <1>3. at' = [at EXCEPT ![c] = n]
    BY <1>1, <1>2 DEF NextShard
  <1>4. PICK x : x = IF s < NShards THEN pc[c]
                     ELSE IF pc[c] = "range" THEN "ranged" ELSE "limited"
    OBVIOUS
  <1>5. pc' = [pc EXCEPT ![c] = x]
    BY <1>1, <1>4 DEF NextShard
  <1>6. s \in Nat /\ (s < NShards \/ s = NShards) /\ ~(s < NShards /\ s = NShards)
    BY LruAssumption DEF Shards
  <1> QED BY <1>1, <1>2, <1>3, <1>4, <1>5, <1>6 DEF TypeOK

\* Range visits a shard: all that has stayed there is valid at the time the
\* range began, and none of it has been visited.
LEMMA RangeShardStep ==
    ASSUME IndInv, NEW c \in Callers, RangeShard(c)
    PROVE  IndInv'
  <1>1. TypeOK /\ CallerInv(c)
    BY DEF IndInv
  <1>2. /\ pc[c] = "range" /\ Visit(c, Snapshot(c)) /\ NextShard(c)
        /\ UNCHANGED <<items, order, now, began, victim, since, stay>>
    BY DEF RangeShard
  <1>3. PICK s \in Shards : s = at[c]
    BY <1>1 DEF TypeOK
  <1>4. ShardInv(s) /\ ToSet(order[s]) = DOMAIN items[s]
    <2>1. ShardInv(s)
      BY DEF IndInv
    <2> QED BY <2>1, ListedCount DEF ShardInv
  <1>5. PICK K \in SUBSET Keys : /\ K = Snapshot(c)
                                 /\ \A k \in K : ShardOf[k] = s
                                 /\ \A k \in stay[c] : ShardOf[k] = s => k \in K
    <2>1. Snapshot(c) = {k \in DOMAIN items[s] : Valid(items, k, began[c])}
      BY <1>3, <1>4 DEF Snapshot
    <2>2. DOMAIN items[s] \subseteq Keys /\ \A k \in DOMAIN items[s] : ShardOf[k] = s
      BY <1>4 DEF ShardInv, Listed
    <2>3. ASSUME NEW k \in stay[c], ShardOf[k] = s
          PROVE  k \in DOMAIN items[s] /\ Valid(items, k, began[c])
      <3>1. Valid(items, k, now) /\ began[c] <= now
        BY <1>1 DEF CallerInv
      <3>2. k \in DOMAIN items[s]
        BY <2>3, <3>1 DEF Valid
      <3>3. items[s][k] \in Nat /\ now \in Nat /\ began[c] \in Nat
        BY <1>1, <3>2, ItemsType DEF TypeOK
      <3>4. TTL = 0 \/ began[c] - items[s][k] <= TTL
        <4>1. TTL = 0 \/ now - items[s][k] <= TTL
          BY <2>3, <3>1 DEF Valid
        <4> QED BY <3>1, <3>3, <4>1, LruAssumption
      <3> QED BY <2>3, <3>2, <3>4 DEF Valid
    <2> QED BY <2>1, <2>2, <2>3
  <1>6. seen'[c] = seen[c] \cup K /\ again'[c] = again[c] \cup (K \cap seen[c])
    BY <1>1, <1>2, <1>5 DEF Visit, TypeOK
  <1>7. /\ at' \in [Callers -> Shards]
        /\ pc' \in [Callers -> {"idle", "evict", "purge", "range", "limit", "ranged", "limited"}]
        /\ \A d \in Callers \ {c} : pc'[d] = pc[d] /\ at'[d] = at[d]
        /\ \/ s < NShards /\ at'[c] = s + 1 /\ pc'[c] = "range"
           \/ s = NShards /\ pc'[c] = "ranged"
    BY <1>1, <1>2, <1>3, NextShardProperties
  <1>8. s \in Nat /\ \A k \in Keys : ShardOf[k] \in Nat /\ ShardOf[k] <= NShards
    BY LruAssumption DEF Shards
  <1>9. /\ again[c] = {}
        /\ \A k \in seen[c] : ShardOf[k] < s
        /\ \A k \in stay[c] : ShardOf[k] < s => k \in seen[c]
        /\ seen[c] \subseteq Keys /\ stay[c] \subseteq Keys
    BY <1>1, <1>2, <1>3 DEF CallerInv, TypeOK
  <1>10. again'[c] = {}
    BY <1>5, <1>6, <1>8, <1>9
  <1>11. \A k \in seen'[c] : ShardOf[k] < s + 1
    BY <1>5, <1>6, <1>8, <1>9
  <1>12. \A k \in stay[c] : ShardOf[k] < s + 1 => k \in seen'[c]
    <2>1. \A k \in stay[c] : ShardOf[k] < s + 1 => ShardOf[k] < s \/ ShardOf[k] = s
      BY <1>8, <1>9
    <2> QED BY <1>5, <1>6, <1>9, <2>1
  <1>13. CallerInv(c)'
    <2>1. \A j : Valid(items, j, now)' <=> Valid(items, j, now)
      BY <1>2, ShardsKept
    <2>2. began'[c] <= now' /\ \A k \in stay'[c] : Valid(items, k, now)'
      BY <1>1, <1>2, <2>1 DEF CallerInv
    <2>3. CASE s < NShards /\ at'[c] = s + 1 /\ pc'[c] = "range"
      BY <1>2, <1>10, <1>11, <1>12, <2>2, <2>3 DEF CallerInv
    <2>4. CASE s = NShards /\ pc'[c] = "ranged"
      <3>1. stay[c] \subseteq seen'[c]
        <4>1. \A k \in stay[c] : ShardOf[k] < s + 1
          BY <1>8, <1>9, <2>4, LruAssumption
        <4> QED BY <1>12, <4>1
      <3> QED BY <1>2, <1>10, <2>2, <2>4, <3>1 DEF CallerInv
    <2> QED BY <1>7, <2>3, <2>4
  <1> QED BY <1>2, <1>5, <1>7, <1>13, VisitStep

LEMMA RangeBatchStep ==
    ASSUME IndInv, NEW c \in Callers, RangeBatch(c)
    PROVE  IndInv'
  <1>1. TypeOK /\ CallerInv(c)
    BY DEF IndInv
  <1>2. /\ pc[c] = "limit" /\ Visit(c, Batch(c))
        /\ NextShard(c) \/ UNCHANGED <<at, pc>>
        /\ UNCHANGED <<items, order, now, began, victim, since, stay>>
    BY DEF RangeBatch
  <1>3. PICK K \in SUBSET Keys : K = Batch(c)
    <2>1. PICK l \in Seq(Keys) : l = order[at[c]]
      BY <1>1 DEF TypeOK
    <2>2. \A i \in 1..Len(l) : l[i] \in Keys
      BY <2>1, ElementOfSeq
    <2> QED BY <2>1, <2>2 DEF Batch
  <1>4. /\ at' \in [Callers -> Shards]
        /\ pc' \in [Callers -> {"idle", "evict", "purge", "range", "limit", "ranged", "limited"}]
        /\ \A d \in Callers \ {c} : pc'[d] = pc[d] /\ at'[d] = at[d]
        /\ pc'[c] \in {"limit", "limited"}
    <2>1. CASE NextShard(c)
      BY <1>1, <1>2, <2>1, NextShardProperties
    <2>2. CASE UNCHANGED <<at, pc>>
      BY <1>1, <1>2, <2>2 DEF TypeOK
    <2> QED BY <1>2, <2>1, <2>2
  <1>5. CallerInv(c)'
    <2>1. \A j : Valid(items, j, now)' <=> Valid(items, j, now)
      BY <1>2, ShardsKept
    <2> QED BY <1>1, <1>2, <1>4, <2>1 DEF CallerInv
  <1> QED BY <1>2, <1>3, <1>4, <1>5, VisitStep

LEMMA RangeEndStep ==
    ASSUME IndInv, NEW c \in Callers, RangeEnd(c)
    PROVE  IndInv'
  <1>1. TypeOK
    BY DEF IndInv
  <1>2. /\ pc' = [pc EXCEPT ![c] = "idle"] /\ at' = [at EXCEPT ![c] = 1]
        /\ began' = [began EXCEPT ![c] = 0] /\ seen' = [seen EXCEPT ![c] = {}]
        /\ again' = [again EXCEPT ![c] = {}] /\ stay' = [stay EXCEPT ![c] = {}]
        /\ UNCHANGED <<items, order, now, victim, since>>
    BY DEF RangeEnd
  <1>3. /\ items' = [s \in Shards |-> items'[s]]
        /\ \A s \in Shards : items'[s] \in [DOMAIN items'[s] -> Nat]
        /\ order' \in [Shards -> Seq(Keys)] /\ now' \in Nat
        /\ since' \in [Keys -> SUBSET Keys]
        /\ \A s \in Shards : ShardInv(s)'
        /\ \A j : Valid(items, j, now)' <=> Valid(items, j, now)
    BY <1>2, ShardsKept
  <1>4. /\ pc'[c] = "idle" /\ at'[c] = 1 /\ began'[c] = 0 /\ seen'[c] = {}
        /\ again'[c] = {} /\ stay'[c] = {}
        /\ \A d \in Callers \ {c} :
              /\ pc'[d] = pc[d] /\ at'[d] = at[d] /\ began'[d] = began[d]
              /\ seen'[d] = seen[d] /\ again'[d] = again[d] /\ stay'[d] = stay[d]
    BY <1>1, <1>2 DEF TypeOK
  <1>5. TypeOK'
    <2>1. 1 \in Shards
      BY LruAssumption DEF Shards
    <2>2. /\ at' \in [Callers -> Shards] /\ began' \in [Callers -> Nat]
          /\ pc' \in [Callers -> {"idle", "evict", "purge", "range", "limit", "ranged", "limited"}]
          /\ victim' \in [Callers -> Keys \cup {EmptyKey}]
          /\ seen' \in [Callers -> SUBSET Keys] /\ again' \in [Callers -> SUBSET Keys]
          /\ stay' \in [Callers -> SUBSET Keys]
      BY <1>1, <1>2, <2>1 DEF TypeOK
    <2> QED BY <1>3, <2>2 DEF TypeOK
  <1>6. ASSUME NEW d \in Callers
        PROVE  CallerInv(d)'
    <2>1. CallerInv(d)
      BY DEF IndInv
    <2>2. 0 <= now'
      BY <1>3
    <2> QED BY <1>2, <1>3, <1>4, <2>1, <2>2 DEF CallerInv
  <1> QED BY <1>3, <1>5, <1>6 DEF IndInv

-----------------------------------------------------------------------------
(* The theorems                                                            *)

LEMMA StutterStep ==
    ASSUME IndInv, UNCHANGED vars
    PROVE  IndInv'
  <1> USE DEF vars
  <1>1. TypeOK
    BY DEF IndInv
  <1>2. /\ items' = [s \in Shards |-> items'[s]]
        /\ \A s \in Shards : items'[s] \in [DOMAIN items'[s] -> Nat]
        /\ order' \in [Shards -> Seq(Keys)] /\ now' \in Nat
        /\ since' \in [Keys -> SUBSET Keys]
        /\ \A s \in Shards : ShardInv(s)'
        /\ \A j : Valid(items, j, now)' <=> Valid(items, j, now)
    BY ShardsKept
  <1>3. /\ at' \in [Callers -> Shards] /\ began' \in [Callers -> Nat]
        /\ pc' \in [Callers -> {"idle", "evict", "purge", "range", "limit", "ranged", "limited"}]
        /\ victim' \in [Callers -> Keys \cup {EmptyKey}]
        /\ seen' \in [Callers -> SUBSET Keys] /\ again' \in [Callers -> SUBSET Keys]
        /\ stay' \in [Callers -> SUBSET Keys]
    BY <1>1 DEF TypeOK
  <1>4. \A d \in Callers : CallerInv(d)'
    BY <1>2 DEF IndInv, CallerInv
  <1> QED BY <1>2, <1>3, <1>4 DEF IndInv, TypeOK

LEMMA NextIndInv ==
    ASSUME IndInv, [Next]_vars
    PROVE  IndInv'
  <1>1. ASSUME NEW c \in Callers, NEW k \in Keys,
               Get(c, k) \/ Overwrite(c, k) \/ Insert(c, k) \/ Del(c, k)
        PROVE  IndInv'
    <2>1. CASE Del(c, k)
      BY <2>1, UnlinkStep DEF Del
    <2> QED BY <1>1, <2>1, GetStep, OverwriteStep, InsertProperties
  <1>2. ASSUME NEW c \in Callers,
               EvictCallback(c) \/ PurgeBegin(c) \/ PurgeShard(c)
        PROVE  IndInv'
    BY <1>2, QuietStep, PurgeShardStep
  <1>3. ASSUME NEW c \in Callers,
               \/ \E kind \in {"range", "limit"} : RangeBegin(c, kind)
               \/ RangeShard(c) \/ RangeBatch(c) \/ RangeEnd(c)
        PROVE  IndInv'
    BY <1>3, RangeBeginStep, RangeShardStep, RangeBatchStep, RangeEndStep
  <1>4. CASE Tick
    BY <1>4, TickStep
  <1>5. CASE UNCHANGED vars
    BY <1>5, StutterStep
  <1> QED BY <1>1, <1>2, <1>3, <1>4, <1>5 DEF Next

\* Lists, maps, recorded uses and the progress of the callers keep their
\* relations in every reachable state.
THEOREM LruInductive == Spec => []IndInv
  BY InitIndInv, NextIndInv, PTL DEF Spec

\* The list and the map of every shard hold the same keys, each once, and not
\* more than the capacity.
THEOREM LruShardsAgree == Spec => []ShardsAgree
  BY IndInvShards, LruInductive, PTL

\* A Range that runs to its end misses no key that stayed cached and valid,
\* and visits none twice.
THEOREM LruRangeCovers == Spec => []RangeCovers
  BY IndInvRange, LruInductive, PTL

\* An entry evicted for room has seen Capacity other keys of its shard used
\* since it was used itself.
THEOREM LruEvictsLeastRecent == Spec => EvictsLeastRecent
  <1>1. ASSUME IndInv, [Next]_vars, NEW c \in Callers, pc[c] = "idle", pc'[c] = "evict"
        PROVE  Cardinality(since'[victim'[c]]) >= Capacity
    <2>1. TypeOK
      BY <1>1 DEF IndInv
    <2>2. ASSUME NEW d \in Callers, NEW k \in Keys, Insert(d, k)
          PROVE  Cardinality(since'[victim'[c]]) >= Capacity
      <3>1. d = c
        BY <1>1, <2>2, InsertProperties
      <3> QED BY <1>1, <2>2, <3>1, InsertProperties
    <2>3. ASSUME NEW d \in Callers, NEW k \in Keys,
                 Get(d, k) \/ Overwrite(d, k) \/ Del(d, k)
          PROVE  FALSE
      BY <1>1, <2>3 DEF Get, Overwrite, Del
    <2>4. ASSUME NEW d \in Callers,
                 EvictCallback(d) \/ PurgeBegin(d) \/ PurgeShard(d) \/ RangeEnd(d)
          PROVE  FALSE
      BY <1>1, <2>1, <2>4 DEF EvictCallback, PurgeBegin, PurgeShard, RangeEnd, TypeOK
    <2>5. ASSUME NEW d \in Callers, NEW kind \in {"range", "limit"}, RangeBegin(d, kind)
          PROVE  FALSE
      BY <1>1, <2>1, <2>5 DEF RangeBegin, TypeOK
    <2>6. ASSUME NEW d \in Callers, RangeShard(d) \/ RangeBatch(d)
          PROVE  FALSE
      <3>1. NextShard(d) \/ pc' = pc
        BY <2>6 DEF RangeShard, RangeBatch
      <3> QED BY <1>1, <2>1, <3>1 DEF NextShard, TypeOK
    <2>7. CASE Tick \/ UNCHANGED vars
      BY <1>1, <2>7 DEF Tick, vars
    <2> QED BY <1>1, <2>2, <2>3, <2>4, <2>5, <2>6, <2>7 DEF Next
  <1>2. IndInv /\ [Next]_vars =>
          [\A c \in Callers : pc[c] = "idle" /\ pc'[c] = "evict"
             => Cardinality(since'[victim'[c]]) >= Capacity]_vars
    BY <1>1
  <1> QED BY <1>2, LruInductive, PTL DEF Spec, EvictsLeastRecent
=============================================================================
