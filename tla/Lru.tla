-------------------------------- MODULE Lru ---------------------------------
(***************************************************************************)
(* lru.Cache: shards, each a map and a list under its own mutex.  What an  *)
(* operation does to a shard is one step; the eviction callback and the    *)
(* visits of Range and RangeLimit come after the unlock.  items[s] gives   *)
(* each node of shard s its created time, order[s] is its list, newest     *)
(* first.  A value travels with its node and is left out; keys are routed  *)
(* to shards by ShardOf (a hash in the code).  A visitor changes nothing   *)
(* another caller could not, so its calls are part of the step that takes  *)
(* them from the list.                                                     *)
(*                                                                         *)
(* since[k] are the other keys of k's shard used since k last was, again[c]*)
(* the keys the range of caller c has visited more than once, stay[c] the  *)
(* keys that have been cached and valid ever since it began; they record   *)
(* history and steer nothing.                                              *)
(***************************************************************************)
EXTENDS Integers, Sequences, FiniteSets, SequencesExt

CONSTANTS Callers, Keys, NShards, ShardOf,
          EmptyKey,  \* the key "", which may be one of Keys
          Capacity,  \* cap of a shard
          TTL,       \* 0 when expiry is off
          BatchSize, \* argument of RangeLimit
          MaxTime    \* bound on the clock

Shards == 1 .. NShards

ASSUME LruAssumption == /\ ShardOf \in [Keys -> Shards]
                        /\ Capacity \in Nat \ {0} /\ BatchSize \in Nat \ {0}
                        /\ TTL \in Nat /\ NShards \in Nat \ {0}
                        /\ IsFiniteSet(Keys)

VARIABLES
  items, order, now,
  pc,     \* each caller: idle, evict, purge, range, limit; ranged, limited
          \* when it has visited the last shard
  at,     \* the shard its purge or range has reached
  first,  \* RangeLimit's first: no batch of this shard taken yet
  began,  \* the time its range began
  victim, \* the key it has to call onEvict for
  seen,   \* the keys its range has visited
  again, since, stay

vars == <<items, order, now, pc, at, first, began, victim, seen, again, since, stay>>
localVars == <<at, first, began, victim, seen, again>>

Cached(it) == UNION {DOMAIN it[s] : s \in Shards}
Valid(it, k, t) == /\ k \in DOMAIN it[ShardOf[k]]
                   /\ TTL = 0 \/ t - it[ShardOf[k]][k] <= TTL

Init == /\ items = [s \in Shards |-> <<>>] /\ order = [s \in Shards |-> <<>>]
        /\ now = 0
        /\ pc = [c \in Callers |-> "idle"] /\ at = [c \in Callers |-> 1]
        /\ first = [c \in Callers |-> TRUE] /\ began = [c \in Callers |-> 0]
        /\ victim = [c \in Callers |-> EmptyKey]
        /\ seen = [c \in Callers |-> {}] /\ again = [c \in Callers |-> {}]
        /\ since = [k \in Keys |-> {}] /\ stay = [c \in Callers |-> {}]

-----------------------------------------------------------------------------
(* History.                                                                *)

\* A key is used by Set or by a Get that hits it.
Use(k) == since' = [j \in Keys |->
                      IF j = k THEN {}
                      ELSE IF ShardOf[j] = ShardOf[k] THEN since[j] \cup {k}
                      ELSE since[j]]

\* stay after a step that leaves the maps it at time t.
Watch(it, t) == stay' = [c \in Callers |-> {k \in stay[c] : Valid(it, k, t)}]

-----------------------------------------------------------------------------
(* The shard (get, set, del, purge).                                       *)

\* The place of k in the list l, and l without k.
Position(l, k) == CHOOSE i \in 1 .. Len(l) : l[i] = k
Without(l, k) == RemoveAt(l, Position(l, k))

Unlink(s, k) == /\ items' = [items EXCEPT ![s] = [j \in DOMAIN @ \ {k} |-> @[j]]]
                /\ order' = [order EXCEPT ![s] = Without(@, k)]

MoveToFront(s, k) == [order EXCEPT ![s] = <<k>> \o Without(@, k)]

\* A bug the code avoids: a hit leaves its node where it is.
GetInPlace(c, k) ==
  LET s == ShardOf[k]
  IN /\ pc[c] = "idle" /\ k \in DOMAIN items[s]
     /\ IF ~Valid(items, k, now)
        THEN Unlink(s, k) /\ UNCHANGED since
        ELSE UNCHANGED <<items, order>> /\ Use(k)
     /\ Watch(items', now)
     /\ UNCHANGED <<now, pc, localVars>>

Get(c, k) ==
  LET s == ShardOf[k]
  IN /\ pc[c] = "idle" /\ k \in DOMAIN items[s]
     /\ IF ~Valid(items, k, now)
        THEN Unlink(s, k) /\ UNCHANGED since
        ELSE /\ order' = MoveToFront(s, k)
             /\ Use(k) /\ UNCHANGED items
     /\ Watch(items', now)
     /\ UNCHANGED <<now, pc, localVars>>

Overwrite(c, k) ==
  LET s == ShardOf[k]
  IN /\ pc[c] = "idle" /\ k \in DOMAIN items[s]
     /\ items' = [items EXCEPT ![s][k] = IF TTL > 0 THEN now ELSE @]
     /\ order' = MoveToFront(s, k)
     /\ Use(k)
     /\ Watch(items', now)
     /\ UNCHANGED <<now, pc, localVars>>

\* A bug the code avoids: the list loses its oldest node, the map does not.
EvictFromListOnly(m, l, k) == [items |-> m, order |-> Front(l)]

\* unlinkOldest: the last node of the list leaves list and map.
UnlinkOldest(m, l, k) ==
  [items |-> [j \in DOMAIN m \ {Last(l)} |-> m[j]], order |-> Front(l)]

Insert(c, k) ==
  LET s == ShardOf[k]
      m == [j \in DOMAIN items[s] \cup {k} |->
              IF j = k THEN (IF TTL > 0 THEN now ELSE 0) ELSE items[s][j]]
      l == <<k>> \o order[s]
      over == Cardinality(DOMAIN m) > Capacity
      left == IF over THEN UnlinkOldest(m, l, k) ELSE [items |-> m, order |-> l]
  IN /\ pc[c] = "idle" /\ k \notin DOMAIN items[s]
     /\ items' = [items EXCEPT ![s] = left.items]
     /\ order' = [order EXCEPT ![s] = left.order]
     /\ pc' = [pc EXCEPT ![c] = IF over THEN "evict" ELSE "idle"]
     /\ victim' = [victim EXCEPT ![c] = IF over THEN Last(l) ELSE @]
     /\ Use(k)
     /\ Watch(items', now)
     /\ UNCHANGED <<now, at, first, began, seen, again>>

\* onEvict is called and returns.
EvictCallback(c) ==
  /\ pc[c] = "evict"
  /\ pc' = [pc EXCEPT ![c] = "idle"]
  /\ victim' = [victim EXCEPT ![c] = EmptyKey]
  /\ UNCHANGED <<items, order, now, at, first, began, seen, again, since, stay>>

Del(c, k) ==
  /\ pc[c] = "idle" /\ k \in DOMAIN items[ShardOf[k]]
  /\ Unlink(ShardOf[k], k)
  /\ Watch(items', now)
  /\ UNCHANGED <<now, pc, localVars, since>>

PurgeBegin(c) ==
  /\ pc[c] = "idle"
  /\ pc' = [pc EXCEPT ![c] = "purge"]
  /\ UNCHANGED <<items, order, now, localVars, since, stay>>

\* Purge goes to the next shard, and is over after the last.
PurgeShard(c) ==
  /\ pc[c] = "purge"
  /\ items' = [items EXCEPT ![at[c]] = <<>>]
  /\ order' = [order EXCEPT ![at[c]] = <<>>]
  /\ at' = [at EXCEPT ![c] = IF @ = NShards THEN 1 ELSE @ + 1]
  /\ pc' = [pc EXCEPT ![c] = IF at[c] = NShards THEN "idle" ELSE "purge"]
  /\ Watch(items', now)
  /\ UNCHANGED <<now, first, began, victim, seen, again, since>>

-----------------------------------------------------------------------------
(* Range and RangeLimit.                                                   *)

RangeBegin(c, kind) ==
  /\ pc[c] = "idle"
  /\ pc' = [pc EXCEPT ![c] = kind]
  /\ began' = [began EXCEPT ![c] = now]
  /\ stay' = [stay EXCEPT ![c] = {k \in Cached(items) : Valid(items, k, now)}]
  /\ UNCHANGED <<items, order, now, at, first, victim, seen, again, since>>

Visit(c, keys) ==
  /\ seen' = [seen EXCEPT ![c] = @ \cup keys]
  /\ again' = [again EXCEPT ![c] = @ \cup (keys \cap seen[c])]

NextShard(c) ==
  /\ at' = [at EXCEPT ![c] = IF @ = NShards THEN 1 ELSE @ + 1]
  /\ pc' = [pc EXCEPT ![c] = IF at[c] < NShards THEN @
                             ELSE IF @ = "range" THEN "ranged" ELSE "limited"]
  /\ first' = [first EXCEPT ![c] = TRUE]

\* A bug the code avoids: the snapshot goes to the end of the first entry
\* that has expired.
SnapshotUpToExpired(c) ==
  LET l == order[at[c]]
      stale == {i \in 1 .. Len(l) : ~Valid(items, l[i], began[c])}
  IN {l[i] : i \in {n \in 1 .. Len(l) : \A j \in stale : n < j}}

\* rangeAll's snapshot of the shard the range has reached.
Snapshot(c) == {k \in ToSet(order[at[c]]) : Valid(items, k, began[c])}

RangeShard(c) ==
  /\ pc[c] = "range"
  /\ Visit(c, Snapshot(c))
  /\ NextShard(c)
  /\ UNCHANGED <<items, order, now, began, victim, since, stay>>

\* rangeBatch: lastKey is only looked at while first holds, when it is still
\* "": the first batch begins after the node of key "", a later one at the
\* front of the list.  It takes BatchSize entries that have not expired.
Batch(c) ==
  LET l == order[at[c]]
      skip == IF ~first[c] THEN 0
              ELSE IF EmptyKey \in ToSet(l) THEN Position(l, EmptyKey) ELSE Len(l)
      left == {i \in 1 .. Len(l) : i > skip /\ Valid(items, l[i], began[c])}
  IN {l[i] : i \in {n \in left : Cardinality({j \in left : j <= n}) <= BatchSize}}

RangeBatch(c) ==
  /\ pc[c] = "limit"
  /\ Visit(c, Batch(c))
  /\ IF Cardinality(Batch(c)) < BatchSize
     THEN NextShard(c)
     ELSE first' = [first EXCEPT ![c] = FALSE] /\ UNCHANGED <<at, pc>>
  /\ UNCHANGED <<items, order, now, began, victim, since, stay>>

\* The call returns, after the last shard or because the visitor said so.
RangeEnd(c) ==
  /\ pc[c] \in {"range", "limit", "ranged", "limited"}
  /\ pc' = [pc EXCEPT ![c] = "idle"] /\ at' = [at EXCEPT ![c] = 1]
  /\ first' = [first EXCEPT ![c] = TRUE] /\ began' = [began EXCEPT ![c] = 0]
  /\ seen' = [seen EXCEPT ![c] = {}] /\ again' = [again EXCEPT ![c] = {}]
  /\ stay' = [stay EXCEPT ![c] = {}]
  /\ UNCHANGED <<items, order, now, victim, since>>

Tick == /\ now < MaxTime
        /\ now' = now + 1
        /\ Watch(items, now')
        /\ UNCHANGED <<items, order, pc, localVars, since>>

Next == \/ \E c \in Callers :
             \/ \E k \in Keys : Get(c, k) \/ Overwrite(c, k) \/ Insert(c, k) \/ Del(c, k)
             \/ EvictCallback(c) \/ PurgeBegin(c) \/ PurgeShard(c)
             \/ \E kind \in {"range", "limit"} : RangeBegin(c, kind)
             \/ RangeShard(c) \/ RangeBatch(c) \/ RangeEnd(c)
        \/ Tick

Spec == Init /\ [][Next]_vars

-----------------------------------------------------------------------------
(* Properties.                                                             *)

\* The list and the map of a shard hold the same keys, each once, and never
\* more than the capacity, whichever of eviction, lazy expiry, Del and Purge
\* took entries out.
ShardsAgree == \A s \in Shards :
                 /\ ToSet(order[s]) = DOMAIN items[s]
                 /\ Len(order[s]) = Cardinality(DOMAIN items[s])
                 /\ Len(order[s]) <= Capacity
                 /\ \A k \in DOMAIN items[s] : ShardOf[k] = s /\ items[s][k] <= now

\* An entry is evicted for room only after Capacity other keys of its shard
\* have been used since it was set or hit last: a key in use among fewer
\* others stays.
EvictsLeastRecent ==
  [][\A c \in Callers : pc[c] = "idle" /\ pc'[c] = "evict"
                          => Cardinality(since'[victim'[c]]) >= Capacity]_vars

\* A Range that is not stopped has visited every key that was cached and
\* valid from its beginning to its end, and none twice, although it takes one
\* shard's lock at a time.
RangeCovers == \A c \in Callers :
                 /\ pc[c] \in {"range", "ranged"} => again[c] = {}
                 /\ pc[c] = "ranged" => stay[c] \subseteq seen[c]

\* RangeLimit's comment says that it visits all valid entries in batches, too.
RangeLimitCovers == \A c \in Callers : pc[c] = "limited" => stay[c] \subseteq seen[c]

-----------------------------------------------------------------------------
(* The inductive invariant.                                                *)

TypeOK ==
  /\ items = [s \in Shards |-> items[s]]
  /\ \A s \in Shards : items[s] \in [DOMAIN items[s] -> Nat]
  /\ order \in [Shards -> Seq(Keys)] /\ now \in Nat
  /\ pc \in [Callers -> {"idle", "evict", "purge", "range", "limit", "ranged", "limited"}]
  /\ at \in [Callers -> Shards] /\ began \in [Callers -> Nat]
  /\ victim \in [Callers -> Keys \cup {EmptyKey}]
  /\ seen \in [Callers -> SUBSET Keys] /\ again \in [Callers -> SUBSET Keys]
  /\ since \in [Keys -> SUBSET Keys] /\ stay \in [Callers -> SUBSET Keys]

\* The list l holds the keys D, each once, and each key has seen the use of
\* those before it: sn gives the keys used since.
Listed(l, D, sn) ==
  /\ l \in Seq(Keys) /\ D \subseteq Keys
  /\ \A k \in D : \E i \in 1 .. Len(l) : l[i] = k
  /\ \A i \in 1 .. Len(l) : l[i] \in D
  /\ \A i, j \in 1 .. Len(l) : i < j => l[i] # l[j] /\ l[i] \in sn[l[j]]

ShardInv(s) ==
  /\ Listed(order[s], DOMAIN items[s], since)
  /\ Len(order[s]) <= Capacity
  /\ \A k \in DOMAIN items[s] : ShardOf[k] = s /\ items[s][k] <= now

\* What a caller has yet to visit is in the shards its range has not reached;
\* a caller that ranges starts at the first shard.
CallerInv(c) ==
  /\ began[c] <= now
  /\ \A k \in stay[c] : Valid(items, k, now)
  /\ pc[c] \in {"idle", "evict"} => at[c] = 1
  /\ pc[c] \in {"idle", "evict", "purge"} => seen[c] = {} /\ again[c] = {} /\ stay[c] = {}
  /\ pc[c] = "range" =>
       /\ again[c] = {}
       /\ \A k \in seen[c] : ShardOf[k] < at[c]
       /\ \A k \in stay[c] : ShardOf[k] < at[c] => k \in seen[c]
  /\ pc[c] = "ranged" => again[c] = {} /\ stay[c] \subseteq seen[c]

IndInv == /\ TypeOK
          /\ \A s \in Shards : ShardInv(s)
          /\ \A c \in Callers : CallerInv(c)
=============================================================================
