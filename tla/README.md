# Verification of yakutil

TLA+ models of [uniyakcom/yakutil](../src/README.md), a Go library of small,
mostly lock-free building blocks (queues, pools, semaphores, limiters, caches).
Each package stands alone; the hard parts are the interleavings inside a package.
The models are checked with TLC on small instances; what matters most is proved
with TLAPS for every value of the constants.

## 1. Inventory

| Component (source) | State | Operations | What is hard | What makes it correct |
|---|---|---|---|---|
| `spsc.Ring` (`spsc/ring.go`) | buffer, `tail`, `head`, and a cached copy of the other side's counter on each side | `Push`, `Pop`, `Len` | two goroutines without a lock; decisions on stale cached counters; `Len` loads twice | no two accesses to one slot; linearizable bounded FIFO; `Len` in `0..cap`; popped slots hold no reference |
| `mpsc.Ring` (`mpsc/ring.go`) | `tail`, `head`, and per slot a state, a value, an error and a one-place channel | `Enqueue`, `Wait`, `WaitContext`, `Drain`, `Commit` | stale loads before the CAS; slots reused lap after lap while old owners finish; cancelled waits leave a goroutine behind; a full channel would block the consumer | one owner per slot; every value processed once, in ticket order; each producer gets its own verdict; every call returns; no slot is lost |
| `semaphore.Semaphore` | `avail`, and the `wake` channel, which only wakes | `Acquire`, `AcquireContext`, `TryAcquire(N)`, `Release(N)` | load, CAS and receive are separate; signals are dropped when the buffer is full | permits conserved; no waiter without a waker |
| `wpool.Stack` (`wpool/stack.go`) | stack of idle workers, `running`, `stopped`, condition variable, a one-place channel per worker | `Submit`, `TrySubmit`, `SubmitTimeout`, `Stop`, worker loop, cleaner | sends happen outside the lock; flags set and broadcast without the lock; workers leave while submitters arrive | one prospective sender per idle worker; accepted tasks run; counters exact; `Stop` returns; waiters wake |
| `wpool.Pool`, `Adaptive` (`wpool/pool.go`) | task queue, `running`, `maxSize`, `idle`, `stopped` | submits, `Resize`, retirement, `Stop`, monitor | `Stop` racing `Submit`; retirement by CAS racing `Resize` | accepted tasks run; `running` exact; a worker is always left; `Stop` returns with the queue drained |
| `ring.Buffer` (`ring/ring.go`) | bytes, `r`, `w`, rollback point | reads, writes, segments, commits, `UnreadByte`, growth | long sequences of legal calls; offsets modulo the capacity | behaves like a sequence of bytes |
| `ratelimit.Limiter`, `IPMap` | tokens, last refill; map from address to limiter | `AllowN`, `Reset`; `Allow`, `Get`, `Evict`, `Purge`, `TopNRecent` | refill in two CAS steps; check-then-act on the map; a rotation of three atomics | at most burst + elapsed·rate admitted; one limiter per address in strict mode; counts that no rotation doubles |
| `wheel.Wheel` | slots of entries, cursor, index | `Add`, `Cancel`, `Advance`, `Run` | round counting at multiples of the wheel size; entry reuse | fires once, when its delay is over, never after a successful `Cancel` |
| `lru.Cache` | per shard a list and a map | `Get`, `Set`, `Del`, `Range`, `RangeLimit`, `Purge` | list and map must agree; resuming a batch walk | least recently used is evicted; ranging visits everything |
| `arena.Arena`, `bufpool.Pool` | current chunk and offset; pools by size class | `Alloc`, `Reset`, `Snap`, `Restore`; `Get`, `Put` | chunk replacement under concurrency; size-class edges | slices never overlap; `Get` is large enough |
| `art.Tree` | radix tree of four node kinds | `Put`, `Get`, `Delete`, iteration | growth, shrinking and path compression | behaves like a sorted map |
| `cow`, `percpu`, `coarsetime`, `smap` | one atomic pointer; counters per CPU; a clock; a sharded map | updates and reads | lost updates, torn sums, a late tick | no lost update |
| `itable`, `topn`, `swar`, `fold`, `hist`, `hash`, `hll`, `sketch`, `backoff`, `yakutil` | none or a plain table | pure functions | numeric edges | agreement with a reference definition |

Interactions inside the library: `mpsc` and `spsc` use nothing but atomics and
channels (and `backoff` for spinning); `Adaptive` drives `Pool` through `Resize`;
`IPMap` stores `Limiter`s in an `smap.Map` and ranks them with `topn`; `lru` and
`smap` pick shards with `hash`; `ratelimit` and `lru` take `coarsetime` as a clock.

The hazards, each with its line, are listed in `PROJECT.json`.

## 2. Plan

Done, in this order: the two rings with their abstract specifications and proofs,
`Semaphore` and `WPoolStack`; then `WPool`, `RingBuffer`, `RateLimit` with `IPMap` over
`smap`, `Wheel`, `Lru`, and `Art` against an ordered map; then the proofs that `Mpsc`
implements `GroupCommit`, and of the safety properties of `Semaphore`, `RateLimit`, `IPMap`,
`WPoolStack`, `WPool`, `Lru`, `Wheel` and `RingBuffer`.

Left, in this order:
1. `Arena` (slices never overlap while goroutines race to replace a full chunk) and the
   tokens of `SubmitTimeout`;
2. `topn`, `itable` and the size classes of `bufpool` as operators against reference
   definitions.

## 3. Modules

### Spsc, BoundedFifo

State: `tail`, `head`, `cachedHead`, `cachedTail`, `buf` as in the struct, the
position of the producer, the consumer and an observer calling `Len`, and the
call each side has in progress. `Push` is `PushBegin`, `PushCheck` (cached head),
`PushRefresh`, `PushWrite`, `PushPublish`; `Pop` is `PopBegin`, `PopCheck`,
`PopRefresh`, `PopRead`, `PopClear`, `PopPublish`; `Len` is its two loads. The
write to a slot is a step of its own, so that a race is a pair of positions and
not a definition. `BoundedFifo` says what the queue promises: each call takes
effect at one instant between call and return, full and empty are told truly.

### Mpsc, GroupCommit

State: counters and slots as in the code; per producer its position, ticket and
spin count; the consumer's position and locals; `orphans` and `reclaims`, the
tickets of the goroutines that `WaitContext` leaves behind. Each atomic operation
and each channel operation is a step; `val` and `err`, plain fields that belong to
whoever owns the slot, change with the atomic store that hands the slot over. The
test `t-h >= len` is done as on `uint64`: it is true when `head` has passed the
loaded `tail`. A producer has one ticket at a time (a goroutine that pipelines is
several producers), and the consumer alternates `Drain` and `Commit`, as the
package documentation prescribes. `log` and `tkt` are auxiliary: they
record what became of each ticket, and which ticket a slot is filled for.

`GroupCommit` keeps one log of submissions in ticket order. An entry is queued,
drained with the function's result, decided (the batch error wins over the item's
own), and closed when its producer has returned or its cleanup is done; a producer
that returns an error returns the one in its own entry.

### Semaphore

`avail` and the channel `wake` with its buffer and its queue of blocked receivers.
The three ways to acquire differ in what happens after the load or the CAS fails:
`TryAcquire(N)` gives up or loops, the blocking ones receive from `wake` (and, with
a context, may be cancelled). `Release(N)` adds, tests, undoes or signals round by
round. A goroutine may also release more permits than are held at all, which the code
undoes before it panics; `misused` records that it has happened. The permits that all
goroutines hold or have yet to undo are a sum over the goroutines (module `Sums`).

### WPoolStack

A critical section of `s.mu` is one step, except those that end in `cond.Wait`:
the tests and the entry into the wait list are two steps with the lock held in
between, because `Stop` and the timer set their flags and broadcast without the
lock. `Broadcast` empties the wait list and `Signal` takes its oldest member. Sends to a
worker's channel are steps outside the lock, as in the code.
`stackWorkerChan` objects are reused through `chanPool`. A worker whose goroutine
has given its channel back is only counted (`leaving`, `finishing`), as it matters
to `running` and `wg` only.

### WPool

`Pool` and `Adaptive`: the task channel as a sequence, `running` and `maxSize`, the workers'
positions, one call per task, and one caller of `Resize`, who is either a user or the monitor
of `Adaptive` (`mode`). The retirement loop is its load, its comparison with `maxSize` and its
CAS, since other workers and `Resize` come in between. `Stop` is its store, its close and its
wait; the `select` of a worker takes a task, the closed `stop` or the timer, whichever is
ready. `late` are the tasks whose send won although `stop` was closed already. `Spec` has no
fairness and is what the proofs are about; `FairSpec` adds it, for the run.

### RingBuffer

One record for the struct and operators for what the operations compute on it: the two-part
copies, the segments, growth. The state also keeps `data`, the bytes put in and not taken out,
and `back`, the byte an `UnreadByte` would bring back, which no operation of the buffer depends
on. Offsets are words modulo `WordMod`. `grow` doubles the capacity until the bytes fit:
`Capacities` are the values doubling reaches, and `Grow` takes the least that fits; a write for
which none does is beyond the model's bound (`Fits`). `ReadFrom` is one turn of its loop per
step, and its reader may return nothing; `WritableSegments`, the caller's filling and
`CommitWrite` are one step. Two uses that the code gets wrong set `astray` and end the behaviour (see
section 5).

### Lru

One mutex per shard: what `get`, `set`, `del`, `purge`, `rangeAll` or one batch of `rangeBatch`
does under it is a step, and the eviction callback and the next shard come after it. What a
walk collects under the lock is a set of keys (`Snapshot`, `Batch`), since the order in which
the caller sees them matters to nothing. `since` (the keys used since a key's own last use),
`stay` (the keys valid since a walk began), `seen` and `again` (the keys a walk has visited, and
has visited twice) are history, for the properties about the order of use and about ranging.

### Wheel

The part of `Add`, `Cancel` and `Advance` under the mutex is one step each; taking and filling
an entry object, clearing it after `Cancel`, and each call of `fn` are steps outside it. The
list of a slot is a sequence; `Only` is what unlinking entries leaves of it, in order. The
pool hands out any free object with what its last user left in it. `left` counts down the
delay an entry was added with, `slack` is a lap for a delay of whole laps (which the code serves
a lap late, section 5), and with `outcome` they are history.

### RateLimit, IPMap

`RateLimit` has the steps of `AllowN` and `Reset`, one per atomic operation, for any number of
limiters. `IPMap` extends it by the map and by the entries' counters, so that a call of `Allow`
is `getOrCreate` followed by `AllowN` of the limiter found. `Find`, `GetOrSet`, `SetNew`,
`Collect` and `Delete` are the critical sections of `smap`. The janitor runs `Evict`, `Purge`
or `TopNRecent`, whose `recentHits` loads three atomics in three steps. `admitted`, `granted`
and `since` record what a limiter gave away and what it was given; `removed` are the limiters
that are not in the map although made, because `Evict` or `Purge` deleted their entry or they
belong to no map. `MaxLimiters` bounds how many are made.

### Art, OrderedMap

A tree is a value, built by operators named after the code's functions: `put`, `SplitLeaf`,
`SplitNode`, `del`, `MergeWithChild`, `grow`, `shrink`, `seek`, `scanPrefix`. A node's `slot`
keeps the one indirection that can go wrong, the slot numbers of a `node48`. The four
variants of each function, one per kind of node, do the same with different arrays and are
one operator here. `call` holds the operation under way with its arguments, until `Return`.
`OrderedMap` is the promise: a map and the number of its entries; a call changes the entry of
its own key, to its own value, and replies the value that key had. Since `call` is part of both
specifications, a tree that lost a `Put` or missed a `Delete` would not implement it.

### Proof modules

`RingProofs` (for `Spsc`, `Wheel` and `RingBuffer`, which index an array by a position modulo its
length and share no state; one part each), `MpscProofs`, `SemaphoreProofs`, `IPMapProofs` (which
covers `RateLimit`), `WPoolStackProofs`, `WPoolProofs` and `LruProofs` hold the theorems,
`SharedLemmas` what several of them need: the slot index `seq & mask` as a modulus (range,
injectivity within a lap, period, uniqueness of the remainder); how a sum changes when one value does; what removing an element or cutting does to a
sequence; the length of a sequence without repetition.

## 4. Runs

| Run | Instance | Result |
|---|---|---|
| `spsc` | ring of 2, two values, 5 pushes (two and a half laps) | all hold |
| `mpsc` | ring of 2, 2 producers, 3 tickets and one more per producer in flight, one function error, one batch error | all hold, including the invariant of the proofs |
| `semaphore` | 3 goroutines, 2 permits, surplus releases | all hold; the waiters' properties up to the first surplus release |
| `stack` | 2 submitters that use all three kinds of call, 2 workers, cleaner, `Stop` | all hold |
| `stack_reclaim` | 2 submitters, 1 worker, cleaner | **violated**: a `Submit` sleeps with no worker alive |
| `wpool` | 2 tasks, sizes 1 to 2, up to 3 workers alive, a queue of 1, 3 resizes, by a user or by the monitor | all hold |
| `sequential` | buffer: capacities 0, 2 and 4, offsets modulo 8, up to 3 bytes per call; tree: 9 nested puts and 7 fanning out below a prefix, kinds of 2, 3 and 5 children | all hold |
| `lru` | 2 callers, 2 shards of 2, 4 keys (three in one shard), expiry after 1 of 2 ticks | all hold |
| `lru_limit` | the same | **violated**: `RangeLimit` skips valid entries |
| `wheel` | 2 callers, 3 entries, 4 slots, delays of 0 to 9 ticks | all hold |
| `wheel_lap` | the same | **violated**: a delay of one lap fires after two |
| `ipmap` | 2 goroutines on one address, or on one limiter with `Reset`; janitor; 4 clock readings, minutes of 2 | all hold |

`sequential` is about the two structures that belong to one goroutine. They share nothing, so a
behaviour of the run is about one of them (`subject`) and leaves the other in its initial state.

The violated properties state what a comment of the library says; `PROJECT.json`
("findings") quotes the line. `CHECK_DEADLOCK FALSE` stands where the system may rightly come
to rest: after `Stop`, when every call a bound allows has been made, or, in `RingBuffer`, in
the `astray` states.

**Bounds.** `MaxSeq` limits how often `Push` and `Enqueue` are called; in both rings the
tickets go past the first lap, so that slots are reused while earlier owners are still busy.
`New` of the MPSC ring builds no ring below 4 slots; the run scales it down to 2 so that the
third ticket is in the second lap, which keeps the errors, the cancelled waits and the
liveness in one run. Nothing in the code depends on the size being 4, and the proofs hold for
every size. `SpinLimit` is 0 instead of 64: with it, `Enqueue` looks at a full ring twice before
it gives up, so both branches are taken. `MaxFinishing` limits the goroutines between
`running.Add(-1)` and `wg.Done`. In `wpool` the queue holds 1 task instead of 4 per worker, so
that it fills; three workers are alive when a resize spawns while retired ones have not left.
In `sequential` the smallest capacity of the buffer is 2 instead of 64 and the word has 3 bits, so that growth, a
full ring and the wrap of the offsets all occur in short sequences. Nine ticks are two laps of
the wheel and one more. In `ipmap`, limiting, eviction and statistics touch different parts of
an entry, so each is explored with the calls that can disturb it (`MCUses`). The tree's
kinds hold 2, 3 and 5 children instead of 4, 16 and 48, so that six keys with one prefix go through all
four; prefixes are up to two bytes long and split at every place, and the seventh key splits the
prefix of a node of any kind, which its deletion joins again. The numbers of goroutines
are the smallest for which two contend and a third party interferes. The proofs of section 6
show that safety does not depend on any of these bounds, except in `Art`.

**Symmetry** permutes goroutines and interchangeable keys or objects, in runs without liveness.

**Fairness.** Weak fairness for each goroutine's steps: the Go scheduler runs every
runnable goroutine. Beyond it: the consumer of the MPSC ring keeps draining and
committing (its contract); whoever holds semaphore permits releases them (`defer
sem.Release()`), and nobody has to release what it does not hold; tasks end; the timer of `SubmitTimeout` fires. In `WPool` a worker that comes back to its
`select` again and again while a task waits, or `stop` is closed, takes one of these cases in
the end (strong fairness), as Go's `select` chooses among ready cases at random; its idle timer
need not fire. Nobody is obliged to call `Push`, `Enqueue` or `Submit`, to cancel a context, to
stay idle, to resize or to call `Stop`. `Semaphore` models blocked receivers as a FIFO queue
and `WPoolStack` the wait list of the condition variable likewise, as the Go runtime does.

## 5. What the models show beside the properties

Behaviours of the code that the models contain and that a user should know of. The three
with a run of their own come first.

- `Stack`: a reclaimed worker leaves without a signal; a `Submit` about to wait for it sleeps
  although a worker could be started (`stack_reclaim`).
- `lru.RangeLimit` visits nothing of a shard unless the key `""` is cached in it, and begins
  behind that key if it is (`lru_limit`).
- `wheel.Add`: an entry whose delay is a whole number of laps fires a lap late (`wheel_lap`);
  `FiresWhenDue` says what holds for every delay.
- `Stack`: `Stop` and the timer of `SubmitTimeout` set their flags and broadcast without
  `s.mu`; when both fall between a caller's test and its `cond.Wait`, the caller sleeps on.
  `WPoolStack` has these steps, but no property covers them: `stack_reclaim` runs without
  `Stop` and timeouts. A `Submit` past its test of `stopped` can
  start a worker after `Stop` has returned.
- `Pool`: a `Submit` that tested `stopped` before `Stop` set it may win its send after the
  workers have drained the queue; it returns true and the task never runs. `StopDrains` and
  `AcceptedRuns` except exactly these tasks (`late`).
- `Adaptive`: `Resize` spawns the difference of two targets, not of the target and `running`,
  so workers beyond `max` can be alive until they next look, and a retirement that races
  `Resize` can leave the pool with fewer workers than `maxSize`.
- `ring.Buffer`: `CommitRead` does not clear `hasUnread` as `Discard` does, although its comment
  (`ring.go:330`) calls the two equivalent; `UnreadByte` after it, or after `CommitWrite`, `WriteTo`, `ReadFrom`
  or `Reset`, restores an offset that no longer fits. `WriteTo` leaves an empty buffer off
  offset 0, where `WritableSegments` hands out the cells from 0 on, not those from `w` on that its
  comment promises (`ring.go:350`). The comment of `UnreadByte` says that it still rolls back after
  `Write`, `WriteByte`, `Read` or `Discard` (`ring.go:121`); each of them clears `hasUnread`
  (`Discard` when it discards anything), so `UnreadByte` returns `io.ErrNoProgress` there.
- `Limiter.Reset` stores the time it read before; if another call has refilled since, the time
  base goes back and the interval is earned twice. `BudgetKept` counts it (`since`).
- `IPMap` without `WithStrictNewIP`: two first calls of an address may spend two buckets.
  `Evict` deletes an address that was used again since it was found stale.
- `Semaphore`: `Acquire` may block with permits left, when its one CAS loses to another
  `Acquire`; and between the two `Add`s of a surplus `Release`, a misuse that panics, another
  goroutine can take a permit that does not exist.

## 6. Proofs

Every theorem is about the specification without fairness and holds for all values of the
constants that satisfy the assumptions. Each inductive invariant stands in the component's
module, next to its properties (that of `Spsc` in `RingProofs`), and was checked with TLC on the
run's instance before it was proved; `mpsc` keeps it among its properties. The proof of
each has one lemma or step per action.

| Module | Assumptions | Proved |
|---|---|---|
| `RingProofs`, part 1 | size at least 2, `Zero` is not a value | `TypeOK`, `NoSlotRace`, `CachedViewsSafe`, `FreeSlotsZeroed`, `LenWithinCap`, `ImplementsFifo` |
| `RingProofs`, part 2 | at least one slot | `FiresOwnValueOnce`, `FiresWhenDue` |
| `RingProofs`, part 3 | capacities are reached by doubling the least and divide the word | `ContentsKept`, `ViewsAgree` |
| `MpscProofs` | size positive | `IndInv`, `TypeOK`, `ReservationBound`, `OneOwnerPerSlot`, `OneSpinnerPerSlot`, `SignalFits`, `FreeSlotsCleared`, `ImplementsGroupCommit` |
| `SemaphoreProofs` | capacity positive, finitely many goroutines | `PermitsConserved`, `WaiterIsCovered` |
| `IPMapProofs` | burst, interval, minute and arguments positive, finitely many goroutines | `BudgetKept`, `OneLimiterPerAddress`, `RecentWithinHits` |
| `WPoolStackProofs` | finitely many submitters and workers | `WorkersCounted`, `OneSenderPerWorker`, `AcceptedTaskKept` |
| `WPoolProofs` | sizes within the number of workers, which is finite; queue length positive | `PoolKeepsWorker`, `StopDrains` |
| `LruProofs` | capacity, batch size and number of shards positive, finitely many keys | `ShardsAgree`, `RangeCovers`, `EvictsLeastRecent` |

The remaining conjuncts of the ASSUMEs say that markers such as `None` are not goroutines,
workers, tasks or limiters. The constructors guarantee the rest: they round sizes up, default or
panic (`rate` above 10^9, which makes the interval 0, is the exception; see section 7).

**SPSC ring.** `TypeOK` and `CachedViewsSafe` are not inductive: that Push writes only into
free room follows from what its check has seen, which is gone from the state by the time it
writes. The invariant `IInv` adds what each position knows (`ProducerInv`, `ConsumerInv`,
`ObserverInv`): a producer about to write has room by its cached head, which is never ahead of
`head`; a consumer about to read has a value by its cached tail. `NoSlotRace` follows since
`head < tail < head + Size` have different slots. `ZeroInv` adds to `FreeSlotsZeroed` that the
slot about to be given back is already zero. `SpscImplementsFifo` shows that each step is a step
of `BoundedFifo`: `PushPublish` appends, `PopPublish` removes the head, and the full and empty
verdicts are taken when the refreshed counter is loaded.

**Timing wheel.** `FiresWhenDue` says nothing of where an entry is, so an induction needs
`IndexInv`: an entry linked in slot `s` has `left + slack = rounds * NSlots + Distance(s)`,
where `Distance` counts the ticks until the cursor is at `s`. A tick lowers the distance of
every slot by one, except that of the slot it arrives at, which becomes a whole lap while the
entries there lose a round or are due. `Add` establishes the equation by the division of its
delay by the number of slots, and a delay of whole laps needs the `slack` there. `FiresOwnValueOnce` rests on
`PlacesInv`: an entry object is in one slot, once, or in the pool, or in the hands of one caller
between the two parts of `Add` or `Cancel`; so what `Cancel` clears, and what `Advance` clears
and reuses, is nobody else's. `AddInv` and `OutcomeInv` say the same of ids: one that is being
added, waits for `fn`, or has fired or been cancelled is in no other place. That filtering
keeps a list's other elements, once each and in their order, is proved by counting positions (`Rank`).

**Byte buffer.** `Holds` says cell by cell what `ContentsKept` says of a copy: the `i`-th byte
not yet read is in the `i`-th cell after `r`, cyclically (`Place`). Every capacity divides the
word, so an offset that wraps at the word is still at the right cell (`CellOfSum`). Reads move
`r` past the first places, writes fill the next ones (`WriteCellsPlace`), and the cells that
`WritableSegments` hands out are those same ones, unless the buffer was left empty off its start
(`WritableAreFree`). `BufferInv` adds the state that `UnreadByte` would produce, which must hold
the byte read in front of the rest: that is what makes it inductive, since the read that empties
the buffer has moved both offsets. Each view is then shown to list the first places in order,
with a case for each way it may cross the end of the array. The search for the next capacity is
no induction: the least member of `Capacities` that fits exists because the natural numbers are
well-founded.

**MPSC ring.** `IndInv` is `RingInv /\ LogInv`. `RingInv` consists of
- `ConsumerInv`: `ci <= ch <= tail <= head + Size`, and the tickets between `ci` and
  `ch` are drained and unsignalled;
- `CasInv`: a ticket that a CAS may yet win lies within one lap of `head`;
- `TicketInv`: no ticket is in two hands;
- `HolderInv`: what each holder knows of the slot of its ticket;
- `SlotInv`: what a slot's state says of the ticket it is filled for, which is never
  more than one lap behind `ch`;
- `OwnedInv`: a slot that is not free has somebody who will free it;
- `FreeSlotsCleared`.

The central step is `DrainItem`: a ready slot at position `ch` is filled for the
ticket `ch` itself, because the ticket of the slot lies in `ch .. ch + Size - 1` and
two tickets of one slot are at least a lap apart. In all other steps two holders
of one slot would have the same ticket, by `HolderInv`, which `TicketInv` excludes.

`LogInv` ties the ring to the log of `GroupCommit`: `ci` and `ch` divide the log into decided,
drained and queued entries (`PhaseInv`), and the slot of an open ticket holds the value and the
verdict of its entry (`SubmitInv`, `EntryInv`). With it `MpscImplementsGroupCommit` maps each
step: the successful CAS submits, `DrainItem` drains, `CommitItem` decides, the end of `Wait` and
of the cleanup goroutine close; everything else stutters.

**Semaphore.** `PermitsConserved` is about a sum over the goroutines. `Sums` defines it
as the cardinality of a set of pairs, so that the theorems about finite sets apply to it.
`WaiterIsCovered` needs `WakeInv`: when all permits are back, no signal is buffered and somebody
waits or is about to, then somebody is about to load, to signal, or to win its CAS. A dropped
signal is harmless because the buffer it did not fit into was not empty. `QueueInv` says that
receivers block only on an empty buffer.

**Limiter and IPMap.** `BudgetInv` says, for each limiter, that what it admitted, what it holds
and what goroutines between the two CAS of a refill have claimed is paid for by grants and by
the time from `since` to `lastNano`. The claim (`Claimed`, a sum over the goroutines) is the
part that no variable shows: it makes the refill's loss of a race, and its cap at the burst,
steps that only give up tokens. `HitsInv` does the same for the statistics: a call that `hits`
has counted is in the previous minute, in the current one, or in flight with a goroutine
(`InFlight`), a rotation's winner carrying the whole minute between its swap and its store; so a
reader between its loads cannot see it twice. `StrictInv`: in strict mode no goroutine is
between a failed look-up and a plain `Set`.

**Stack of workers.** `HoldersInv` says that a worker which waits for a task with an empty
channel is in exactly one place: on the stack, with one submitter, or with the cleaner; and
nobody holds any other worker. `PlacesInv` ties hands to positions. With both, a send cannot
find a full channel, and a worker never leaves with a task behind it. `WorkersCounted` changes
by one on both sides whenever a place is reserved, filled or given up.

**Pool.** `WorkersInv` keeps what the retirement's load has seen: a worker before its CAS saw at
least two, so that a CAS that succeeds leaves one. `TasksInv` places each accepted task in the
channel or with a worker, and says that once every worker has left, the channel holds `late`
tasks only: the last worker leaves by finding it empty, or by retiring, which it cannot as the
last.

**LRU cache.** `ShardInv` says that the list of a shard names the keys of its map, each once,
in the order of use: a key has seen, since its own last use, the use of every key before it in the
list (`Listed`). The victim is last in a full list, so `Capacity` others have been used since, which
is `EvictsLeastRecent`. `CallerInv` says that a `Range` has visited only keys of the
shards below its position, and of those every key that has stayed valid.

**Only model-checked:**
- liveness (`EveryPushPopped`, `CallsReturn`, `BlockedWakesUp`, `AcceptedTaskRuns`, `StopEnds`,
  `WokenWhileFull`, `AcceptedRuns`, `StopReturns`), which is out of the prover's reach together
  with `ENABLED`;
- `Art`: recurses over trees with RECURSIVE operators, which takes the module out of the prover's
  reach, and with it its refinement of `OrderedMap`.

## 7. Not modelled

- `arena`: left for a next step (section 2).
- `bufpool`, `itable`, `topn`, `swar`, `fold`, `hist`, `yakutil`: sequential and pure, a table or
  a few lines each; `hist` computes with floating point and `swar` with whole 64-bit words.
- `hash`, `hll`, `sketch`: their guarantees are statistical.
- `cow`, `percpu`, `coarsetime`: one atomic operation or one CAS loop per change.
- `backoff`: how long a loop sleeps; its callers' loops are modelled as waiting.

Within the modelled packages: `Len`, `Cap`, `Count`, `Running`, `Tokens`, `TopN` and other plain
reads (except `Len` of the SPSC ring); the hash that picks a shard; panics of tasks, which
`safeRun` turns into the end of the task; memory ordering weaker than sequential consistency
(Go's atomics are sequentially consistent); wrap-around of 64-bit counters other than the
offsets of `ring.Buffer`; a rate above 10^9, for which `AllowN` divides by zero; the unlimited
`Stack` (`maxWorkers = 0`), which never waits; its reuse of timeout tokens and the clock of its
cleaner, whose decision which workers have expired is a nondeterministic choice; the arena of
`art`'s prefixes, which `CompactPrefixArena` copies as they are; `smap.Map64`, the same code as
`smap.Map` over integer keys.
