------------------------------- MODULE IPMap --------------------------------
(***************************************************************************)
(* ratelimit.IPMap: one limiter per address, kept in a sharded map of      *)
(* package smap, with counts of the calls of each address.  Goroutines     *)
(* call Allow, AllowN and Get, and the AllowN and Reset of limiters that   *)
(* Get or New returned; a janitor calls Evict, Purge and TopNRecent.  An   *)
(* operation of the map holds its shard's lock and is one step, as is each *)
(* atomic of an entry.                                                     *)
(*                                                                         *)
(* An entry and its limiter are made together and share an identifier.     *)
(* Left out: addresses longer than maxIPKeyLen, which the calls refuse     *)
(* before any effect; the order in which TopNRecent sorts its entries; and *)
(* the wait of a writer of the map while Range reads the shard, which only *)
(* takes interleavings away.                                               *)
(***************************************************************************)
EXTENDS RateLimit, Sequences

CONSTANTS Addrs,      \* addresses
          Needs,      \* arguments of AllowN
          TTL,        \* argument of Evict
          Minute,     \* length of a minute in clock units
          Uses,       \* applications: the calls they make, a bound on their
                      \* number, whether they choose WithStrictNewIP, and how
                      \* many limiters they have made by New themselves
          MaxChores   \* bound on the calls of the janitor

ChoreSteps == {"evict", "purge", "recent", "prev", "cur", "hits"}

ASSUME IPMapAssumption ==
  /\ Minute \in Nat \ {0} /\ Needs \subseteq Nat \ {0}
  /\ None \notin Addrs \cup ChoreSteps
  /\ \A u \in Uses : u.made \in 0 .. MaxLimiters /\ u.max \in Nat

VARIABLES
  m,                 \* the map: an entry for each address, or None
  strict, mix,       \* WithStrictNewIP; the calls the application makes
  lastUsed, hits,    \* the atomics of each entry
  recentMin, recentCount, prevCount,
  addr, op,          \* each goroutine: the address and the call
  used,              \* limiters made so far
  removed,           \* history: limiters not of the map: their entry was taken
                     \* out by Del, or the application made them by New
  chore, rest, found, cutoff,  \* the janitor: its call, the addresses Range has
                     \* still to visit, those it will delete, Evict's cutoff
  ent, min, sum,     \* recentHits: the entry, nowMin and elapsed, its result
  calls, chores      \* calls that may still be made, chores begun

entryVars == <<lastUsed, hits, recentMin, recentCount, prevCount>>
mapVars == <<m, used, removed>>
janitorVars == <<chore, rest, found, cutoff, ent, min, sum, chores>>
limiterVars == <<bucketVars, localVars, pc>>
callVars == <<addr, op, calls>>

vars == <<clock, limiterVars, m, strict, mix, entryVars, addr, op, used, removed,
          janitorVars, calls>>

MinuteOf(t) == t \div Minute

\* No entry is of minute 0, the zero value of recentMin.
Init ==
  /\ clock = Minute
  /\ \E u \in Uses :
       /\ strict = u.strict /\ mix = u.calls /\ calls = u.max /\ used = u.made
       /\ removed = 1 .. u.made
       /\ tokens = [l \in Limiters |-> IF l <= u.made THEN Burst ELSE 0]
       /\ lastNano = [l \in Limiters |-> IF l <= u.made THEN clock ELSE 0]
  /\ admitted = [l \in Limiters |-> 0] /\ granted = tokens /\ since = lastNano
  /\ pc = [p \in Procs |-> "idle"] /\ lim = [p \in Procs |-> None]
  /\ need = [p \in Procs |-> 0] /\ now = [p \in Procs |-> 0]
  /\ last = [p \in Procs |-> 0] /\ cur = [p \in Procs |-> 0]
  /\ m = [a \in Addrs |-> None]
  /\ lastUsed = [l \in Limiters |-> 0] /\ hits = [l \in Limiters |-> 0]
  /\ recentMin = [l \in Limiters |-> 0] /\ recentCount = [l \in Limiters |-> 0]
  /\ prevCount = [l \in Limiters |-> 0]
  /\ addr = [p \in Procs |-> None] /\ op = [p \in Procs |-> None]
  /\ chore = None /\ rest = {} /\ found = {} /\ cutoff = 0
  /\ ent = None /\ min = 0 /\ sum = 0 /\ chores = 0

-----------------------------------------------------------------------------
(* getOrCreate.                                                            *)

\* Allow and AllowN for n tokens, and Get.
CallBegin(p, a, kind, n) ==
  /\ pc[p] = "idle" /\ kind \in mix
  /\ calls > 0
  /\ calls' = calls - 1
  /\ addr' = [addr EXCEPT ![p] = a]
  /\ op' = [op EXCEPT ![p] = kind]
  /\ need' = [need EXCEPT ![p] = n]
  /\ now' = [now EXCEPT ![p] = clock]
  /\ Goto(p, "find")
  /\ UNCHANGED <<bucketVars, lim, last, cur, mapVars, entryVars>>

\* AllowN(n) or Reset of a limiter that Get or New returned earlier.
LimiterBegin(p, l, step, n) ==
  /\ pc[p] = "idle" /\ "limiter" \in mix
  /\ calls > 0
  /\ calls' = calls - 1
  /\ lim' = [lim EXCEPT ![p] = l]
  /\ need' = [need EXCEPT ![p] = n]
  /\ Goto(p, step)
  /\ UNCHANGED <<bucketVars, now, last, cur, mapVars, entryVars, addr, op>>

\* smap.Get, or the check of GetOrSet under the read lock.
Find(p) ==
  /\ pc[p] = "find"
  /\ LET e == m[addr[p]] IN
     IF e # None
     THEN /\ lim' = [lim EXCEPT ![p] = e]
          /\ Goto(p, "stamp")
     ELSE /\ Goto(p, IF strict THEN "lock" ELSE "set")
          /\ UNCHANGED lim
  /\ UNCHANGED <<bucketVars, need, now, last, cur, mapVars, entryVars, callVars>>

\* A new entry with a new limiter, stored under the address.
Create(p) ==
  LET e == used + 1 IN
  /\ e \in Limiters
  /\ used' = e
  /\ New(e)
  /\ lastUsed' = [lastUsed EXCEPT ![e] = now[p]]
  /\ m' = [m EXCEPT ![addr[p]] = e]
  /\ lim' = [lim EXCEPT ![p] = e]
  /\ UNCHANGED <<hits, recentMin, recentCount, prevCount, removed>>

\* A bug the code avoids: no second check under the write lock.
SetUnchecked(p) ==
  /\ pc[p] = "lock"
  /\ Create(p)
  /\ Goto(p, "stamp")
  /\ UNCHANGED <<need, now, last, cur, callVars>>

\* The slow path of GetOrSet: under the write lock the address is looked up
\* again before the entry is made.
GetOrSet(p) ==
  /\ pc[p] = "lock"
  /\ LET e == m[addr[p]] IN
     IF e # None
     THEN /\ lim' = [lim EXCEPT ![p] = e]
          /\ UNCHANGED <<bucketVars, mapVars, entryVars>>
     ELSE Create(p)
  /\ Goto(p, "stamp")
  /\ UNCHANGED <<need, now, last, cur, callVars>>

\* The default mode's slow path: a new entry replaces whatever is there ...
SetNew(p) ==
  /\ pc[p] = "set"
  /\ Create(p)
  /\ Goto(p, "again")
  /\ UNCHANGED <<need, now, last, cur, callVars>>

\* ... and the entry found by a second Get is used, if there is one.
GetAgain(p) ==
  /\ pc[p] = "again"
  /\ LET e == m[addr[p]] IN
       lim' = [lim EXCEPT ![p] = IF e # None THEN e ELSE @]
  /\ Goto(p, "count")
  /\ UNCHANGED <<bucketVars, need, now, last, cur, mapVars, entryVars, callVars>>

Stamp(p) ==
  /\ pc[p] = "stamp"
  /\ lastUsed' = [lastUsed EXCEPT ![lim[p]] = now[p]]
  /\ Goto(p, "count")
  /\ UNCHANGED <<bucketVars, localVars, mapVars, callVars, hits, recentMin,
                 recentCount, prevCount>>

\* hits.Add and addRecentAt's load of recentMin.  They are one step: until
\* the load nothing depends on the count but a reader's load of hits.
Count(p) ==
  /\ pc[p] = "count"
  /\ LET e == lim[p] IN
       /\ hits' = [hits EXCEPT ![e] = @ + 1]
       /\ last' = [last EXCEPT ![p] = recentMin[e]]
       /\ Goto(p, IF MinuteOf(now[p]) # recentMin[e] THEN "rotate" ELSE "add")
  /\ UNCHANGED <<bucketVars, lim, need, now, cur, mapVars, callVars, lastUsed,
                 recentMin, recentCount, prevCount>>

\* The CAS on recentMin; its winner rotates the two counts.
WinRotation(p) ==
  /\ pc[p] = "rotate"
  /\ LET e == lim[p] IN
     IF recentMin[e] = last[p]
     THEN /\ recentMin' = [recentMin EXCEPT ![e] = MinuteOf(now[p])]
          /\ Goto(p, "swap")
     ELSE /\ Goto(p, "add")
          /\ UNCHANGED recentMin
  /\ UNCHANGED <<bucketVars, localVars, mapVars, callVars, lastUsed, hits,
                 recentCount, prevCount>>

\* A bug the code avoids: a load in place of the swap, which leaves the count
\* in both places.
CopyCount(p) ==
  /\ pc[p] = "swap"
  /\ cur' = [cur EXCEPT ![p] = recentCount[lim[p]]]
  /\ Goto(p, "prev")
  /\ UNCHANGED <<bucketVars, lim, need, now, last, mapVars, callVars, entryVars>>

SwapCount(p) ==
  /\ pc[p] = "swap"
  /\ cur' = [cur EXCEPT ![p] = recentCount[lim[p]]]
  /\ recentCount' = [recentCount EXCEPT ![lim[p]] = 0]
  /\ Goto(p, "prev")
  /\ UNCHANGED <<bucketVars, lim, need, now, last, mapVars, callVars, lastUsed,
                 hits, recentMin, prevCount>>

StorePrev(p) ==
  /\ pc[p] = "prev"
  /\ prevCount' = [prevCount EXCEPT ![lim[p]] = cur[p]]
  /\ Goto(p, "add")
  /\ UNCHANGED <<bucketVars, localVars, mapVars, callVars, lastUsed, hits,
                 recentMin, recentCount>>

\* recentCount.Add ends getOrCreate; Get returns, Allow goes on with the
\* limiter.
AddRecent(p) ==
  /\ pc[p] = "add"
  /\ recentCount' = [recentCount EXCEPT ![lim[p]] = @ + 1]
  /\ IF op[p] = "get"
     THEN Return(p)
     ELSE /\ Goto(p, op[p])
          /\ last' = [last EXCEPT ![p] = 0] /\ cur' = [cur EXCEPT ![p] = 0]
          /\ UNCHANGED <<lim, need, now>>
  /\ addr' = [addr EXCEPT ![p] = None] /\ op' = [op EXCEPT ![p] = None]
  /\ UNCHANGED <<bucketVars, mapVars, calls, lastUsed, hits, recentMin,
                 prevCount>>

GetOrCreate(p) ==
  \/ Find(p) \/ GetOrSet(p) \/ SetNew(p) \/ GetAgain(p) \/ Stamp(p) \/ Count(p)
  \/ WinRotation(p) \/ SwapCount(p) \/ StorePrev(p) \/ AddRecent(p)

-----------------------------------------------------------------------------
(* The janitor.  Range visits the addresses of the map in any order.       *)

ChoreBegin(what) ==
  /\ chore = None /\ what \in mix
  /\ chores < MaxChores
  /\ chores' = chores + 1
  /\ chore' = what
  /\ rest' = Addrs
  /\ cutoff' = clock - TTL
  /\ min' = clock
  /\ UNCHANGED <<found, ent, sum>>

\* Evict collects the addresses not used since cutoff, Purge all of them.
Collect(a) ==
  /\ chore \in {"evict", "purge"}
  /\ a \in rest
  /\ rest' = rest \ {a}
  /\ found' = IF m[a] # None /\ (chore = "purge" \/ lastUsed[m[a]] < cutoff)
              THEN found \cup {a} ELSE found
  /\ UNCHANGED <<mapVars, chore, cutoff, ent, min, sum, chores>>

\* smap.Del of a collected address, whatever entry it has by now.
Delete(a) ==
  /\ chore \in {"evict", "purge"}
  /\ rest = {} /\ a \in found
  /\ found' = found \ {a}
  /\ m' = [m EXCEPT ![a] = None]
  /\ removed' = removed \cup ({m[a]} \ {None})
  /\ UNCHANGED <<used, chore, rest, cutoff, ent, min, sum, chores>>

\* TopNRecent calls recentHits on each entry: it loads recentMin, ...
ReadMin(a) ==
  /\ chore = "recent" /\ ent = None
  /\ a \in rest
  /\ rest' = rest \ {a}
  /\ IF m[a] = None
     THEN UNCHANGED <<chore, ent, min>>
     ELSE /\ ent' = m[a]
          /\ chore' = IF recentMin[m[a]] = MinuteOf(clock) THEN "prev" ELSE "cur"
          /\ min' = clock
  /\ sum' = 0
  /\ UNCHANGED <<mapVars, found, cutoff, chores>>

\* ... prevCount, weighted by what is left of the minute, ...
ReadPrev ==
  /\ chore = "prev"
  /\ sum' = (prevCount[ent] * (Minute - (min % Minute))) \div Minute
  /\ chore' = "cur"
  /\ UNCHANGED <<mapVars, rest, found, cutoff, ent, min, chores>>

\* ... and recentCount.
ReadCur ==
  /\ chore = "cur"
  /\ sum' = sum + recentCount[ent]
  /\ chore' = "hits"
  /\ UNCHANGED <<mapVars, rest, found, cutoff, ent, min, chores>>

\* TopNRecent then loads hits and goes on to the next entry.
ReadHits ==
  /\ chore = "hits"
  /\ chore' = "recent" /\ ent' = None /\ sum' = 0
  /\ UNCHANGED <<mapVars, rest, found, cutoff, min, chores>>

ChoreEnd ==
  /\ chore \in {"evict", "purge", "recent"}
  /\ rest = {} /\ found = {}
  /\ chore' = None /\ cutoff' = 0 /\ min' = 0
  /\ UNCHANGED <<mapVars, rest, found, ent, sum, chores>>

Janitor ==
  \/ \E what \in {"evict", "purge", "recent"} : ChoreBegin(what) /\ UNCHANGED mapVars
  \/ \E a \in Addrs : Collect(a) \/ Delete(a) \/ ReadMin(a)
  \/ ReadPrev \/ ReadCur \/ ReadHits \/ ChoreEnd

-----------------------------------------------------------------------------
Tick == /\ clock < MaxClock
        /\ clock' = clock + 1
        /\ UNCHANGED <<limiterVars, mapVars, entryVars, callVars, janitorVars>>

Call(p) ==
  \/ \E a \in Addrs, n \in Needs : CallBegin(p, a, "allow", n)
  \/ \E a \in Addrs : CallBegin(p, a, "get", 0)
  \/ \E l \in 1 .. used, n \in Needs : LimiterBegin(p, l, "allow", n)
  \/ \E l \in 1 .. used : LimiterBegin(p, l, "reset", 0)
  \/ GetOrCreate(p)
  \/ (AllowN(p) \/ ResetLimiter(p)) /\ UNCHANGED <<mapVars, entryVars, callVars>>

Next ==
  /\ \/ Tick
     \/ \E p \in Procs : Call(p) /\ UNCHANGED <<clock, janitorVars>>
     \/ Janitor /\ UNCHANGED <<clock, limiterVars, entryVars, callVars>>
  /\ UNCHANGED <<strict, mix>>

Spec == Init /\ [][Next]_vars

-----------------------------------------------------------------------------
(***************************************************************************)
(* OneLimiterPerAddress.  With WithStrictNewIP a goroutine holds a limiter *)
(* other than its address's own only when Evict or Purge deleted it: two   *)
(* first calls of an address never spend two buckets.                      *)
(***************************************************************************)
OneLimiterPerAddress ==
  strict => \A l \in 1 .. used : l \in removed \/ \E a \in Addrs : m[a] = l

(***************************************************************************)
(* RecentWithinHits.  TopNRecent never reports more recent calls than      *)
(* calls: no call is counted both in this minute and in the last one,      *)
(* whatever rotations, some of them with an old clock reading, run between *)
(* its loads.                                                              *)
(***************************************************************************)
RecentWithinHits == chore = "hits" => sum <= hits[ent]

-----------------------------------------------------------------------------
(***************************************************************************)
(* The inductive invariant.                                                *)
(***************************************************************************)
AllowSteps == {"allow", "last", "tokens", "claim", "refill", "refillcas",
               "reload", "deduct"}
ResetSteps == {"reset", "resetlast", "resettokens"}
EntrySteps == {"find", "lock", "set", "again", "stamp", "count", "rotate",
               "swap", "prev", "add"}
LimiterSteps == AllowSteps \cup ResetSteps \cup
                (EntrySteps \ {"find", "lock", "set"})

LimiterTypes ==
  /\ clock \in Nat
  /\ tokens \in [Limiters -> Int] /\ lastNano \in [Limiters -> Int]
  /\ admitted \in [Limiters -> Int] /\ granted \in [Limiters -> Int]
  /\ since \in [Limiters -> Int]
  /\ now \in [Procs -> Int] /\ last \in [Procs -> Int]
  /\ cur \in [Procs -> Nat] /\ need \in [Procs -> Nat]

EntryTypes ==
  /\ hits \in [Limiters -> Nat] /\ recentMin \in [Limiters -> Int]
  /\ recentCount \in [Limiters -> Nat] /\ prevCount \in [Limiters -> Nat]
  /\ min \in Nat /\ sum \in Nat

\* Entries are made in order, and every identifier in use is one of them.
IdTypes ==
  /\ used \in 0 .. MaxLimiters
  /\ pc \in [Procs -> {"idle"} \cup AllowSteps \cup ResetSteps \cup EntrySteps]
  /\ lim \in [Procs -> 1 .. used \cup {None}]
  /\ m \in [Addrs -> 1 .. used \cup {None}]
  /\ addr \in [Procs -> Addrs \cup {None}]
  /\ op \in [Procs -> {"allow", "get", None}]
  /\ ent \in 1 .. used \cup {None}

\* The locals a goroutine or the janitor uses are set.
HolderInv ==
  /\ \A p \in Procs :
       /\ pc[p] \in LimiterSteps => lim[p] \in 1 .. used
       /\ pc[p] \in EntrySteps => addr[p] \in Addrs /\ op[p] \in {"allow", "get"}
  /\ chore \in {"prev", "cur", "hits"} => ent \in 1 .. used

\* In strict mode nobody is between a look-up that failed and a plain Set.
StrictInv == strict => \A p \in Procs : pc[p] \notin {"set", "again"}

\* Calls of an entry that hits has counted and recentCount has not, and the
\* count that the winner of a rotation holds between its swap and its store.
FlightOf(e, p) ==
  CASE lim[p] = e /\ pc[p] = "prev" -> cur[p] + 1
    [] lim[p] = e /\ pc[p] \in {"rotate", "swap", "add"} -> 1
    [] OTHER -> 0

InFlight(e) == SumOf([p \in Procs |-> FlightOf(e, p)])

\* A call is in one place at a time: previous minute, current one, in flight.
HitsInv ==
  /\ \A e \in Limiters :
       prevCount[e] + recentCount[e] + InFlight(e) <= hits[e]
  /\ chore = "cur" => sum + recentCount[ent] + InFlight(ent) <= hits[ent]

IndInv == /\ LimiterTypes /\ EntryTypes /\ IdTypes /\ HolderInv
          /\ BudgetInv
          /\ StrictInv /\ OneLimiterPerAddress
          /\ HitsInv /\ RecentWithinHits
=============================================================================
