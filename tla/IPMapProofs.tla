---------------------------- MODULE IPMapProofs -----------------------------
(***************************************************************************)
(* Proofs about ratelimit.Limiter and ratelimit.IPMap for every set of     *)
(* addresses, finite set of goroutines, burst, interval and length of a    *)
(* minute: no limiter exceeds its budget, strict mode never gives an       *)
(* address two limiters, and no call is counted twice among the recent.    *)
(***************************************************************************)
EXTENDS IPMap, SharedLemmas

-----------------------------------------------------------------------------
(* Arithmetic                                                              *)

\* Products with the interval distribute over sums and keep the order.
LEMMA ScaleSum ==
    ASSUME NEW I \in Nat \ {0}, NEW a \in Int, NEW b \in Int
    PROVE  /\ a * I \in Int /\ (a + b) * I = a * I + b * I
           /\ (a - b) * I = a * I - b * I
           /\ a <= b => a * I <= b * I
  <1>1. a * I \in Int /\ (a + b) * I = a * I + b * I
    BY Z3
  <1>2. (a - b) * I = a * I - b * I
    BY Z3
  <1>3. a <= b => a * I <= b * I
    BY Z3
  <1> QED BY <1>1, <1>2, <1>3

\* A quotient, multiplied again, is at most the dividend.
LEMMA QuotientTimes ==
    ASSUME NEW I \in Nat \ {0}, NEW d \in Nat
    PROVE  d \div I \in Nat /\ (d \div I) * I <= d
  <1>1. d = I * (d \div I) + (d % I) /\ d % I \in 0..I-1 /\ d \div I \in Int
    BY Z3
  <1>2. d \div I >= 0
    BY <1>1, Z3
  <1> QED BY <1>1, <1>2, Z3

\* A multiple of the interval that fits in a time fits in its quotient.
LEMMA QuotientBound ==
    ASSUME NEW I \in Nat \ {0}, NEW x \in Int, NEW d \in Int, x * I <= d
    PROVE  x <= d \div I
  <1>1. d = I * (d \div I) + (d % I) /\ d % I \in 0..I-1 /\ d \div I \in Int
    BY Z3
  <1> DEFINE q == d \div I
  <1>2. q \in Int /\ d < I * q + I
    BY <1>1
  <1> HIDE DEF q
  <1>3. x >= q + 1 => x * I >= I * q + I
    BY <1>2, Z3
  <1>4. x * I \in Int /\ I * q + I \in Int
    BY <1>2, Z3
  <1>5. ~(x >= q + 1)
    BY <1>2, <1>3, <1>4
  <1> QED BY <1>2, <1>5 DEF q

\* The share of the previous minute's count is at most the count.
LEMMA ShareBound ==
    ASSUME NEW M \in Nat \ {0}, NEW c \in Nat, NEW t \in Nat
    PROVE  /\ (c * (M - (t % M))) \div M \in Nat
           /\ (c * (M - (t % M))) \div M <= c
  <1>1. t % M \in 0..M-1
    BY Z3
  <1> DEFINE w == M - (t % M)
  <1>2. w \in Nat /\ w <= M
    BY <1>1
  <1> HIDE DEF w
  <1>3. c * w \in Nat /\ c * w <= c * M
    BY <1>2, Z3
  <1>4. (c * w) \div M \in Nat /\ ((c * w) \div M) * M <= c * w
    BY <1>3, QuotientTimes
  <1> DEFINE d == (c * w) \div M
  <1>5. d \in Nat /\ d * M <= c * M
    <2>1. d * M \in Int /\ c * M \in Int /\ c * w \in Int
      BY <1>3, <1>4, Z3
    <2> QED BY <1>3, <1>4, <2>1
  <1> HIDE DEF d
  <1>6. d >= c + 1 => d * M >= c * M + M
    BY <1>5, Z3
  <1>7. d <= c
    <2>1. d * M \in Int /\ c * M \in Int
      BY <1>5, Z3
    <2> QED BY <1>5, <1>6, <2>1
  <1> QED BY <1>5, <1>7 DEF d, w

\* The tokens that a clock reading earns, and the time they stand for.
LEMMA AddBound ==
    ASSUME LimiterTypes, NEW p \in Procs
    PROVE  /\ Add(p) \in Nat
           /\ Add(p) > 0 => Add(p) * Interval <= now[p] - last[p]
  <1>1. now[p] \in Int /\ last[p] \in Int /\ Interval \in Nat \ {0}
    BY BucketAssumption DEF LimiterTypes
  <1>2. CASE now[p] > last[p]
    <2>1. now[p] - last[p] \in Nat /\ Add(p) = (now[p] - last[p]) \div Interval
      BY <1>1, <1>2 DEF Add
    <2> QED BY <1>1, <2>1, QuotientTimes
  <1>3. CASE ~(now[p] > last[p])
    <2>1. Add(p) = 0 \div Interval
      BY <1>3 DEF Add
    <2>2. 0 \div Interval = 0
      BY <1>1, Z3
    <2> QED BY <2>1, <2>2
  <1> QED BY <1>2, <1>3

-----------------------------------------------------------------------------
(* Claimed refills and calls in flight                                     *)

LEMMA ClaimType ==
    ASSUME LimiterTypes, NEW l
    PROVE  /\ \A q \in Procs : ClaimOf(l, q) \in Nat
           /\ [q \in Procs |-> ClaimOf(l, q)] \in [Procs -> Nat]
           /\ Claimed(l) \in Nat
  <1>1. \A q \in Procs : ClaimOf(l, q) \in Nat
    BY AddBound DEF ClaimOf
  <1>2. [q \in Procs |-> ClaimOf(l, q)] \in [Procs -> Nat]
    BY <1>1
  <1> QED BY <1>1, <1>2, SumType, LimiterAssumption DEF Claimed

\* Steps that change no goroutine's claim, and steps that change one.
LEMMA ClaimedKept ==
    ASSUME NEW l, \A q \in Procs : ClaimOf(l, q)' = ClaimOf(l, q)
    PROVE  Claimed(l)' = Claimed(l)
  <1>1. [q \in Procs |-> ClaimOf(l, q)]' = [q \in Procs |-> ClaimOf(l, q)]
    OBVIOUS
  <1> QED BY <1>1 DEF Claimed

LEMMA ClaimedChanged ==
    ASSUME LimiterTypes, NEW l, NEW p \in Procs, ClaimOf(l, p)' \in Nat,
           \A q \in Procs \ {p} : ClaimOf(l, q)' = ClaimOf(l, q)
    PROVE  /\ Claimed(l)' = Claimed(l) - ClaimOf(l, p) + ClaimOf(l, p)'
           /\ ClaimOf(l, p) <= Claimed(l)
  <1> DEFINE f == [q \in Procs |-> ClaimOf(l, q)]
             v == ClaimOf(l, p)'
  <1>1. f \in [Procs -> Nat] /\ f[p] = ClaimOf(l, p)
    BY ClaimType
  <1>2. [q \in Procs |-> ClaimOf(l, q)]' = [f EXCEPT ![p] = v]
    OBVIOUS
  <1>3. Claimed(l) = SumOf(f)
    BY DEF Claimed
  <1>4. Claimed(l)' = SumOf([f EXCEPT ![p] = v])
    BY <1>2 DEF Claimed
  <1>5. v \in Nat /\ IsFiniteSet(Procs)
    BY LimiterAssumption
  <1> HIDE DEF f, v
  <1>6. SumOf([f EXCEPT ![p] = v]) = SumOf(f) - f[p] + v /\ f[p] <= SumOf(f)
    BY <1>1, <1>5, SumUpdate
  <1> QED BY <1>1, <1>3, <1>4, <1>6 DEF v

LEMMA FlightType ==
    ASSUME LimiterTypes, NEW e
    PROVE  /\ \A q \in Procs : FlightOf(e, q) \in Nat
           /\ [q \in Procs |-> FlightOf(e, q)] \in [Procs -> Nat]
           /\ InFlight(e) \in Nat
  <1>1. \A q \in Procs : FlightOf(e, q) \in Nat
    BY DEF FlightOf, LimiterTypes
  <1>2. [q \in Procs |-> FlightOf(e, q)] \in [Procs -> Nat]
    BY <1>1
  <1> QED BY <1>1, <1>2, SumType, LimiterAssumption DEF InFlight

LEMMA FlightKept ==
    ASSUME NEW e, \A q \in Procs : FlightOf(e, q)' = FlightOf(e, q)
    PROVE  InFlight(e)' = InFlight(e)
  <1>1. [q \in Procs |-> FlightOf(e, q)]' = [q \in Procs |-> FlightOf(e, q)]
    OBVIOUS
  <1> QED BY <1>1 DEF InFlight

LEMMA FlightChanged ==
    ASSUME LimiterTypes, NEW e, NEW p \in Procs, FlightOf(e, p)' \in Nat,
           \A q \in Procs \ {p} : FlightOf(e, q)' = FlightOf(e, q)
    PROVE  /\ InFlight(e)' = InFlight(e) - FlightOf(e, p) + FlightOf(e, p)'
           /\ FlightOf(e, p) <= InFlight(e)
  <1> DEFINE f == [q \in Procs |-> FlightOf(e, q)]
             v == FlightOf(e, p)'
  <1>1. f \in [Procs -> Nat] /\ f[p] = FlightOf(e, p)
    BY FlightType
  <1>2. [q \in Procs |-> FlightOf(e, q)]' = [f EXCEPT ![p] = v]
    OBVIOUS
  <1>3. InFlight(e) = SumOf(f)
    BY DEF InFlight
  <1>4. InFlight(e)' = SumOf([f EXCEPT ![p] = v])
    BY <1>2 DEF InFlight
  <1>5. v \in Nat /\ IsFiniteSet(Procs)
    BY LimiterAssumption
  <1> HIDE DEF f, v
  <1>6. SumOf([f EXCEPT ![p] = v]) = SumOf(f) - f[p] + v /\ f[p] <= SumOf(f)
    BY <1>1, <1>5, SumUpdate
  <1> QED BY <1>1, <1>3, <1>4, <1>6 DEF v

-----------------------------------------------------------------------------
(* What most steps leave alone                                             *)

\* Steps that touch no bucket, no clock and no claim.
LEMMA BudgetUntouched ==
    ASSUME BudgetInv, UNCHANGED <<bucketVars, clock>>,
           \A q \in Procs : now'[q] <= clock,
           \A q \in Procs : \A l \in Limiters : ClaimOf(l, q)' = ClaimOf(l, q)
    PROVE  BudgetInv'
  <1>1. \A l \in Limiters : Claimed(l)' = Claimed(l)
    BY ClaimedKept
  <1> QED BY <1>1 DEF BudgetInv, bucketVars

\* Steps that count no call and move none, and leave the janitor alone.
LEMMA CountsUntouched ==
    ASSUME HitsInv, RecentWithinHits, UNCHANGED <<hits, recentCount, prevCount>>,
           UNCHANGED <<chore, ent, sum>>, ent \in Limiters \/ chore # "cur",
           \A q \in Procs : \A e \in Limiters : FlightOf(e, q)' = FlightOf(e, q)
    PROVE  HitsInv' /\ RecentWithinHits'
  <1>1. \A e \in Limiters : InFlight(e)' = InFlight(e)
    BY FlightKept
  <1>2. chore = "cur" => InFlight(ent)' = InFlight(ent)
    BY <1>1
  <1> QED BY <1>1, <1>2 DEF HitsInv, RecentWithinHits

-----------------------------------------------------------------------------
(* The initial states                                                      *)

LEMMA InitIndInv == Init => IndInv
  <1> SUFFICES ASSUME Init PROVE IndInv
    OBVIOUS
  <1> PICK u \in Uses :
        /\ strict = u.strict /\ used = u.made /\ removed = 1 .. u.made
        /\ tokens = [l \in Limiters |-> IF l <= u.made THEN Burst ELSE 0]
        /\ lastNano = [l \in Limiters |-> IF l <= u.made THEN clock ELSE 0]
    BY DEF Init
  <1>1. /\ clock = Minute /\ clock \in Nat /\ clock > 0
        /\ u.made \in 0 .. MaxLimiters
    BY IPMapAssumption DEF Init
  <1>2. LimiterTypes
    BY <1>1, BucketAssumption DEF Init, LimiterTypes
  <1>3. EntryTypes
    BY DEF Init, EntryTypes
  <1>4. IdTypes
    BY <1>1 DEF Init, IdTypes
  <1>5. HolderInv
    <2>1. \A p \in Procs : pc[p] = "idle"
      BY DEF Init
    <2>2. "idle" \notin LimiterSteps \cup EntrySteps
      BY DEF LimiterSteps, AllowSteps, ResetSteps, EntrySteps
    <2>3. chore \notin {"prev", "cur", "hits"}
      BY IPMapAssumption DEF Init, ChoreSteps
    <2> QED BY <2>1, <2>2, <2>3 DEF HolderInv
  <1>6. BudgetInv
    <2>1. ASSUME NEW l \in Limiters
          PROVE  Claimed(l) = 0
      <3>1. \A q \in Procs : [p \in Procs |-> ClaimOf(l, p)][q] = 0
        BY DEF ClaimOf, Init
      <3> QED BY <1>2, <3>1, ClaimType, SumZero, LimiterAssumption DEF Claimed
    <2>2. ASSUME NEW l \in Limiters
          PROVE  (admitted[l] + tokens[l] + Claimed(l) - granted[l]) * Interval
                    <= lastNano[l] - since[l]
      <3>1. /\ admitted[l] = 0 /\ granted[l] = tokens[l] /\ tokens[l] \in Int
            /\ since[l] = lastNano[l] /\ lastNano[l] \in Int
        BY <1>2 DEF Init, LimiterTypes
      <3>2. admitted[l] + tokens[l] + Claimed(l) - granted[l] = 0
        BY <2>1, <3>1
      <3>3. 0 * Interval = 0
        BY BucketAssumption
      <3> QED BY <3>1, <3>2, <3>3
    <2>3. ASSUME NEW l \in Limiters
          PROVE  tokens[l] \in 0 .. Burst /\ lastNano[l] <= clock
      BY <1>1, BucketAssumption
    <2>4. \A p \in Procs : now[p] <= clock
      BY <1>1 DEF Init
    <2> QED BY <2>2, <2>3, <2>4 DEF BudgetInv
  <1>7. StrictInv /\ OneLimiterPerAddress
    BY DEF Init, StrictInv, OneLimiterPerAddress
  <1>8. HitsInv /\ RecentWithinHits
    <2>1. ASSUME NEW e \in Limiters
          PROVE  InFlight(e) = 0
      <3>1. \A q \in Procs : [p \in Procs |-> FlightOf(e, p)][q] = 0
        BY DEF FlightOf, Init
      <3> QED BY <1>2, <3>1, FlightType, SumZero, LimiterAssumption DEF InFlight
    <2>2. chore # "cur" /\ chore # "hits"
      BY IPMapAssumption DEF Init, ChoreSteps
    <2> QED BY <2>1, <2>2 DEF Init, HitsInv, RecentWithinHits
  <1> QED BY <1>2, <1>3, <1>4, <1>5, <1>6, <1>7, <1>8 DEF IndInv

-----------------------------------------------------------------------------
(* Steps of AllowN and Reset                                               *)

\* What such a step does to a goroutine's place: it returns or stays in the
\* operation with its limiter.
LimiterMove(p) ==
  /\ pc[p] \in AllowSteps \cup ResetSteps
  /\ \E x \in AllowSteps \cup ResetSteps \cup {"idle"} :
       /\ pc' = [pc EXCEPT ![p] = x]
       /\ lim' = IF x = "idle" THEN [lim EXCEPT ![p] = None] ELSE lim
  /\ \A q \in Procs \ {p} : cur'[q] = cur[q]

LEMMA LimiterMoveKeeps ==
    ASSUME IndInv, NEW p \in Procs, LimiterMove(p),
           UNCHANGED <<strict, mapVars, entryVars, callVars, janitorVars>>
    PROVE  /\ EntryTypes' /\ IdTypes' /\ HolderInv' /\ StrictInv'
           /\ OneLimiterPerAddress' /\ HitsInv' /\ RecentWithinHits'
  <1> PICK x \in AllowSteps \cup ResetSteps \cup {"idle"} :
        /\ pc' = [pc EXCEPT ![p] = x]
        /\ lim' = IF x = "idle" THEN [lim EXCEPT ![p] = None] ELSE lim
    BY DEF LimiterMove
  <1> USE DEF IndInv, mapVars, entryVars, callVars, janitorVars
  <1>1. pc[p] \notin EntrySteps /\ x \notin EntrySteps
    BY DEF LimiterMove, AllowSteps, ResetSteps, EntrySteps
  <1>2. EntryTypes'
    BY DEF EntryTypes
  <1>3. IdTypes'
    BY DEF IdTypes
  <1>4. HolderInv'
    <2>1. "idle" \notin LimiterSteps \cup EntrySteps
      BY DEF LimiterSteps, AllowSteps, ResetSteps, EntrySteps
    <2>2. pc[p] \in LimiterSteps
      BY DEF LimiterMove, LimiterSteps
    <2> QED BY <1>1, <2>1, <2>2 DEF HolderInv, IdTypes
  <1>5. StrictInv'
    <2>1. x \notin {"set", "again"}
      BY <1>1 DEF EntrySteps
    <2> QED BY <2>1 DEF StrictInv, IdTypes
  <1>6. OneLimiterPerAddress'
    BY DEF OneLimiterPerAddress
  <1>7. HitsInv' /\ RecentWithinHits'
    <2>1. ASSUME NEW q \in Procs, NEW e \in Limiters
          PROVE  FlightOf(e, q)' = FlightOf(e, q)
      <3>1. CASE q = p
        <4>1. x \notin {"prev", "rotate", "swap", "add"}
                /\ pc[p] \notin {"prev", "rotate", "swap", "add"}
          BY <1>1 DEF EntrySteps
        <4>2. pc'[p] = x
          BY DEF IdTypes
        <4> QED BY <3>1, <4>1, <4>2 DEF FlightOf
      <3>2. CASE q # p
        <4>1. pc'[q] = pc[q] /\ lim'[q] = lim[q] /\ cur'[q] = cur[q]
          BY <3>2 DEF LimiterMove, IdTypes
        <4> QED BY <4>1 DEF FlightOf
      <3> QED BY <3>1, <3>2
    <2>2. ent \in Limiters \/ chore # "cur"
      BY LimiterAssumption DEF HolderInv, IdTypes, Limiters
    <2> QED BY <2>1, <2>2, CountsUntouched
  <1> QED BY <1>2, <1>3, <1>4, <1>5, <1>6, <1>7

-----------------------------------------------------------------------------
(* One lemma per step                                                      *)

\* A goroutine in these operations has a limiter.
LEMMA LimiterHeld ==
    ASSUME IdTypes, HolderInv, NEW p \in Procs, pc[p] \in AllowSteps \cup ResetSteps
    PROVE  lim[p] \in Limiters
  <1>1. lim[p] \in 1 .. used /\ used \in 0 .. MaxLimiters
    BY DEF IdTypes, HolderInv, LimiterSteps
  <1> QED BY <1>1, LimiterAssumption DEF Limiters

\* Steps that only load: no bucket changes, no claim appears or goes.
LEMMA LoadKeepsBudget ==
    ASSUME LimiterTypes, IdTypes, BudgetInv, NEW p \in Procs, LimiterMove(p),
           UNCHANGED <<bucketVars, clock>>,
           \A q \in Procs \ {p} : now'[q] = now[q] /\ last'[q] = last[q],
           now'[p] <= clock,
           \/ /\ pc[p] \notin {"refill", "refillcas"}
              /\ pc'[p] \notin {"refill", "refillcas"}
           \/ /\ pc[p] \in {"refill", "refillcas"}
              /\ pc'[p] \in {"refill", "refillcas"}
              /\ lim'[p] = lim[p] /\ now'[p] = now[p] /\ last'[p] = last[p]
    PROVE  BudgetInv'
  <1>1. ASSUME NEW q \in Procs, NEW l \in Limiters
        PROVE  ClaimOf(l, q)' = ClaimOf(l, q)
    <2>1. CASE q = p
      BY <2>1 DEF ClaimOf, Add
    <2>2. CASE q # p
      <3>1. pc'[q] = pc[q] /\ lim'[q] = lim[q]
        BY <2>2 DEF LimiterMove, IdTypes
      <3> QED BY <2>2, <3>1 DEF ClaimOf, Add
    <2> QED BY <2>1, <2>2
  <1>2. \A q \in Procs : now'[q] <= clock
    BY DEF BudgetInv
  <1> QED BY <1>1, <1>2, BudgetUntouched

LEMMA AllowBeginStep ==
    ASSUME LimiterTypes, IdTypes, HolderInv, BudgetInv, NEW p \in Procs, AllowBegin(p), UNCHANGED clock
    PROVE  LimiterMove(p) /\ LimiterTypes' /\ BudgetInv'
  <1> USE DEF AllowBegin, Goto, Return, localVars, bucketVars
  <1>1. LimiterMove(p)
    BY DEF LimiterMove, AllowSteps, ResetSteps, LimiterTypes
  <1>2. LimiterTypes'
    BY DEF LimiterTypes
  <1>3. /\ \A q \in Procs \ {p} : now'[q] = now[q] /\ last'[q] = last[q]
        /\ now'[p] <= clock
    BY DEF LimiterTypes, BudgetInv
  <1>4. \/ /\ pc[p] \notin {"refill", "refillcas"}
           /\ pc'[p] \notin {"refill", "refillcas"}
        \/ /\ pc[p] \in {"refill", "refillcas"}
           /\ pc'[p] \in {"refill", "refillcas"}
           /\ lim'[p] = lim[p] /\ now'[p] = now[p] /\ last'[p] = last[p]
    BY DEF IdTypes
  <1>5. UNCHANGED <<bucketVars, clock>>
    OBVIOUS
  <1> QED BY <1>1, <1>2, <1>3, <1>4, <1>5, LoadKeepsBudget

LEMMA LoadLastStep ==
    ASSUME LimiterTypes, IdTypes, HolderInv, BudgetInv, NEW p \in Procs, LoadLast(p), UNCHANGED clock
    PROVE  LimiterMove(p) /\ LimiterTypes' /\ BudgetInv'
  <1> USE DEF LoadLast, Goto, Return, localVars, bucketVars
  <1>1. LimiterMove(p)
    BY DEF LimiterMove, AllowSteps, ResetSteps, LimiterTypes
  <1>2. LimiterTypes'
    <2>1. lastNano[lim[p]] \in Int
      BY LimiterHeld DEF LimiterTypes, AllowSteps
    <2> QED BY <2>1 DEF LimiterTypes
  <1>3. /\ \A q \in Procs \ {p} : now'[q] = now[q] /\ last'[q] = last[q]
        /\ now'[p] <= clock
    BY DEF LimiterTypes, BudgetInv
  <1>4. \/ /\ pc[p] \notin {"refill", "refillcas"}
           /\ pc'[p] \notin {"refill", "refillcas"}
        \/ /\ pc[p] \in {"refill", "refillcas"}
           /\ pc'[p] \in {"refill", "refillcas"}
           /\ lim'[p] = lim[p] /\ now'[p] = now[p] /\ last'[p] = last[p]
    BY DEF IdTypes
  <1>5. UNCHANGED <<bucketVars, clock>>
    OBVIOUS
  <1> QED BY <1>1, <1>2, <1>3, <1>4, <1>5, LoadKeepsBudget

LEMMA LoadTokensStep ==
    ASSUME LimiterTypes, IdTypes, HolderInv, BudgetInv, NEW p \in Procs, LoadTokens(p), UNCHANGED clock
    PROVE  LimiterMove(p) /\ LimiterTypes' /\ BudgetInv'
  <1> USE DEF LoadTokens, Goto, Return, localVars, bucketVars
  <1>0. \E x \in {"claim", "deduct"} : pc' = [pc EXCEPT ![p] = x]
    OBVIOUS
  <1>1. LimiterMove(p)
    BY <1>0 DEF LimiterMove, AllowSteps, ResetSteps, LimiterTypes
  <1>2. LimiterTypes'
    <2>1. tokens[lim[p]] \in Nat
      BY LimiterHeld, BucketAssumption DEF BudgetInv, AllowSteps
    <2> QED BY <2>1 DEF LimiterTypes
  <1>3. /\ \A q \in Procs \ {p} : now'[q] = now[q] /\ last'[q] = last[q]
        /\ now'[p] <= clock
    BY DEF LimiterTypes, BudgetInv
  <1>4. \/ /\ pc[p] \notin {"refill", "refillcas"}
           /\ pc'[p] \notin {"refill", "refillcas"}
        \/ /\ pc[p] \in {"refill", "refillcas"}
           /\ pc'[p] \in {"refill", "refillcas"}
           /\ lim'[p] = lim[p] /\ now'[p] = now[p] /\ last'[p] = last[p]
    BY DEF IdTypes
  <1>5. UNCHANGED <<bucketVars, clock>>
    OBVIOUS
  <1> QED BY <1>1, <1>2, <1>3, <1>4, <1>5, LoadKeepsBudget

LEMMA RefillLoadStep ==
    ASSUME LimiterTypes, IdTypes, HolderInv, BudgetInv, NEW p \in Procs, RefillLoad(p), UNCHANGED clock
    PROVE  LimiterMove(p) /\ LimiterTypes' /\ BudgetInv'
  <1> USE DEF RefillLoad, Goto, Return, localVars, bucketVars
  <1>1. LimiterMove(p)
    BY DEF LimiterMove, AllowSteps, ResetSteps, LimiterTypes
  <1>2. LimiterTypes'
    <2>1. tokens[lim[p]] \in Nat
      BY LimiterHeld, BucketAssumption DEF BudgetInv, AllowSteps
    <2> QED BY <2>1 DEF LimiterTypes
  <1>3. /\ \A q \in Procs \ {p} : now'[q] = now[q] /\ last'[q] = last[q]
        /\ now'[p] <= clock
    BY DEF LimiterTypes, BudgetInv
  <1>4. \/ /\ pc[p] \notin {"refill", "refillcas"}
           /\ pc'[p] \notin {"refill", "refillcas"}
        \/ /\ pc[p] \in {"refill", "refillcas"}
           /\ pc'[p] \in {"refill", "refillcas"}
           /\ lim'[p] = lim[p] /\ now'[p] = now[p] /\ last'[p] = last[p]
    BY DEF IdTypes
  <1>5. UNCHANGED <<bucketVars, clock>>
    OBVIOUS
  <1> QED BY <1>1, <1>2, <1>3, <1>4, <1>5, LoadKeepsBudget

LEMMA ReloadTokensStep ==
    ASSUME LimiterTypes, IdTypes, HolderInv, BudgetInv, NEW p \in Procs, ReloadTokens(p), UNCHANGED clock
    PROVE  LimiterMove(p) /\ LimiterTypes' /\ BudgetInv'
  <1> USE DEF ReloadTokens, Goto, Return, localVars, bucketVars
  <1>1. LimiterMove(p)
    BY DEF LimiterMove, AllowSteps, ResetSteps, LimiterTypes
  <1>2. LimiterTypes'
    <2>1. tokens[lim[p]] \in Nat
      BY LimiterHeld, BucketAssumption DEF BudgetInv, AllowSteps
    <2> QED BY <2>1 DEF LimiterTypes
  <1>3. /\ \A q \in Procs \ {p} : now'[q] = now[q] /\ last'[q] = last[q]
        /\ now'[p] <= clock
    BY DEF LimiterTypes, BudgetInv
  <1>4. \/ /\ pc[p] \notin {"refill", "refillcas"}
           /\ pc'[p] \notin {"refill", "refillcas"}
        \/ /\ pc[p] \in {"refill", "refillcas"}
           /\ pc'[p] \in {"refill", "refillcas"}
           /\ lim'[p] = lim[p] /\ now'[p] = now[p] /\ last'[p] = last[p]
    BY DEF IdTypes
  <1>5. UNCHANGED <<bucketVars, clock>>
    OBVIOUS
  <1> QED BY <1>1, <1>2, <1>3, <1>4, <1>5, LoadKeepsBudget

LEMMA ResetBeginStep ==
    ASSUME LimiterTypes, IdTypes, HolderInv, BudgetInv, NEW p \in Procs, ResetBegin(p), UNCHANGED clock
    PROVE  LimiterMove(p) /\ LimiterTypes' /\ BudgetInv'
  <1> USE DEF ResetBegin, Goto, Return, localVars, bucketVars
  <1>1. LimiterMove(p)
    BY DEF LimiterMove, AllowSteps, ResetSteps, LimiterTypes
  <1>2. LimiterTypes'
    BY DEF LimiterTypes
  <1>3. /\ \A q \in Procs \ {p} : now'[q] = now[q] /\ last'[q] = last[q]
        /\ now'[p] <= clock
    BY DEF LimiterTypes, BudgetInv
  <1>4. \/ /\ pc[p] \notin {"refill", "refillcas"}
           /\ pc'[p] \notin {"refill", "refillcas"}
        \/ /\ pc[p] \in {"refill", "refillcas"}
           /\ pc'[p] \in {"refill", "refillcas"}
           /\ lim'[p] = lim[p] /\ now'[p] = now[p] /\ last'[p] = last[p]
    BY DEF IdTypes
  <1>5. UNCHANGED <<bucketVars, clock>>
    OBVIOUS
  <1> QED BY <1>1, <1>2, <1>3, <1>4, <1>5, LoadKeepsBudget

\* Steps on one bucket: the other buckets and the other goroutines' claims
\* are as before.
LEMMA BucketStep ==
    ASSUME LimiterTypes, IdTypes, BudgetInv, UNCHANGED clock,
           NEW p \in Procs, NEW l \in Limiters, LimiterMove(p), lim[p] = l,
           \/ UNCHANGED <<now, last>>
           \/ /\ \A q \in Procs \ {p} : now'[q] = now[q] /\ last'[q] = last[q]
              /\ pc'[p] \notin {"refill", "refillcas"} /\ now'[p] <= clock,
           \A k \in Limiters \ {l} :
             /\ tokens'[k] = tokens[k] /\ lastNano'[k] = lastNano[k]
             /\ admitted'[k] = admitted[k] /\ granted'[k] = granted[k]
             /\ since'[k] = since[k],
           tokens'[l] \in 0 .. Burst, lastNano'[l] <= clock,
           Claimed(l)' = Claimed(l) - ClaimOf(l, p) + ClaimOf(l, p)' =>
             (admitted'[l] + tokens'[l] + Claimed(l)' - granted'[l]) * Interval
                <= lastNano'[l] - since'[l]
    PROVE  BudgetInv'
  <1>1. ASSUME NEW q \in Procs, q # p, NEW k \in Limiters
        PROVE  ClaimOf(k, q)' = ClaimOf(k, q)
    <2>1. pc'[q] = pc[q] /\ lim'[q] = lim[q]
      BY <1>1 DEF LimiterMove, IdTypes
    <2>2. now'[q] = now[q] /\ last'[q] = last[q]
      BY <1>1
    <2> QED BY <2>1, <2>2 DEF ClaimOf, Add
  <1>2. ASSUME NEW k \in Limiters, k # l
        PROVE  Claimed(k)' = Claimed(k)
    <2>1. lim'[p] # k \/ pc'[p] = "idle"
      BY <1>2 DEF LimiterMove, IdTypes
    <2>2. ClaimOf(k, p) = 0 /\ ClaimOf(k, p)' = 0
      BY <1>2, <2>1 DEF ClaimOf
    <2>3. \A q \in Procs : ClaimOf(k, q)' = ClaimOf(k, q)
      BY <1>1, <2>2
    <2> QED BY <2>3, ClaimedKept
  <1>3. ClaimOf(l, p)' \in Nat
    <2>1. CASE UNCHANGED <<now, last>>
      <3>1. Add(p)' = Add(p)
        BY <2>1 DEF Add
      <3> QED BY <3>1, AddBound DEF ClaimOf
    <2>2. CASE pc'[p] \notin {"refill", "refillcas"}
      BY <2>2 DEF ClaimOf
    <2> QED BY <2>1, <2>2
  <1>4. Claimed(l)' = Claimed(l) - ClaimOf(l, p) + ClaimOf(l, p)'
    BY <1>1, <1>3, ClaimedChanged
  <1>5. \A q \in Procs : now'[q] <= clock
    BY DEF BudgetInv
  <1>6. ASSUME NEW k \in Limiters
        PROVE  /\ tokens'[k] \in 0 .. Burst
               /\ lastNano'[k] <= clock
               /\ (admitted'[k] + tokens'[k] + Claimed(k)' - granted'[k]) * Interval
                     <= lastNano'[k] - since'[k]
    <2>1. CASE k = l
      BY <1>4, <2>1
    <2>2. CASE k # l
      BY <1>2, <2>2 DEF BudgetInv
    <2> QED BY <2>1, <2>2
  <1> QED BY <1>5, <1>6 DEF BudgetInv

LEMMA ClaimRefillStep ==
    ASSUME LimiterTypes, IdTypes, HolderInv, BudgetInv, NEW p \in Procs,
           ClaimRefill(p), UNCHANGED clock
    PROVE  LimiterMove(p) /\ LimiterTypes' /\ BudgetInv'
  <1> USE DEF ClaimRefill, Goto, localVars, bucketVars
  <1>1. LimiterMove(p)
    <2>1. \E x \in {"refill", "reload"} : pc' = [pc EXCEPT ![p] = x]
      OBVIOUS
    <2> QED BY <2>1 DEF LimiterMove, AllowSteps, ResetSteps, LimiterTypes
  <1>2. PICK l \in Limiters : lim[p] = l
    BY LimiterHeld DEF AllowSteps
  <1>3. /\ Add(p) \in Nat /\ Add(p) * Interval \in Int /\ 0 * Interval = 0
        /\ Add(p) > 0 => Add(p) * Interval <= now[p] - last[p]
        /\ now[p] \in Int /\ last[p] \in Int /\ now[p] <= clock /\ clock \in Int
        /\ lastNano[l] \in Int /\ lastNano[l] <= clock
    BY <1>2, AddBound, ScaleSum, BucketAssumption DEF LimiterTypes, BudgetInv
  <1>4. LimiterTypes'
    <2>1. last[p] + Add(p) * Interval \in Int
      BY <1>3
    <2> QED BY <2>1 DEF LimiterTypes
  <1>5. CASE lastNano[l] # last[p]
    <2>1. UNCHANGED <<bucketVars, clock>> /\ pc'[p] = "reload"
      BY <1>2, <1>5 DEF IdTypes
    <2>2. \A q \in Procs \ {p} : now'[q] = now[q] /\ last'[q] = last[q]
      OBVIOUS
    <2>3. pc[p] \notin {"refill", "refillcas"} /\ now'[p] <= clock
      BY <1>3
    <2> QED BY <1>1, <1>4, <2>1, <2>2, <2>3, LoadKeepsBudget
  <1>6. CASE lastNano[l] = last[p]
    <2>1. lastNano' = [lastNano EXCEPT ![l] = last[p] + Add(p) * Interval]
            /\ pc'[p] = "refill"
      BY <1>2, <1>6 DEF IdTypes
    <2>2. lastNano'[l] = lastNano[l] + Add(p) * Interval
      BY <1>2, <1>6, <2>1 DEF LimiterTypes
    <2>3. lastNano'[l] <= clock
      <3>1. CASE Add(p) > 0
        BY <1>3, <1>6, <2>2, <3>1
      <3>2. CASE Add(p) = 0
        BY <1>3, <2>2, <3>2
      <3> QED BY <1>3, <3>1, <3>2
    <2>4. ClaimOf(l, p) = 0 /\ ClaimOf(l, p)' = Add(p)
      <3>1. Add(p)' = Add(p) /\ lim' = lim
        BY DEF Add
      <3> QED BY <1>2, <2>1, <3>1 DEF ClaimOf
    <2>5. ASSUME Claimed(l)' = Claimed(l) - ClaimOf(l, p) + ClaimOf(l, p)'
          PROVE  (admitted'[l] + tokens'[l] + Claimed(l)' - granted'[l]) * Interval
                    <= lastNano'[l] - since'[l]
      <3> DEFINE x == admitted[l] + tokens[l] + Claimed(l) - granted[l]
      <3>1. Claimed(l) \in Nat
        BY ClaimType
      <3>2. x \in Int /\ x * Interval <= lastNano[l] - since[l] /\ since[l] \in Int
        BY <1>2, <3>1 DEF LimiterTypes, BudgetInv
      <3>3. admitted'[l] + tokens'[l] + Claimed(l)' - granted'[l] = x + Add(p)
        BY <1>2, <1>3, <2>4, <2>5, <3>1 DEF LimiterTypes
      <3> HIDE DEF x
      <3>4. (x + Add(p)) * Interval = x * Interval + Add(p) * Interval
              /\ x * Interval \in Int
        BY <1>3, <3>2, ScaleSum, BucketAssumption
      <3> QED BY <1>3, <2>2, <3>2, <3>3, <3>4
    <2>6. tokens'[l] \in 0 .. Burst
      BY <1>2 DEF BudgetInv
    <2>7. \A k \in Limiters \ {l} :
            /\ tokens'[k] = tokens[k] /\ lastNano'[k] = lastNano[k]
            /\ admitted'[k] = admitted[k] /\ granted'[k] = granted[k]
            /\ since'[k] = since[k]
      BY <2>1 DEF LimiterTypes
    <2>8. UNCHANGED <<now, last, clock>>
      OBVIOUS
    <2> HIDE DEF ClaimRefill
    <2> QED BY <1>1, <1>2, <1>4, <2>3, <2>5, <2>6, <2>7, <2>8, BucketStep
  <1> QED BY <1>1, <1>4, <1>5, <1>6

LEMMA RefillCasStep ==
    ASSUME LimiterTypes, IdTypes, HolderInv, BudgetInv, NEW p \in Procs,
           RefillCas(p), UNCHANGED clock
    PROVE  LimiterMove(p) /\ LimiterTypes' /\ BudgetInv'
  <1> USE DEF RefillCas, Goto, bucketVars
  <1>1. PICK l \in Limiters : lim[p] = l
    BY LimiterHeld DEF AllowSteps
  <1>2. LimiterMove(p)
    <2>1. \E x \in {"deduct", "refill"} : pc' = [pc EXCEPT ![p] = x]
      OBVIOUS
    <2> QED BY <2>1 DEF LimiterMove, AllowSteps, ResetSteps, LimiterTypes
  <1>3. /\ Add(p) \in Nat /\ cur[p] \in Nat /\ Burst \in Nat
        /\ tokens[l] \in 0 .. Burst /\ lastNano[l] <= clock
        /\ now[p] <= clock
    BY AddBound, BucketAssumption DEF LimiterTypes, BudgetInv
  <1>4. Refilled(p) \in 0 .. Burst /\ Refilled(p) <= cur[p] + Add(p)
    BY <1>3 DEF Refilled
  <1>5. LimiterTypes'
    BY <1>4 DEF LimiterTypes
  <1>6. CASE tokens[l] # cur[p]
    <2>1. UNCHANGED <<bucketVars, clock>> /\ pc'[p] = "refill"
      BY <1>1, <1>6 DEF IdTypes
    <2>2. UNCHANGED <<now, last, lim>>
      OBVIOUS
    <2>3. pc[p] \in {"refill", "refillcas"}
      OBVIOUS
    <2> QED BY <1>2, <1>3, <1>5, <2>1, <2>2, <2>3, LoadKeepsBudget
  <1>7. CASE tokens[l] = cur[p]
    <2>1. tokens' = [tokens EXCEPT ![l] = Refilled(p)] /\ pc'[p] = "deduct"
      BY <1>1, <1>7 DEF IdTypes
    <2>2. tokens'[l] = Refilled(p)
      BY <2>1 DEF LimiterTypes
    <2>3. ClaimOf(l, p) = Add(p) /\ ClaimOf(l, p)' = 0
      BY <1>1, <2>1 DEF ClaimOf
    <2>4. ASSUME Claimed(l)' = Claimed(l) - ClaimOf(l, p) + ClaimOf(l, p)'
          PROVE  (admitted'[l] + tokens'[l] + Claimed(l)' - granted'[l]) * Interval
                    <= lastNano'[l] - since'[l]
      <3> DEFINE x == admitted[l] + tokens[l] + Claimed(l) - granted[l]
                 y == admitted[l] + Refilled(p) + (Claimed(l) - Add(p)) - granted[l]
      <3>1. Claimed(l) \in Nat
        BY ClaimType
      <3>2. /\ x \in Int /\ x * Interval <= lastNano[l] - since[l]
            /\ lastNano[l] - since[l] \in Int
        BY <3>1 DEF LimiterTypes, BudgetInv
      <3>3. y \in Int /\ y <= x
        BY <1>3, <1>4, <1>7, <3>1 DEF LimiterTypes
      <3>4. admitted'[l] + tokens'[l] + Claimed(l)' - granted'[l] = y
        BY <1>3, <2>2, <2>3, <2>4, <3>1
      <3> HIDE DEF x, y
      <3>5. y * Interval <= x * Interval /\ x * Interval \in Int /\ y * Interval \in Int
        BY <3>2, <3>3, ScaleSum, BucketAssumption
      <3>6. lastNano' = lastNano /\ since' = since
        OBVIOUS
      <3> QED BY <3>2, <3>4, <3>5, <3>6
    <2>5. \A k \in Limiters \ {l} :
            /\ tokens'[k] = tokens[k] /\ lastNano'[k] = lastNano[k]
            /\ admitted'[k] = admitted[k] /\ granted'[k] = granted[k]
            /\ since'[k] = since[k]
      BY <2>1 DEF LimiterTypes
    <2>6. UNCHANGED <<now, last, clock>> /\ lastNano'[l] <= clock
      BY <1>3
    <2>7. tokens'[l] \in 0 .. Burst
      BY <1>4, <2>2
    <2> HIDE DEF RefillCas
    <2> QED BY <1>1, <1>2, <1>5, <2>4, <2>5, <2>6, <2>7, BucketStep
  <1> QED BY <1>1, <1>2, <1>5, <1>6, <1>7

\* The other steps on a bucket are of goroutines without a claim.
LEMMA UnclaimedBucketStep ==
    ASSUME LimiterTypes, IdTypes, BudgetInv, UNCHANGED clock,
           NEW p \in Procs, NEW l \in Limiters, LimiterMove(p), lim[p] = l,
           \A q \in Procs \ {p} : now'[q] = now[q] /\ last'[q] = last[q],
           now'[p] <= clock,
           pc[p] \notin {"refill", "refillcas"},
           pc'[p] \notin {"refill", "refillcas"},
           \A k \in Limiters \ {l} :
             /\ tokens'[k] = tokens[k] /\ lastNano'[k] = lastNano[k]
             /\ admitted'[k] = admitted[k] /\ granted'[k] = granted[k]
             /\ since'[k] = since[k],
           tokens'[l] \in 0 .. Burst, lastNano'[l] <= clock,
           admitted'[l] \in Int, granted'[l] \in Int,
           admitted'[l] + tokens'[l] - granted'[l]
             = admitted[l] + tokens[l] - granted[l],
           lastNano'[l] - since'[l] >= lastNano[l] - since[l],
           lastNano'[l] - since'[l] \in Int
    PROVE  BudgetInv'
  <1>1. ClaimOf(l, p) = 0 /\ ClaimOf(l, p)' = 0
    BY DEF ClaimOf
  <1>2. ASSUME Claimed(l)' = Claimed(l) - ClaimOf(l, p) + ClaimOf(l, p)'
        PROVE  (admitted'[l] + tokens'[l] + Claimed(l)' - granted'[l]) * Interval
                  <= lastNano'[l] - since'[l]
    <2> DEFINE x == admitted[l] + tokens[l] + Claimed(l) - granted[l]
    <2>1. Claimed(l) \in Nat /\ tokens'[l] \in Int
      BY ClaimType
    <2>2. /\ x \in Int /\ x * Interval <= lastNano[l] - since[l]
          /\ lastNano[l] - since[l] \in Int
      BY <2>1 DEF LimiterTypes, BudgetInv
    <2>3. admitted'[l] + tokens'[l] + Claimed(l)' - granted'[l] = x
      BY <1>1, <1>2, <2>1 DEF LimiterTypes
    <2> HIDE DEF x
    <2>4. x * Interval \in Int
      BY <2>2, ScaleSum, BucketAssumption
    <2> QED BY <2>2, <2>3, <2>4
  <1> QED BY <1>2, BucketStep

LEMMA DeductStep ==
    ASSUME LimiterTypes, IdTypes, HolderInv, BudgetInv, NEW p \in Procs,
           Deduct(p), UNCHANGED clock
    PROVE  LimiterMove(p) /\ LimiterTypes' /\ BudgetInv'
  <1> USE DEF Deduct, Goto, Return, localVars, bucketVars
  <1>1. PICK l \in Limiters : lim[p] = l
    BY LimiterHeld DEF AllowSteps
  <1>2. LimiterMove(p)
    BY DEF LimiterMove, AllowSteps, ResetSteps, LimiterTypes
  <1>3. LimiterTypes'
    BY <1>1 DEF LimiterTypes
  <1>4. /\ \A q \in Procs \ {p} : now'[q] = now[q] /\ last'[q] = last[q]
        /\ now'[p] <= clock
        /\ pc[p] \notin {"refill", "refillcas"}
        /\ pc'[p] \notin {"refill", "refillcas"}
    BY DEF LimiterTypes, BudgetInv, IdTypes
  <1>5. CASE UNCHANGED tokens /\ UNCHANGED admitted
    <2>1. UNCHANGED <<bucketVars, clock>>
      BY <1>5
    <2> HIDE DEF Deduct
    <2> QED BY <1>2, <1>3, <1>4, <2>1, LoadKeepsBudget
  <1>6. CASE /\ cur[p] >= need[p] /\ tokens[l] = cur[p]
             /\ tokens' = [tokens EXCEPT ![l] = @ - need[p]]
             /\ admitted' = [admitted EXCEPT ![l] = @ + need[p]]
    <2>1. /\ tokens'[l] = tokens[l] - need[p] /\ admitted'[l] = admitted[l] + need[p]
          /\ tokens[l] \in 0 .. Burst /\ need[p] \in Nat /\ need[p] <= tokens[l]
          /\ admitted[l] \in Int /\ granted[l] \in Int
          /\ lastNano[l] \in Int /\ since[l] \in Int /\ lastNano[l] <= clock
      BY <1>6 DEF LimiterTypes, BudgetInv
    <2>2. \A k \in Limiters \ {l} :
            /\ tokens'[k] = tokens[k] /\ lastNano'[k] = lastNano[k]
            /\ admitted'[k] = admitted[k] /\ granted'[k] = granted[k]
            /\ since'[k] = since[k]
      BY <1>6 DEF LimiterTypes
    <2>3. lastNano' = lastNano /\ since' = since /\ granted' = granted
      OBVIOUS
    <2>4. /\ tokens'[l] \in 0 .. Burst /\ lastNano'[l] <= clock
          /\ admitted'[l] \in Int /\ granted'[l] \in Int
          /\ admitted'[l] + tokens'[l] - granted'[l]
               = admitted[l] + tokens[l] - granted[l]
          /\ lastNano'[l] - since'[l] >= lastNano[l] - since[l]
          /\ lastNano'[l] - since'[l] \in Int
      BY <2>1, <2>3, BucketAssumption
    <2> HIDE DEF Deduct
    <2> QED BY <1>1, <1>2, <1>3, <1>4, <2>2, <2>4, UnclaimedBucketStep
  <1> QED BY <1>1, <1>5, <1>6

LEMMA ResetLastStep ==
    ASSUME LimiterTypes, IdTypes, HolderInv, BudgetInv, NEW p \in Procs,
           ResetLast(p), UNCHANGED clock
    PROVE  LimiterMove(p) /\ LimiterTypes' /\ BudgetInv'
  <1> USE DEF ResetLast, Goto, localVars
  <1>1. PICK l \in Limiters : lim[p] = l
    BY LimiterHeld DEF ResetSteps
  <1>2. LimiterMove(p)
    BY DEF LimiterMove, AllowSteps, ResetSteps, LimiterTypes
  <1>3. /\ lastNano[l] \in Int /\ since[l] \in Int /\ now[p] \in Int
        /\ now[p] <= clock /\ lastNano[l] <= clock /\ tokens[l] \in 0 .. Burst
        /\ admitted[l] \in Int /\ granted[l] \in Int
    BY DEF LimiterTypes, BudgetInv
  <1>4. /\ lastNano' = [lastNano EXCEPT ![l] = now[p]]
        /\ since' = [since EXCEPT ![l] = IF lastNano[l] > now[p]
                                         THEN since[l] - (lastNano[l] - now[p])
                                         ELSE since[l]]
        /\ UNCHANGED <<tokens, admitted, granted>>
    BY <1>1
  <1>5. LimiterTypes'
    <2> DEFINE v == IF lastNano[l] > now[p] THEN since[l] - (lastNano[l] - now[p])
                                            ELSE since[l]
    <2> HIDE DEF ResetLast
    <2>0. v \in Int
      <3>1. CASE lastNano[l] > now[p]
        BY <1>3, <3>1
      <3>2. CASE ~(lastNano[l] > now[p])
        BY <1>3, <3>2
      <3> QED BY <3>1, <3>2
    <2>1. v \in Int /\ since' = [since EXCEPT ![l] = v]
      BY <1>4, <2>0
    <2> HIDE DEF v
    <2>2. since' \in [Limiters -> Int] /\ lastNano' \in [Limiters -> Int]
      BY <1>3, <1>4, <2>1 DEF LimiterTypes
    <2> USE DEF ResetLast
    <2> QED BY <1>4, <2>2 DEF LimiterTypes
  <1>6. \A k \in Limiters \ {l} :
          /\ tokens'[k] = tokens[k] /\ lastNano'[k] = lastNano[k]
          /\ admitted'[k] = admitted[k] /\ granted'[k] = granted[k]
          /\ since'[k] = since[k]
    BY <1>4 DEF LimiterTypes
  <1>7. /\ \A q \in Procs \ {p} : now'[q] = now[q] /\ last'[q] = last[q]
        /\ now'[p] <= clock
        /\ pc[p] \notin {"refill", "refillcas"}
        /\ pc'[p] \notin {"refill", "refillcas"}
    BY <1>3 DEF IdTypes
  <1>8. lastNano'[l] = now[p]
          /\ since'[l] = IF lastNano[l] > now[p]
                         THEN since[l] - (lastNano[l] - now[p]) ELSE since[l]
    BY <1>4 DEF LimiterTypes
  <1>9. /\ tokens'[l] \in 0 .. Burst /\ lastNano'[l] <= clock
        /\ admitted'[l] \in Int /\ granted'[l] \in Int
        /\ admitted'[l] + tokens'[l] - granted'[l]
             = admitted[l] + tokens[l] - granted[l]
        /\ lastNano'[l] - since'[l] >= lastNano[l] - since[l]
        /\ lastNano'[l] - since'[l] \in Int
    BY <1>3, <1>4, <1>8
  <1> HIDE DEF ResetLast
  <1> QED BY <1>1, <1>2, <1>5, <1>6, <1>7, <1>9, UnclaimedBucketStep

LEMMA ResetTokensStep ==
    ASSUME LimiterTypes, IdTypes, HolderInv, BudgetInv, NEW p \in Procs,
           ResetTokens(p), UNCHANGED clock
    PROVE  LimiterMove(p) /\ LimiterTypes' /\ BudgetInv'
  <1> USE DEF ResetTokens, Return, Goto
  <1>1. PICK l \in Limiters : lim[p] = l
    BY LimiterHeld DEF ResetSteps
  <1>2. LimiterMove(p)
    BY DEF LimiterMove, AllowSteps, ResetSteps, LimiterTypes
  <1>3. /\ lastNano[l] \in Int /\ since[l] \in Int
        /\ lastNano[l] <= clock /\ tokens[l] \in 0 .. Burst
        /\ admitted[l] \in Int /\ granted[l] \in Int /\ Burst \in Nat
    BY BucketAssumption DEF LimiterTypes, BudgetInv
  <1>4. /\ tokens' = [tokens EXCEPT ![l] = Burst]
        /\ granted' = [granted EXCEPT ![l] = granted[l] + Burst - tokens[l]]
        /\ UNCHANGED <<lastNano, admitted, since>>
    BY <1>1
  <1>5. LimiterTypes'
    <2> DEFINE v == granted[l] + Burst - tokens[l]
    <2> HIDE DEF ResetTokens
    <2>0. Burst \in Int /\ v \in Int
      BY <1>3
    <2>1. Burst \in Int /\ v \in Int /\ granted' = [granted EXCEPT ![l] = v]
      BY <1>4, <2>0
    <2> HIDE DEF v
    <2>2. tokens' \in [Limiters -> Int] /\ granted' \in [Limiters -> Int]
      BY <1>4, <2>1 DEF LimiterTypes
    <2>3. /\ now' \in [Procs -> Int] /\ last' \in [Procs -> Int]
          /\ cur' \in [Procs -> Nat] /\ need' \in [Procs -> Nat]
      BY DEF LimiterTypes, ResetTokens
    <2> QED BY <1>4, <2>2, <2>3 DEF LimiterTypes
  <1>6. \A k \in Limiters \ {l} :
          /\ tokens'[k] = tokens[k] /\ lastNano'[k] = lastNano[k]
          /\ admitted'[k] = admitted[k] /\ granted'[k] = granted[k]
          /\ since'[k] = since[k]
    BY <1>4 DEF LimiterTypes
  <1>7. /\ \A q \in Procs \ {p} : now'[q] = now[q] /\ last'[q] = last[q]
        /\ now'[p] <= clock
        /\ pc[p] \notin {"refill", "refillcas"}
        /\ pc'[p] \notin {"refill", "refillcas"}
    BY DEF LimiterTypes, BudgetInv, IdTypes
  <1>8. tokens'[l] = Burst /\ granted'[l] = granted[l] + Burst - tokens[l]
    BY <1>4 DEF LimiterTypes
  <1>9. /\ tokens'[l] \in 0 .. Burst /\ lastNano'[l] <= clock
        /\ admitted'[l] \in Int /\ granted'[l] \in Int
        /\ admitted'[l] + tokens'[l] - granted'[l]
             = admitted[l] + tokens[l] - granted[l]
        /\ lastNano'[l] - since'[l] >= lastNano[l] - since[l]
        /\ lastNano'[l] - since'[l] \in Int
    BY <1>3, <1>4, <1>8
  <1> HIDE DEF ResetTokens
  <1> QED BY <1>1, <1>2, <1>5, <1>6, <1>7, <1>9, UnclaimedBucketStep

LEMMA LimiterStep ==
    ASSUME IndInv, NEW p \in Procs, AllowN(p) \/ ResetLimiter(p),
           UNCHANGED <<clock, strict, mapVars, entryVars, callVars, janitorVars>>
    PROVE  IndInv'
  <1>1. LimiterMove(p) /\ LimiterTypes' /\ BudgetInv'
    BY AllowBeginStep, LoadLastStep, LoadTokensStep, ClaimRefillStep,
       RefillLoadStep, RefillCasStep, ReloadTokensStep, DeductStep,
       ResetBeginStep, ResetLastStep, ResetTokensStep
       DEF IndInv, AllowN, ResetLimiter
  <1> QED BY <1>1, LimiterMoveKeeps DEF IndInv

-----------------------------------------------------------------------------
(* Steps of getOrCreate                                                    *)

\* They touch no claim, and most of them no bucket.
LEMMA EntryKeepsBudget ==
    ASSUME IdTypes, BudgetInv, NEW p \in Procs, NEW x,
           pc[p] \notin {"refill", "refillcas"}, x \notin {"refill", "refillcas"},
           pc' = [pc EXCEPT ![p] = x], now'[p] <= clock,
           \A q \in Procs \ {p} :
             lim'[q] = lim[q] /\ now'[q] = now[q] /\ last'[q] = last[q],
           UNCHANGED <<bucketVars, clock>>
    PROVE  BudgetInv'
  <1>1. ASSUME NEW q \in Procs, NEW l \in Limiters
        PROVE  ClaimOf(l, q)' = ClaimOf(l, q)
    <2>1. CASE q = p
      <3>1. pc'[p] = x
        BY DEF IdTypes
      <3> QED BY <2>1, <3>1 DEF ClaimOf
    <2>2. CASE q # p
      <3>1. pc'[q] = pc[q]
        BY <2>2 DEF IdTypes
      <3> QED BY <2>2, <3>1 DEF ClaimOf, Add
    <2> QED BY <2>1, <2>2
  <1>2. \A q \in Procs : now'[q] <= clock
    BY DEF BudgetInv
  <1> QED BY <1>1, <1>2, BudgetUntouched

FlightSteps == {"rotate", "swap", "prev", "add"}

\* Steps of goroutines whose call is not in flight.
LEMMA NoFlightStep ==
    ASSUME IdTypes, HolderInv, HitsInv, RecentWithinHits, NEW p \in Procs, NEW x,
           pc[p] \notin FlightSteps, x \notin FlightSteps, pc' = [pc EXCEPT ![p] = x],
           \A q \in Procs \ {p} : lim'[q] = lim[q] /\ cur'[q] = cur[q],
           UNCHANGED <<hits, recentCount, prevCount>>,
           UNCHANGED <<chore, ent, sum>>
    PROVE  HitsInv' /\ RecentWithinHits'
  <1>1. ASSUME NEW q \in Procs, NEW e \in Limiters
        PROVE  FlightOf(e, q)' = FlightOf(e, q)
    <2>1. CASE q = p
      <3>1. pc'[p] = x
        BY DEF IdTypes
      <3> QED BY <2>1, <3>1 DEF FlightOf, FlightSteps
    <2>2. CASE q # p
      <3>1. pc'[q] = pc[q]
        BY <2>2 DEF IdTypes
      <3> QED BY <2>2, <3>1 DEF FlightOf
    <2> QED BY <2>1, <2>2
  <1>2. ent \in Limiters \/ chore # "cur"
    <2>1. used \in 0 .. MaxLimiters /\ MaxLimiters \in Nat
      BY LimiterAssumption DEF IdTypes
    <2> QED BY <2>1 DEF HolderInv, Limiters
  <1> QED BY <1>1, <1>2, CountsUntouched

\* Steps that move or count the call of one goroutine.
LEMMA FlightStep ==
    ASSUME LimiterTypes, EntryTypes, IdTypes, HolderInv, HitsInv, RecentWithinHits,
           NEW p \in Procs, NEW e \in Limiters, lim[p] = e,
           lim'[p] = e \/ pc'[p] \notin FlightSteps,
           \A q \in Procs \ {p} :
             lim'[q] = lim[q] /\ cur'[q] = cur[q] /\ pc'[q] = pc[q],
           \A k \in Limiters \ {e} :
             /\ hits'[k] = hits[k] /\ recentCount'[k] = recentCount[k]
             /\ prevCount'[k] = prevCount[k],
           UNCHANGED <<chore, ent, sum>>,
           hits'[e] \in Nat, recentCount'[e] \in Nat, prevCount'[e] \in Nat,
           FlightOf(e, p)' \in Nat, hits'[e] >= hits[e],
           recentCount'[e] + FlightOf(e, p)' - hits'[e]
             <= recentCount[e] + FlightOf(e, p) - hits[e],
           prevCount'[e] + recentCount'[e] + FlightOf(e, p)' - hits'[e]
             <= prevCount[e] + recentCount[e] + FlightOf(e, p) - hits[e]
    PROVE  HitsInv' /\ RecentWithinHits'
  <1>1. ASSUME NEW k \in Limiters, NEW q \in Procs, q # p \/ k # e
        PROVE  FlightOf(k, q)' = FlightOf(k, q)
    <2>1. CASE q # p
      BY <2>1 DEF FlightOf
    <2>2. CASE q = p /\ k # e
      BY <2>2 DEF FlightOf, FlightSteps
    <2> QED BY <1>1, <2>1, <2>2
  <1>2. \A k \in Limiters \ {e} : InFlight(k)' = InFlight(k)
    BY <1>1, FlightKept
  <1>3. InFlight(e)' = InFlight(e) - FlightOf(e, p) + FlightOf(e, p)'
    BY <1>1, FlightChanged
  <1>4. InFlight(e) \in Nat /\ FlightOf(e, p) \in Nat
    BY FlightType
  <1>5. /\ hits[e] \in Nat /\ recentCount[e] \in Nat /\ prevCount[e] \in Nat
        /\ sum \in Nat
    BY DEF EntryTypes
  <1>6. ASSUME NEW k \in Limiters
        PROVE  prevCount'[k] + recentCount'[k] + InFlight(k)' <= hits'[k]
    <2>1. CASE k = e
      <3>1. prevCount[e] + recentCount[e] + InFlight(e) <= hits[e]
        BY DEF HitsInv
      <3> QED BY <1>3, <1>4, <1>5, <2>1, <3>1
    <2>2. CASE k # e
      BY <1>2, <2>2 DEF HitsInv
    <2> QED BY <2>1, <2>2
  <1>7. ASSUME chore = "cur"
        PROVE  sum + recentCount'[ent] + InFlight(ent)' <= hits'[ent]
    <2>1. sum + recentCount[ent] + InFlight(ent) <= hits[ent]
      BY <1>7 DEF HitsInv
    <2>2. CASE ent = e
      <3>1. InFlight(ent)' = InFlight(ent) - FlightOf(e, p) + FlightOf(e, p)'
        BY <1>3, <2>2
      <3> QED BY <1>4, <1>5, <2>1, <2>2, <3>1
    <2>3. CASE ent # e
      <3>1. ent \in Limiters
        <4>1. used \in 0 .. MaxLimiters /\ MaxLimiters \in Nat /\ ent \in 1 .. used
          BY <1>7, LimiterAssumption DEF IdTypes, HolderInv
        <4> QED BY <4>1 DEF Limiters
      <3>2. InFlight(ent)' = InFlight(ent)
        BY <1>2, <2>3, <3>1
      <3> QED BY <2>1, <2>3, <3>1, <3>2
    <2> QED BY <2>2, <2>3
  <1>8. RecentWithinHits'
    <2>1. CASE ent = e
      BY <1>5, <2>1 DEF RecentWithinHits
    <2>2. CASE ent # e /\ chore = "hits"
      <3>1. ent \in Limiters
        <4>1. used \in 0 .. MaxLimiters /\ MaxLimiters \in Nat /\ ent \in 1 .. used
          BY <2>2, LimiterAssumption DEF IdTypes, HolderInv
        <4> QED BY <4>1 DEF Limiters
      <3> QED BY <2>2, <3>1 DEF RecentWithinHits
    <2> QED BY <2>1, <2>2 DEF RecentWithinHits
  <1> QED BY <1>6, <1>7, <1>8 DEF HitsInv

Steps == {"idle"} \cup AllowSteps \cup ResetSteps \cup EntrySteps

\* Where a goroutine goes and what it holds there.
LEMMA PlaceStep ==
    ASSUME IdTypes, HolderInv, StrictInv, NEW p \in Procs, NEW x \in Steps,
           pc' = [pc EXCEPT ![p] = x],
           used' \in used .. MaxLimiters, m' \in [Addrs -> 1 .. used' \cup {None}],
           lim' \in [Procs -> 1 .. used' \cup {None}],
           addr' \in [Procs -> Addrs \cup {None}],
           op' \in [Procs -> {"allow", "get", None}],
           \A q \in Procs \ {p} :
             lim'[q] = lim[q] /\ addr'[q] = addr[q] /\ op'[q] = op[q],
           x \in LimiterSteps => lim'[p] \in 1 .. used',
           x \in EntrySteps => addr'[p] \in Addrs /\ op'[p] \in {"allow", "get"},
           x \in {"set", "again"} => ~strict,
           UNCHANGED <<strict, chore, ent>>
    PROVE  IdTypes' /\ HolderInv' /\ StrictInv'
  <1>1. used \in Nat /\ used' \in 0 .. MaxLimiters /\ used <= used'
    BY LimiterAssumption DEF IdTypes
  <1>2. 1 .. used \subseteq 1 .. used'
    BY <1>1
  <1>3. pc'[p] = x /\ \A q \in Procs \ {p} : pc'[q] = pc[q]
    BY DEF IdTypes
  <1>4. IdTypes'
    <2>1. pc' \in [Procs -> {"idle"} \cup AllowSteps \cup ResetSteps \cup EntrySteps]
      BY DEF IdTypes, Steps
    <2> QED BY <1>1, <1>2, <2>1 DEF IdTypes
  <1>5. HolderInv'
    BY <1>2, <1>3 DEF HolderInv
  <1>6. StrictInv'
    BY <1>3 DEF StrictInv
  <1> QED BY <1>4, <1>5, <1>6

LEMMA CallBeginStep ==
    ASSUME IndInv, NEW p \in Procs, NEW a \in Addrs, NEW kind \in {"allow", "get"},
           NEW n \in Nat, CallBegin(p, a, kind, n), UNCHANGED <<clock, strict, janitorVars>>
    PROVE  IndInv'
  <1> USE DEF CallBegin, Goto, mapVars, entryVars, janitorVars
  <1>1. LimiterTypes'
    <2>1. now' = [now EXCEPT ![p] = clock] /\ clock \in Int
      BY DEF IndInv, LimiterTypes
    <2> QED BY <2>1 DEF IndInv, LimiterTypes, bucketVars
  <1>2. EntryTypes'
    BY DEF IndInv, EntryTypes
  <1>3. IdTypes' /\ HolderInv' /\ StrictInv'
    <2>1. used' \in used .. MaxLimiters /\ "find" \in Steps
            /\ "find" \notin LimiterSteps
      BY LimiterAssumption DEF IndInv, IdTypes, Steps, EntrySteps, AllowSteps,
         ResetSteps, LimiterSteps
    <2>2. /\ m' \in [Addrs -> 1 .. used' \cup {None}]
          /\ lim' \in [Procs -> 1 .. used' \cup {None}]
          /\ addr' \in [Procs -> Addrs \cup {None}]
          /\ op' \in [Procs -> {"allow", "get", None}]
          /\ addr'[p] \in Addrs /\ op'[p] \in {"allow", "get"}
          /\ \A q \in Procs \ {p} :
               lim'[q] = lim[q] /\ addr'[q] = addr[q] /\ op'[q] = op[q]
      BY DEF IndInv, IdTypes
    <2> QED BY <2>1, <2>2, PlaceStep DEF IndInv
  <1>4. BudgetInv'
    <2>1. /\ now'[p] <= clock
          /\ \A q \in Procs \ {p} :
               lim'[q] = lim[q] /\ now'[q] = now[q] /\ last'[q] = last[q]
      BY DEF IndInv, LimiterTypes
    <2> QED BY <2>1, EntryKeepsBudget DEF IndInv
  <1>5. OneLimiterPerAddress'
    BY DEF IndInv, OneLimiterPerAddress
  <1>6. HitsInv' /\ RecentWithinHits'
    BY NoFlightStep DEF IndInv, FlightSteps
  <1> QED BY <1>1, <1>2, <1>3, <1>4, <1>5, <1>6 DEF IndInv

LEMMA LimiterBeginStep ==
    ASSUME IndInv, NEW p \in Procs, NEW l \in 1 .. used, NEW step \in {"allow", "reset"},
           NEW n \in Nat, LimiterBegin(p, l, step, n),
           UNCHANGED <<clock, strict, janitorVars>>
    PROVE  IndInv'
  <1> USE DEF LimiterBegin, Goto, mapVars, entryVars, janitorVars
  <1>1. LimiterTypes'
    BY DEF IndInv, LimiterTypes, bucketVars
  <1>2. EntryTypes'
    BY DEF IndInv, EntryTypes
  <1>3. IdTypes' /\ HolderInv' /\ StrictInv'
    <2>1. used' \in used .. MaxLimiters /\ step \in Steps /\ step \notin EntrySteps
            /\ step \notin {"set", "again"}
      BY LimiterAssumption DEF IndInv, IdTypes, Steps, EntrySteps, AllowSteps, ResetSteps
    <2>2. /\ m' \in [Addrs -> 1 .. used' \cup {None}]
          /\ lim' \in [Procs -> 1 .. used' \cup {None}]
          /\ addr' \in [Procs -> Addrs \cup {None}]
          /\ op' \in [Procs -> {"allow", "get", None}]
          /\ lim'[p] \in 1 .. used'
          /\ \A q \in Procs \ {p} :
               lim'[q] = lim[q] /\ addr'[q] = addr[q] /\ op'[q] = op[q]
      BY DEF IndInv, IdTypes
    <2> QED BY <2>1, <2>2, PlaceStep DEF IndInv
  <1>4. BudgetInv'
    <2>1. /\ now'[p] <= clock
          /\ \A q \in Procs \ {p} :
               lim'[q] = lim[q] /\ now'[q] = now[q] /\ last'[q] = last[q]
      BY DEF IndInv, LimiterTypes, IdTypes, BudgetInv
    <2> QED BY <2>1, EntryKeepsBudget DEF IndInv
  <1>5. OneLimiterPerAddress'
    BY DEF IndInv, OneLimiterPerAddress
  <1>6. HitsInv' /\ RecentWithinHits'
    <2>1. \A q \in Procs \ {p} : lim'[q] = lim[q] /\ cur'[q] = cur[q]
      BY DEF IndInv, IdTypes
    <2> QED BY <2>1, NoFlightStep DEF IndInv, FlightSteps
  <1> QED BY <1>1, <1>2, <1>3, <1>4, <1>5, <1>6 DEF IndInv

LEMMA FindStep ==
    ASSUME IndInv, NEW p \in Procs, Find(p), UNCHANGED <<clock, strict, janitorVars>>
    PROVE  IndInv'
  <1> USE DEF Find, Goto, mapVars, callVars, entryVars, janitorVars
  <1>1. LimiterTypes'
    BY DEF IndInv, LimiterTypes, bucketVars, localVars
  <1>2. EntryTypes'
    BY DEF IndInv, EntryTypes
  <1>3. IdTypes' /\ HolderInv' /\ StrictInv'
    <2>1. PICK x \in {"stamp", "lock", "set"} :
            /\ pc' = [pc EXCEPT ![p] = x]
            /\ x = "stamp" => m[addr[p]] # None /\ lim' = [lim EXCEPT ![p] = m[addr[p]]]
            /\ x # "stamp" => lim' = lim
            /\ x = "set" => ~strict
      OBVIOUS
    <2>2. /\ used' \in used .. MaxLimiters /\ x \in Steps
          /\ x \in LimiterSteps => x = "stamp"
      BY LimiterAssumption DEF IndInv, IdTypes, Steps, EntrySteps, AllowSteps, ResetSteps, LimiterSteps
    <2>3. addr[p] \in Addrs /\ op[p] \in {"allow", "get"}
      BY DEF IndInv, HolderInv, EntrySteps
    <2>4. m[addr[p]] \in 1 .. used \cup {None}
      BY <2>3 DEF IndInv, IdTypes
    <2>5. /\ lim' \in [Procs -> 1 .. used' \cup {None}]
          /\ x \in LimiterSteps => lim'[p] \in 1 .. used'
          /\ \A q \in Procs \ {p} : lim'[q] = lim[q]
      BY <2>1, <2>2, <2>4 DEF IndInv, IdTypes
    <2>6. /\ m' \in [Addrs -> 1 .. used' \cup {None}]
          /\ addr' \in [Procs -> Addrs \cup {None}]
          /\ op' \in [Procs -> {"allow", "get", None}]
          /\ addr' = addr /\ op' = op
      BY DEF IndInv, IdTypes
    <2> HIDE DEF Find
    <2> QED BY <2>1, <2>2, <2>3, <2>5, <2>6, PlaceStep DEF IndInv
  <1>4. BudgetInv'
    <2>1. /\ now'[p] <= clock
          /\ \A q \in Procs \ {p} :
               lim'[q] = lim[q] /\ now'[q] = now[q] /\ last'[q] = last[q]
      BY DEF IndInv, IdTypes, LimiterTypes, BudgetInv, localVars
    <2> QED BY <2>1, EntryKeepsBudget DEF IndInv, localVars
  <1>5. OneLimiterPerAddress'
    BY DEF IndInv, OneLimiterPerAddress
  <1>6. HitsInv' /\ RecentWithinHits'
    <2>1. \A q \in Procs \ {p} : lim'[q] = lim[q] /\ cur'[q] = cur[q]
      BY DEF IndInv, IdTypes, localVars
    <2> QED BY <2>1, NoFlightStep DEF IndInv, FlightSteps, localVars
  <1> QED BY <1>1, <1>2, <1>3, <1>4, <1>5, <1>6 DEF IndInv

LEMMA GetAgainStep ==
    ASSUME IndInv, NEW p \in Procs, GetAgain(p), UNCHANGED <<clock, strict, janitorVars>>
    PROVE  IndInv'
  <1> USE DEF GetAgain, Goto, mapVars, callVars, entryVars, janitorVars
  <1>1. LimiterTypes'
    BY DEF IndInv, LimiterTypes, bucketVars, localVars
  <1>2. EntryTypes'
    BY DEF IndInv, EntryTypes
  <1>3. IdTypes' /\ HolderInv' /\ StrictInv'
    <2>1. pc' = [pc EXCEPT ![p] = "count"] /\ addr' = addr /\ op' = op /\ m' = m
      OBVIOUS
    <2>2. used' \in used .. MaxLimiters /\ "count" \in Steps
      BY LimiterAssumption DEF IndInv, IdTypes, Steps, EntrySteps, AllowSteps, ResetSteps, LimiterSteps
    <2>3. addr[p] \in Addrs /\ op[p] \in {"allow", "get"} /\ lim[p] \in 1 .. used
      BY DEF IndInv, HolderInv, EntrySteps, LimiterSteps
    <2>4. m[addr[p]] \in 1 .. used \cup {None}
      BY <2>3 DEF IndInv, IdTypes
    <2>5. PICK l \in 1 .. used : lim' = [lim EXCEPT ![p] = l]
      BY <2>3, <2>4 DEF IndInv, IdTypes
    <2>6. /\ lim' \in [Procs -> 1 .. used' \cup {None}] /\ lim'[p] \in 1 .. used'
          /\ \A q \in Procs \ {p} : lim'[q] = lim[q]
      BY <2>5 DEF IndInv, IdTypes
    <2>7. /\ m' \in [Addrs -> 1 .. used' \cup {None}]
          /\ addr' \in [Procs -> Addrs \cup {None}]
          /\ op' \in [Procs -> {"allow", "get", None}]
      BY DEF IndInv, IdTypes
    <2> HIDE DEF GetAgain
    <2> QED BY <2>1, <2>2, <2>3, <2>6, <2>7, PlaceStep DEF IndInv
  <1>4. BudgetInv'
    <2>1. /\ now'[p] <= clock
          /\ \A q \in Procs \ {p} :
               lim'[q] = lim[q] /\ now'[q] = now[q] /\ last'[q] = last[q]
      BY DEF IndInv, IdTypes, LimiterTypes, BudgetInv, localVars
    <2> QED BY <2>1, EntryKeepsBudget DEF IndInv, localVars
  <1>5. OneLimiterPerAddress'
    BY DEF IndInv, OneLimiterPerAddress
  <1>6. HitsInv' /\ RecentWithinHits'
    <2>1. \A q \in Procs \ {p} : lim'[q] = lim[q] /\ cur'[q] = cur[q]
      BY DEF IndInv, IdTypes, localVars
    <2> QED BY <2>1, NoFlightStep DEF IndInv, FlightSteps, localVars
  <1> QED BY <1>1, <1>2, <1>3, <1>4, <1>5, <1>6 DEF IndInv

LEMMA StampStep ==
    ASSUME IndInv, NEW p \in Procs, Stamp(p), UNCHANGED <<clock, strict, janitorVars>>
    PROVE  IndInv'
  <1> USE DEF Stamp, Goto, mapVars, callVars, entryVars, janitorVars
  <1>1. LimiterTypes'
    BY DEF IndInv, LimiterTypes, bucketVars, localVars
  <1>2. EntryTypes'
    BY DEF IndInv, EntryTypes
  <1>3. IdTypes' /\ HolderInv' /\ StrictInv'
    <2>1. /\ pc' = [pc EXCEPT ![p] = "count"] /\ addr' = addr /\ op' = op /\ m' = m
          /\ lim' = lim
      BY DEF localVars
    <2>2. used' \in used .. MaxLimiters /\ used' = used /\ "count" \in Steps
      BY LimiterAssumption DEF IndInv, IdTypes, Steps, EntrySteps, AllowSteps, ResetSteps, LimiterSteps
    <2>3. addr[p] \in Addrs /\ op[p] \in {"allow", "get"} /\ lim[p] \in 1 .. used
      BY DEF IndInv, HolderInv, EntrySteps, LimiterSteps
    <2> HIDE DEF Stamp
    <2>4. /\ m' \in [Addrs -> 1 .. used' \cup {None}]
          /\ addr' \in [Procs -> Addrs \cup {None}]
          /\ op' \in [Procs -> {"allow", "get", None}]
          /\ lim' \in [Procs -> 1 .. used' \cup {None}]
      BY <2>1, <2>2 DEF IndInv, IdTypes
    <2> QED BY <2>1, <2>2, <2>3, <2>4, PlaceStep DEF IndInv
  <1>4. BudgetInv'
    <2>1. /\ now'[p] <= clock
          /\ \A q \in Procs \ {p} :
               lim'[q] = lim[q] /\ now'[q] = now[q] /\ last'[q] = last[q]
      BY DEF IndInv, IdTypes, LimiterTypes, BudgetInv, localVars
    <2> QED BY <2>1, EntryKeepsBudget DEF IndInv, localVars
  <1>5. OneLimiterPerAddress'
    BY DEF IndInv, OneLimiterPerAddress
  <1>6. HitsInv' /\ RecentWithinHits'
    <2>1. \A q \in Procs \ {p} : lim'[q] = lim[q] /\ cur'[q] = cur[q]
      BY DEF IndInv, IdTypes, localVars
    <2> QED BY <2>1, NoFlightStep DEF IndInv, FlightSteps, localVars
  <1> QED BY <1>1, <1>2, <1>3, <1>4, <1>5, <1>6 DEF IndInv

\* An address gets a new entry with a new limiter; in strict mode only an
\* address that has none.
LEMMA CreateKeeps ==
    ASSUME IndInv, NEW p \in Procs, Create(p), pc[p] \in {"lock", "set"},
           NEW x \in {"stamp", "again"}, pc' = [pc EXCEPT ![p] = x],
           strict => m[addr[p]] = None /\ x = "stamp",
           UNCHANGED <<need, now, last, cur, callVars, clock, strict, janitorVars>>
    PROVE  IndInv'
  <1> DEFINE e == used + 1
  <1>1. PICK a \in Addrs : addr[p] = a /\ op[p] \in {"allow", "get"}
    BY DEF IndInv, HolderInv, EntrySteps
  <1>2. /\ used \in Nat /\ e \in Limiters /\ used' = e /\ e \in 1 .. MaxLimiters
        /\ clock \in Nat
    BY LimiterAssumption DEF Create, IndInv, IdTypes, LimiterTypes, Limiters
  <1>3. /\ m' = [m EXCEPT ![a] = e] /\ lim' = [lim EXCEPT ![p] = e]
        /\ tokens' = [tokens EXCEPT ![e] = Burst]
        /\ lastNano' = [lastNano EXCEPT ![e] = clock]
        /\ granted' = [granted EXCEPT ![e] = Burst]
        /\ since' = [since EXCEPT ![e] = clock]
        /\ admitted' = [admitted EXCEPT ![e] = 0]
        /\ UNCHANGED <<hits, recentMin, recentCount, prevCount, removed>>
    BY <1>1 DEF Create, New
  <1>4. UNCHANGED <<need, now, last, cur, addr, op, clock, strict, chore, ent, min, sum>>
    BY DEF callVars, janitorVars
  <1>5. LimiterTypes'
    BY <1>2, <1>3, <1>4, BucketAssumption DEF IndInv, LimiterTypes
  <1>6. EntryTypes'
    BY <1>3, <1>4 DEF IndInv, EntryTypes
  <1>7. IdTypes' /\ HolderInv' /\ StrictInv'
    <2>1. used' \in used .. MaxLimiters /\ x \in Steps
      BY <1>2 DEF Steps, EntrySteps
    <2>2. 1 .. used \subseteq 1 .. used' /\ e \in 1 .. used'
      BY <1>2
    <2>3. /\ m' \in [Addrs -> 1 .. used' \cup {None}]
          /\ lim' \in [Procs -> 1 .. used' \cup {None}]
          /\ lim'[p] \in 1 .. used'
          /\ \A q \in Procs \ {p} : lim'[q] = lim[q]
      BY <1>3, <2>2 DEF IndInv, IdTypes
    <2>4. /\ addr' \in [Procs -> Addrs \cup {None}]
          /\ op' \in [Procs -> {"allow", "get", None}]
      BY <1>4 DEF IndInv, IdTypes
    <2> QED BY <1>1, <1>4, <2>1, <2>3, <2>4, PlaceStep DEF IndInv
  <1>8. BudgetInv'
    <2>1. x \notin {"refill", "refillcas"} /\ pc[p] \notin {"refill", "refillcas"}
            /\ pc'[p] = x /\ \A q \in Procs \ {p} : pc'[q] = pc[q] /\ lim'[q] = lim[q]
      BY <1>3 DEF IndInv, IdTypes
    <2>2. ASSUME NEW l \in Limiters
          PROVE  Claimed(l)' = Claimed(l)
      <3>1. \A q \in Procs : ClaimOf(l, q)' = ClaimOf(l, q)
        BY <1>4, <2>1 DEF ClaimOf, Add
      <3> QED BY <3>1, ClaimedKept
    <2>3. Claimed(e) = 0
      <3>1. ASSUME NEW q \in Procs
            PROVE  [r \in Procs |-> ClaimOf(e, r)][q] = 0
        <4>1. pc[q] \in {"refill", "refillcas"} => lim[q] # e
          BY <1>2 DEF IndInv, HolderInv, LimiterSteps, AllowSteps
        <4> QED BY <4>1 DEF ClaimOf
      <3> QED BY <3>1, ClaimType, SumZero, LimiterAssumption DEF Claimed, IndInv
    <2> HIDE DEF e
    <2>4. /\ tokens'[e] = Burst /\ granted'[e] = Burst /\ admitted'[e] = 0
          /\ lastNano'[e] = clock /\ since'[e] = clock
      BY <1>2, <1>3 DEF IndInv, LimiterTypes
    <2>5. ASSUME NEW l \in Limiters
          PROVE  /\ tokens'[l] \in 0 .. Burst /\ lastNano'[l] <= clock
                 /\ (admitted'[l] + tokens'[l] + Claimed(l)' - granted'[l]) * Interval
                       <= lastNano'[l] - since'[l]
      <3>1. CASE l = e
        <4>1. admitted'[l] + tokens'[l] + Claimed(l)' - granted'[l] = 0
          BY <2>2, <2>3, <2>4, <3>1, BucketAssumption
        <4>2. 0 * Interval = 0
          BY BucketAssumption
        <4> QED BY <1>2, <2>4, <3>1, <4>1, <4>2, BucketAssumption
      <3>2. CASE l # e
        <4>1. /\ tokens'[l] = tokens[l] /\ granted'[l] = granted[l]
              /\ admitted'[l] = admitted[l] /\ lastNano'[l] = lastNano[l]
              /\ since'[l] = since[l]
          BY <1>3, <3>2 DEF IndInv, LimiterTypes
        <4> QED BY <2>2, <4>1 DEF IndInv, BudgetInv
      <3> QED BY <3>1, <3>2
    <2> QED BY <1>4, <2>5 DEF IndInv, BudgetInv
  <1>9. OneLimiterPerAddress'
    <2>1. ASSUME strict, NEW l \in 1 .. used'
          PROVE  l \in removed' \/ \E b \in Addrs : m'[b] = l
      <3>1. CASE l = e
        <4>1. m'[a] = e
          BY <1>3 DEF IndInv, IdTypes
        <4> QED BY <3>1, <4>1
      <3>2. CASE l # e
        <4>1. l \in 1 .. used
          BY <1>2, <3>2
        <4>2. CASE l \in removed
          BY <1>3, <4>2
        <4>3. ASSUME NEW b \in Addrs, m[b] = l
              PROVE  m'[b] = l
          <5>1. b # a
            BY <1>1, <1>2, <2>1, <4>1, <4>3, LimiterAssumption DEF Limiters
          <5> QED BY <1>3, <4>3, <5>1 DEF IndInv, IdTypes
        <4> QED BY <2>1, <4>1, <4>2, <4>3 DEF IndInv, OneLimiterPerAddress
      <3> QED BY <3>1, <3>2
    <2> QED BY <1>4, <2>1 DEF OneLimiterPerAddress
  <1>10. HitsInv' /\ RecentWithinHits'
    <2>1. \A q \in Procs \ {p} : lim'[q] = lim[q] /\ cur'[q] = cur[q]
      BY <1>3, <1>4 DEF IndInv, IdTypes
    <2> QED BY <1>3, <1>4, <2>1, NoFlightStep DEF IndInv, FlightSteps
  <1> QED BY <1>5, <1>6, <1>7, <1>8, <1>9, <1>10 DEF IndInv

LEMMA SetNewStep ==
    ASSUME IndInv, NEW p \in Procs, SetNew(p), UNCHANGED <<clock, strict, janitorVars>>
    PROVE  IndInv'
  <1>1. ~strict
    BY DEF SetNew, IndInv, StrictInv
  <1>2. /\ Create(p) /\ pc[p] \in {"lock", "set"} /\ pc' = [pc EXCEPT ![p] = "again"]
        /\ UNCHANGED <<need, now, last, cur, callVars>>
    BY DEF SetNew, Goto
  <1> QED BY <1>1, <1>2, CreateKeeps

LEMMA GetOrSetStep ==
    ASSUME IndInv, NEW p \in Procs, GetOrSet(p), UNCHANGED <<clock, strict, janitorVars>>
    PROVE  IndInv'
  <1>1. /\ pc[p] = "lock" /\ pc' = [pc EXCEPT ![p] = "stamp"]
        /\ UNCHANGED <<need, now, last, cur, callVars>>
    BY DEF GetOrSet, Goto
  <1>2. CASE m[addr[p]] = None
    <2>1. Create(p)
      BY <1>2 DEF GetOrSet
    <2> QED BY <1>1, <1>2, <2>1, CreateKeeps
  <1>3. CASE m[addr[p]] # None
    <2>1. /\ lim' = [lim EXCEPT ![p] = m[addr[p]]]
          /\ UNCHANGED <<bucketVars, mapVars, entryVars>>
      BY <1>3 DEF GetOrSet
    <2>2. addr[p] \in Addrs /\ op[p] \in {"allow", "get"}
      BY <1>1 DEF IndInv, HolderInv, EntrySteps
    <2>3. m[addr[p]] \in 1 .. used
      BY <1>3, <2>2 DEF IndInv, IdTypes
    <2>4. LimiterTypes' /\ EntryTypes'
      BY <1>1, <2>1 DEF IndInv, LimiterTypes, EntryTypes, bucketVars, entryVars, janitorVars
    <2>5. IdTypes' /\ HolderInv' /\ StrictInv'
      <3>1. used' \in used .. MaxLimiters /\ used' = used /\ "stamp" \in Steps
        BY <2>1, LimiterAssumption DEF IndInv, IdTypes, mapVars, Steps, EntrySteps
      <3>2. /\ lim' \in [Procs -> 1 .. used' \cup {None}] /\ lim'[p] \in 1 .. used'
            /\ \A q \in Procs \ {p} : lim'[q] = lim[q]
        BY <2>1, <2>3, <3>1 DEF IndInv, IdTypes
      <3>3. /\ m' \in [Addrs -> 1 .. used' \cup {None}]
            /\ addr' \in [Procs -> Addrs \cup {None}]
            /\ op' \in [Procs -> {"allow", "get", None}]
            /\ addr' = addr /\ op' = op
        BY <1>1, <2>1, <3>1 DEF IndInv, IdTypes, mapVars, callVars
      <3>4. chore' = chore /\ ent' = ent
        BY DEF janitorVars
      <3> QED BY <1>1, <2>2, <3>1, <3>2, <3>3, <3>4, PlaceStep DEF IndInv
    <2>6. \A q \in Procs \ {p} : lim'[q] = lim[q]
      BY <2>1 DEF IndInv, IdTypes
    <2>7. BudgetInv'
      BY <1>1, <2>1, <2>6, EntryKeepsBudget DEF IndInv, BudgetInv
    <2>8. OneLimiterPerAddress'
      BY <2>1 DEF IndInv, OneLimiterPerAddress, mapVars
    <2>9. HitsInv' /\ RecentWithinHits'
      BY <1>1, <2>1, <2>6, NoFlightStep DEF IndInv, FlightSteps, entryVars, janitorVars
    <2> QED BY <2>4, <2>5, <2>7, <2>8, <2>9 DEF IndInv
  <1> QED BY <1>2, <1>3

LEMMA CountStep ==
    ASSUME IndInv, NEW p \in Procs, Count(p), UNCHANGED <<clock, strict, janitorVars>>
    PROVE  IndInv'
  <1> USE DEF Count, Goto, localVars
  <1>1. PICK e \in Limiters : lim[p] = e
    <2>1. used \in 0 .. MaxLimiters /\ MaxLimiters \in Nat /\ lim[p] \in 1 .. used
      BY LimiterAssumption DEF IndInv, IdTypes, HolderInv, LimiterSteps, EntrySteps
    <2> QED BY <2>1 DEF Limiters
  <1>2. PICK x \in {"rotate", "add"} : pc' = [pc EXCEPT ![p] = x]
    OBVIOUS
  <1>3. pc[p] = "count" /\ pc'[p] = x
    BY <1>2 DEF IndInv, IdTypes
  <1>4. UNCHANGED <<bucketVars, mapVars, callVars, min, sum, chore, ent, now, need, lim>>
    BY DEF janitorVars
  <1>5. /\ hits[e] \in Nat /\ recentCount[e] \in Nat /\ prevCount[e] \in Nat
        /\ recentMin[e] \in Int /\ cur[p] \in Nat
    BY DEF IndInv, LimiterTypes, EntryTypes
  <1>6. LimiterTypes'
    BY <1>1, <1>4, <1>5 DEF IndInv, LimiterTypes, bucketVars
  <1>7. EntryTypes'
    BY <1>1, <1>4, <1>5 DEF IndInv, EntryTypes
  <1>8. IdTypes' /\ HolderInv' /\ StrictInv'
    <2>1. used' = used /\ used' \in used .. MaxLimiters /\ x \in Steps
      BY <1>4, LimiterAssumption DEF IndInv, IdTypes, mapVars, Steps, EntrySteps
    <2>2. addr[p] \in Addrs /\ op[p] \in {"allow", "get"} /\ lim[p] \in 1 .. used
      BY <1>3 DEF IndInv, HolderInv, EntrySteps, LimiterSteps
    <2>3. addr' = addr /\ op' = op /\ m' = m
      BY <1>4 DEF mapVars, callVars
    <2> HIDE DEF Count
    <2>4. /\ m' \in [Addrs -> 1 .. used' \cup {None}]
          /\ addr' \in [Procs -> Addrs \cup {None}]
          /\ op' \in [Procs -> {"allow", "get", None}]
          /\ lim' \in [Procs -> 1 .. used' \cup {None}]
      BY <1>4, <2>1, <2>3 DEF IndInv, IdTypes
    <2> QED BY <1>2, <1>4, <2>1, <2>2, <2>3, <2>4, PlaceStep DEF IndInv
  <1>9. BudgetInv'
    <2>1. \A q \in Procs \ {p} : last'[q] = last[q]
      BY DEF IndInv, LimiterTypes
    <2>2. now'[p] <= clock
      BY <1>4 DEF IndInv, BudgetInv
    <2> HIDE DEF Count
    <2> QED BY <1>2, <1>3, <1>4, <2>1, <2>2, EntryKeepsBudget DEF IndInv
  <1>10. OneLimiterPerAddress'
    BY <1>4 DEF IndInv, OneLimiterPerAddress, mapVars
  <1>11. HitsInv' /\ RecentWithinHits'
    <2>1. /\ hits'[e] = hits[e] + 1 /\ recentCount'[e] = recentCount[e]
          /\ prevCount'[e] = prevCount[e]
      BY <1>1 DEF IndInv, EntryTypes
    <2>2. FlightOf(e, p) = 0 /\ FlightOf(e, p)' = 1
      BY <1>1, <1>2, <1>3, <1>4 DEF IndInv, LimiterTypes, FlightOf
    <2>3. \A q \in Procs \ {p} :
            lim'[q] = lim[q] /\ cur'[q] = cur[q] /\ pc'[q] = pc[q]
      BY <1>2, <1>4 DEF IndInv, IdTypes, LimiterTypes
    <2>4. \A k \in Limiters \ {e} :
            /\ hits'[k] = hits[k] /\ recentCount'[k] = recentCount[k]
            /\ prevCount'[k] = prevCount[k]
      BY <1>1 DEF IndInv, EntryTypes
    <2>5. lim'[p] = e
      BY <1>1, <1>4
    <2> HIDE DEF Count
    <2>6. /\ hits'[e] \in Nat /\ recentCount'[e] \in Nat /\ prevCount'[e] \in Nat
          /\ FlightOf(e, p)' \in Nat /\ hits'[e] >= hits[e]
          /\ recentCount'[e] + FlightOf(e, p)' - hits'[e]
               <= recentCount[e] + FlightOf(e, p) - hits[e]
          /\ prevCount'[e] + recentCount'[e] + FlightOf(e, p)' - hits'[e]
               <= prevCount[e] + recentCount[e] + FlightOf(e, p) - hits[e]
      BY <1>5, <2>1, <2>2
    <2> QED BY <1>1, <1>4, <2>3, <2>4, <2>5, <2>6, FlightStep DEF IndInv
  <1> QED BY <1>6, <1>7, <1>8, <1>9, <1>10, <1>11 DEF IndInv

LEMMA WinRotationStep ==
    ASSUME IndInv, NEW p \in Procs, WinRotation(p), UNCHANGED <<clock, strict, janitorVars>>
    PROVE  IndInv'
  <1> USE DEF WinRotation, Goto, localVars
  <1>1. PICK e \in Limiters : lim[p] = e
    <2>1. used \in 0 .. MaxLimiters /\ MaxLimiters \in Nat /\ lim[p] \in 1 .. used
      BY LimiterAssumption DEF IndInv, IdTypes, HolderInv, LimiterSteps, EntrySteps
    <2> QED BY <2>1 DEF Limiters
  <1>2. PICK x \in {"swap", "add"} : pc' = [pc EXCEPT ![p] = x]
    OBVIOUS
  <1>3. pc[p] = "rotate" /\ pc'[p] = x
    BY <1>2 DEF IndInv, IdTypes
  <1>4. UNCHANGED <<bucketVars, mapVars, callVars, min, sum, chore, ent, now, need, lim>>
    BY DEF janitorVars
  <1>5. /\ hits[e] \in Nat /\ recentCount[e] \in Nat /\ prevCount[e] \in Nat
        /\ recentMin[e] \in Int /\ cur[p] \in Nat
    BY DEF IndInv, LimiterTypes, EntryTypes
  <1>6. LimiterTypes'
    BY <1>1, <1>4, <1>5 DEF IndInv, LimiterTypes, bucketVars
  <1>7. EntryTypes'
    <2>1. MinuteOf(now[p]) \in Int
      BY IPMapAssumption DEF MinuteOf, IndInv, LimiterTypes
    <2> QED BY <1>1, <1>4, <1>5, <2>1 DEF IndInv, EntryTypes
  <1>8. IdTypes' /\ HolderInv' /\ StrictInv'
    <2>1. used' = used /\ used' \in used .. MaxLimiters /\ x \in Steps
      BY <1>4, LimiterAssumption DEF IndInv, IdTypes, mapVars, Steps, EntrySteps
    <2>2. addr[p] \in Addrs /\ op[p] \in {"allow", "get"} /\ lim[p] \in 1 .. used
      BY <1>3 DEF IndInv, HolderInv, EntrySteps, LimiterSteps
    <2>3. addr' = addr /\ op' = op /\ m' = m
      BY <1>4 DEF mapVars, callVars
    <2> HIDE DEF WinRotation
    <2>4. /\ m' \in [Addrs -> 1 .. used' \cup {None}]
          /\ addr' \in [Procs -> Addrs \cup {None}]
          /\ op' \in [Procs -> {"allow", "get", None}]
          /\ lim' \in [Procs -> 1 .. used' \cup {None}]
      BY <1>4, <2>1, <2>3 DEF IndInv, IdTypes
    <2> QED BY <1>2, <1>4, <2>1, <2>2, <2>3, <2>4, PlaceStep DEF IndInv
  <1>9. BudgetInv'
    <2>1. \A q \in Procs \ {p} : last'[q] = last[q]
      BY DEF IndInv, LimiterTypes
    <2>2. now'[p] <= clock
      BY <1>4 DEF IndInv, BudgetInv
    <2> HIDE DEF WinRotation
    <2> QED BY <1>2, <1>3, <1>4, <2>1, <2>2, EntryKeepsBudget DEF IndInv
  <1>10. OneLimiterPerAddress'
    BY <1>4 DEF IndInv, OneLimiterPerAddress, mapVars
  <1>11. HitsInv' /\ RecentWithinHits'
    <2>1. /\ hits'[e] = hits[e] /\ recentCount'[e] = recentCount[e]
          /\ prevCount'[e] = prevCount[e]
      BY <1>1 DEF IndInv, EntryTypes
    <2>2. FlightOf(e, p) = 1 /\ FlightOf(e, p)' = 1
      BY <1>1, <1>2, <1>3, <1>4 DEF IndInv, LimiterTypes, FlightOf
    <2>3. \A q \in Procs \ {p} :
            lim'[q] = lim[q] /\ cur'[q] = cur[q] /\ pc'[q] = pc[q]
      BY <1>2, <1>4 DEF IndInv, IdTypes, LimiterTypes
    <2>4. \A k \in Limiters \ {e} :
            /\ hits'[k] = hits[k] /\ recentCount'[k] = recentCount[k]
            /\ prevCount'[k] = prevCount[k]
      BY <1>1 DEF IndInv, EntryTypes
    <2>5. lim'[p] = e
      BY <1>1, <1>4
    <2> HIDE DEF WinRotation
    <2>6. /\ hits'[e] \in Nat /\ recentCount'[e] \in Nat /\ prevCount'[e] \in Nat
          /\ FlightOf(e, p)' \in Nat /\ hits'[e] >= hits[e]
          /\ recentCount'[e] + FlightOf(e, p)' - hits'[e]
               <= recentCount[e] + FlightOf(e, p) - hits[e]
          /\ prevCount'[e] + recentCount'[e] + FlightOf(e, p)' - hits'[e]
               <= prevCount[e] + recentCount[e] + FlightOf(e, p) - hits[e]
      BY <1>5, <2>1, <2>2
    <2> QED BY <1>1, <1>4, <2>3, <2>4, <2>5, <2>6, FlightStep DEF IndInv
  <1> QED BY <1>6, <1>7, <1>8, <1>9, <1>10, <1>11 DEF IndInv

LEMMA SwapCountStep ==
    ASSUME IndInv, NEW p \in Procs, SwapCount(p), UNCHANGED <<clock, strict, janitorVars>>
    PROVE  IndInv'
  <1> USE DEF SwapCount, Goto, localVars
  <1>1. PICK e \in Limiters : lim[p] = e
    <2>1. used \in 0 .. MaxLimiters /\ MaxLimiters \in Nat /\ lim[p] \in 1 .. used
      BY LimiterAssumption DEF IndInv, IdTypes, HolderInv, LimiterSteps, EntrySteps
    <2> QED BY <2>1 DEF Limiters
  <1>2. PICK x \in {"prev"} : pc' = [pc EXCEPT ![p] = x]
    OBVIOUS
  <1>3. pc[p] = "swap" /\ pc'[p] = x
    BY <1>2 DEF IndInv, IdTypes
  <1>4. UNCHANGED <<bucketVars, mapVars, callVars, min, sum, chore, ent, now, need, lim>>
    BY DEF janitorVars
  <1>5. /\ hits[e] \in Nat /\ recentCount[e] \in Nat /\ prevCount[e] \in Nat
        /\ recentMin[e] \in Int /\ cur[p] \in Nat
    BY DEF IndInv, LimiterTypes, EntryTypes
  <1>6. LimiterTypes'
    BY <1>1, <1>4, <1>5 DEF IndInv, LimiterTypes, bucketVars
  <1>7. EntryTypes'
    BY <1>1, <1>4, <1>5 DEF IndInv, EntryTypes
  <1>8. IdTypes' /\ HolderInv' /\ StrictInv'
    <2>1. used' = used /\ used' \in used .. MaxLimiters /\ x \in Steps
      BY <1>4, LimiterAssumption DEF IndInv, IdTypes, mapVars, Steps, EntrySteps
    <2>2. addr[p] \in Addrs /\ op[p] \in {"allow", "get"} /\ lim[p] \in 1 .. used
      BY <1>3 DEF IndInv, HolderInv, EntrySteps, LimiterSteps
    <2>3. addr' = addr /\ op' = op /\ m' = m
      BY <1>4 DEF mapVars, callVars
    <2> HIDE DEF SwapCount
    <2>4. /\ m' \in [Addrs -> 1 .. used' \cup {None}]
          /\ addr' \in [Procs -> Addrs \cup {None}]
          /\ op' \in [Procs -> {"allow", "get", None}]
          /\ lim' \in [Procs -> 1 .. used' \cup {None}]
      BY <1>4, <2>1, <2>3 DEF IndInv, IdTypes
    <2> QED BY <1>2, <1>4, <2>1, <2>2, <2>3, <2>4, PlaceStep DEF IndInv
  <1>9. BudgetInv'
    <2>1. \A q \in Procs \ {p} : last'[q] = last[q]
      BY DEF IndInv, LimiterTypes
    <2>2. now'[p] <= clock
      BY <1>4 DEF IndInv, BudgetInv
    <2> HIDE DEF SwapCount
    <2> QED BY <1>2, <1>3, <1>4, <2>1, <2>2, EntryKeepsBudget DEF IndInv
  <1>10. OneLimiterPerAddress'
    BY <1>4 DEF IndInv, OneLimiterPerAddress, mapVars
  <1>11. HitsInv' /\ RecentWithinHits'
    <2>1. /\ hits'[e] = hits[e] /\ recentCount'[e] = 0
          /\ prevCount'[e] = prevCount[e]
      BY <1>1 DEF IndInv, EntryTypes
    <2>2. FlightOf(e, p) = 1 /\ FlightOf(e, p)' = recentCount[e] + 1
      BY <1>1, <1>2, <1>3, <1>4 DEF IndInv, LimiterTypes, FlightOf
    <2>3. \A q \in Procs \ {p} :
            lim'[q] = lim[q] /\ cur'[q] = cur[q] /\ pc'[q] = pc[q]
      BY <1>2, <1>4 DEF IndInv, IdTypes, LimiterTypes
    <2>4. \A k \in Limiters \ {e} :
            /\ hits'[k] = hits[k] /\ recentCount'[k] = recentCount[k]
            /\ prevCount'[k] = prevCount[k]
      BY <1>1 DEF IndInv, EntryTypes
    <2>5. lim'[p] = e
      BY <1>1, <1>4
    <2> HIDE DEF SwapCount
    <2>6. /\ hits'[e] \in Nat /\ recentCount'[e] \in Nat /\ prevCount'[e] \in Nat
          /\ FlightOf(e, p)' \in Nat /\ hits'[e] >= hits[e]
          /\ recentCount'[e] + FlightOf(e, p)' - hits'[e]
               <= recentCount[e] + FlightOf(e, p) - hits[e]
          /\ prevCount'[e] + recentCount'[e] + FlightOf(e, p)' - hits'[e]
               <= prevCount[e] + recentCount[e] + FlightOf(e, p) - hits[e]
      BY <1>5, <2>1, <2>2
    <2> QED BY <1>1, <1>4, <2>3, <2>4, <2>5, <2>6, FlightStep DEF IndInv
  <1> QED BY <1>6, <1>7, <1>8, <1>9, <1>10, <1>11 DEF IndInv

LEMMA StorePrevStep ==
    ASSUME IndInv, NEW p \in Procs, StorePrev(p), UNCHANGED <<clock, strict, janitorVars>>
    PROVE  IndInv'
  <1> USE DEF StorePrev, Goto, localVars
  <1>1. PICK e \in Limiters : lim[p] = e
    <2>1. used \in 0 .. MaxLimiters /\ MaxLimiters \in Nat /\ lim[p] \in 1 .. used
      BY LimiterAssumption DEF IndInv, IdTypes, HolderInv, LimiterSteps, EntrySteps
    <2> QED BY <2>1 DEF Limiters
  <1>2. PICK x \in {"add"} : pc' = [pc EXCEPT ![p] = x]
    OBVIOUS
  <1>3. pc[p] = "prev" /\ pc'[p] = x
    BY <1>2 DEF IndInv, IdTypes
  <1>4. UNCHANGED <<bucketVars, mapVars, callVars, min, sum, chore, ent, now, need, lim>>
    BY DEF janitorVars
  <1>5. /\ hits[e] \in Nat /\ recentCount[e] \in Nat /\ prevCount[e] \in Nat
        /\ recentMin[e] \in Int /\ cur[p] \in Nat
    BY DEF IndInv, LimiterTypes, EntryTypes
  <1>6. LimiterTypes'
    BY <1>1, <1>4, <1>5 DEF IndInv, LimiterTypes, bucketVars
  <1>7. EntryTypes'
    BY <1>1, <1>4, <1>5 DEF IndInv, EntryTypes
  <1>8. IdTypes' /\ HolderInv' /\ StrictInv'
    <2>1. used' = used /\ used' \in used .. MaxLimiters /\ x \in Steps
      BY <1>4, LimiterAssumption DEF IndInv, IdTypes, mapVars, Steps, EntrySteps
    <2>2. addr[p] \in Addrs /\ op[p] \in {"allow", "get"} /\ lim[p] \in 1 .. used
      BY <1>3 DEF IndInv, HolderInv, EntrySteps, LimiterSteps
    <2>3. addr' = addr /\ op' = op /\ m' = m
      BY <1>4 DEF mapVars, callVars
    <2> HIDE DEF StorePrev
    <2>4. /\ m' \in [Addrs -> 1 .. used' \cup {None}]
          /\ addr' \in [Procs -> Addrs \cup {None}]
          /\ op' \in [Procs -> {"allow", "get", None}]
          /\ lim' \in [Procs -> 1 .. used' \cup {None}]
      BY <1>4, <2>1, <2>3 DEF IndInv, IdTypes
    <2> QED BY <1>2, <1>4, <2>1, <2>2, <2>3, <2>4, PlaceStep DEF IndInv
  <1>9. BudgetInv'
    <2>1. \A q \in Procs \ {p} : last'[q] = last[q]
      BY DEF IndInv, LimiterTypes
    <2>2. now'[p] <= clock
      BY <1>4 DEF IndInv, BudgetInv
    <2> HIDE DEF StorePrev
    <2> QED BY <1>2, <1>3, <1>4, <2>1, <2>2, EntryKeepsBudget DEF IndInv
  <1>10. OneLimiterPerAddress'
    BY <1>4 DEF IndInv, OneLimiterPerAddress, mapVars
  <1>11. HitsInv' /\ RecentWithinHits'
    <2>1. /\ hits'[e] = hits[e] /\ recentCount'[e] = recentCount[e]
          /\ prevCount'[e] = cur[p]
      BY <1>1 DEF IndInv, EntryTypes
    <2>2. FlightOf(e, p) = cur[p] + 1 /\ FlightOf(e, p)' = 1
      BY <1>1, <1>2, <1>3, <1>4 DEF IndInv, LimiterTypes, FlightOf
    <2>3. \A q \in Procs \ {p} :
            lim'[q] = lim[q] /\ cur'[q] = cur[q] /\ pc'[q] = pc[q]
      BY <1>2, <1>4 DEF IndInv, IdTypes, LimiterTypes
    <2>4. \A k \in Limiters \ {e} :
            /\ hits'[k] = hits[k] /\ recentCount'[k] = recentCount[k]
            /\ prevCount'[k] = prevCount[k]
      BY <1>1 DEF IndInv, EntryTypes
    <2>5. lim'[p] = e
      BY <1>1, <1>4
    <2> HIDE DEF StorePrev
    <2>6. /\ hits'[e] \in Nat /\ recentCount'[e] \in Nat /\ prevCount'[e] \in Nat
          /\ FlightOf(e, p)' \in Nat /\ hits'[e] >= hits[e]
          /\ recentCount'[e] + FlightOf(e, p)' - hits'[e]
               <= recentCount[e] + FlightOf(e, p) - hits[e]
          /\ prevCount'[e] + recentCount'[e] + FlightOf(e, p)' - hits'[e]
               <= prevCount[e] + recentCount[e] + FlightOf(e, p) - hits[e]
      BY <1>5, <2>1, <2>2
    <2> QED BY <1>1, <1>4, <2>3, <2>4, <2>5, <2>6, FlightStep DEF IndInv
  <1> QED BY <1>6, <1>7, <1>8, <1>9, <1>10, <1>11 DEF IndInv

LEMMA AddRecentStep ==
    ASSUME IndInv, NEW p \in Procs, AddRecent(p), UNCHANGED <<clock, strict, janitorVars>>
    PROVE  IndInv'
  <1> USE DEF AddRecent, Goto, Return
  <1>1. PICK e \in Limiters : lim[p] = e
    <2>1. used \in 0 .. MaxLimiters /\ MaxLimiters \in Nat /\ lim[p] \in 1 .. used
      BY LimiterAssumption DEF IndInv, IdTypes, HolderInv, LimiterSteps, EntrySteps
    <2> QED BY <2>1 DEF Limiters
  <1>2. PICK x \in {"idle", "allow"} :
          /\ pc' = [pc EXCEPT ![p] = x]
          /\ lim' = [lim EXCEPT ![p] = IF x = "idle" THEN None ELSE lim[p]]
          /\ now' = [now EXCEPT ![p] = IF x = "idle" THEN 0 ELSE now[p]]
    <2>1. op[p] \in {"allow", "get"}
      BY DEF IndInv, HolderInv, EntrySteps
    <2>2. CASE op[p] = "get"
      BY <2>2
    <2>3. CASE op[p] = "allow"
      BY <2>3 DEF IndInv, IdTypes, LimiterTypes
    <2> QED BY <2>1, <2>2, <2>3
  <1>3. pc[p] = "add" /\ pc'[p] = x
    BY <1>2 DEF IndInv, IdTypes
  <1>4. /\ UNCHANGED <<bucketVars, mapVars, min, sum, chore, ent, hits, prevCount>>
        /\ addr' = [addr EXCEPT ![p] = None] /\ op' = [op EXCEPT ![p] = None]
        /\ recentCount' = [recentCount EXCEPT ![e] = @ + 1]
    BY <1>1 DEF janitorVars
  <1>5. /\ hits[e] \in Nat /\ recentCount[e] \in Nat /\ prevCount[e] \in Nat
    BY DEF IndInv, EntryTypes
  <1>6. LimiterTypes'
    BY <1>4 DEF IndInv, LimiterTypes, bucketVars
  <1>7. EntryTypes'
    BY <1>4, <1>5 DEF IndInv, EntryTypes
  <1>8. IdTypes' /\ HolderInv' /\ StrictInv'
    <2>1. /\ used' = used /\ used' \in used .. MaxLimiters /\ m' = m
          /\ x \in Steps /\ x \notin EntrySteps /\ "idle" \notin LimiterSteps
      BY <1>4, LimiterAssumption DEF IndInv, IdTypes, mapVars, Steps, AllowSteps,
         ResetSteps, EntrySteps, LimiterSteps
    <2>2. lim[p] \in 1 .. used
      BY <1>3 DEF IndInv, HolderInv, EntrySteps, LimiterSteps
    <2> HIDE DEF AddRecent
    <2>3. /\ m' \in [Addrs -> 1 .. used' \cup {None}]
          /\ lim' \in [Procs -> 1 .. used' \cup {None}]
          /\ x \in LimiterSteps => lim'[p] \in 1 .. used'
          /\ \A q \in Procs \ {p} : lim'[q] = lim[q]
      BY <1>2, <2>1, <2>2 DEF IndInv, IdTypes
    <2>4. /\ addr' \in [Procs -> Addrs \cup {None}]
          /\ op' \in [Procs -> {"allow", "get", None}]
          /\ \A q \in Procs \ {p} : addr'[q] = addr[q] /\ op'[q] = op[q]
      BY <1>4 DEF IndInv, IdTypes
    <2>5. x \notin {"set", "again"}
      OBVIOUS
    <2> QED BY <1>2, <1>4, <2>1, <2>3, <2>4, <2>5, PlaceStep DEF IndInv
  <1>9. BudgetInv'
    <2>1. \A q \in Procs \ {p} :
            lim'[q] = lim[q] /\ now'[q] = now[q] /\ last'[q] = last[q]
      BY <1>2 DEF IndInv, IdTypes, LimiterTypes
    <2>2. now'[p] <= clock
      BY <1>2 DEF IndInv, BudgetInv, LimiterTypes
    <2> HIDE DEF AddRecent
    <2> QED BY <1>2, <1>3, <1>4, <2>1, <2>2, EntryKeepsBudget DEF IndInv
  <1>10. OneLimiterPerAddress'
    BY <1>4 DEF IndInv, OneLimiterPerAddress, mapVars
  <1>11. HitsInv' /\ RecentWithinHits'
    <2>1. /\ hits'[e] = hits[e] /\ recentCount'[e] = recentCount[e] + 1
          /\ prevCount'[e] = prevCount[e]
      BY <1>4 DEF IndInv, EntryTypes
    <2>2. FlightOf(e, p) = 1 /\ FlightOf(e, p)' = 0 /\ pc'[p] \notin FlightSteps
      BY <1>1, <1>3 DEF FlightOf, FlightSteps
    <2>3. \A q \in Procs \ {p} :
            lim'[q] = lim[q] /\ cur'[q] = cur[q] /\ pc'[q] = pc[q]
      BY <1>2 DEF IndInv, IdTypes, LimiterTypes
    <2>4. \A k \in Limiters \ {e} :
            /\ hits'[k] = hits[k] /\ recentCount'[k] = recentCount[k]
            /\ prevCount'[k] = prevCount[k]
      BY <1>4 DEF IndInv, EntryTypes
    <2> HIDE DEF AddRecent
    <2>5. /\ hits'[e] \in Nat /\ recentCount'[e] \in Nat /\ prevCount'[e] \in Nat
          /\ FlightOf(e, p)' \in Nat /\ hits'[e] >= hits[e]
          /\ recentCount'[e] + FlightOf(e, p)' - hits'[e]
               <= recentCount[e] + FlightOf(e, p) - hits[e]
          /\ prevCount'[e] + recentCount'[e] + FlightOf(e, p)' - hits'[e]
               <= prevCount[e] + recentCount[e] + FlightOf(e, p) - hits[e]
      BY <1>5, <2>1, <2>2
    <2> QED BY <1>1, <1>4, <2>2, <2>3, <2>4, <2>5, FlightStep DEF IndInv
  <1> QED BY <1>6, <1>7, <1>8, <1>9, <1>10, <1>11 DEF IndInv

LEMMA GetOrCreateStep ==
    ASSUME IndInv, NEW p \in Procs, GetOrCreate(p), UNCHANGED <<clock, strict, janitorVars>>
    PROVE  IndInv'
  BY FindStep, GetOrSetStep, SetNewStep, GetAgainStep, StampStep, CountStep,
     WinRotationStep, SwapCountStep, StorePrevStep, AddRecentStep DEF GetOrCreate

-----------------------------------------------------------------------------
(* Steps of the janitor and of the clock                                   *)

\* The janitor touches nothing of the goroutines and the entries.
LEMMA JanitorKeeps ==
    ASSUME IndInv, UNCHANGED <<clock, limiterVars, entryVars, callVars, strict>>,
           UNCHANGED used, m' \in [Addrs -> 1 .. used \cup {None}],
           ent' \in 1 .. used \cup {None}, min' \in Nat, sum' \in Nat,
           chore' \in {"prev", "cur", "hits"} => ent' \in 1 .. used,
           OneLimiterPerAddress',
           chore' = "cur" => sum' + recentCount[ent'] + InFlight(ent)' <= hits[ent'],
           chore' = "hits" => sum' <= hits[ent']
    PROVE  IndInv'
  <1> USE DEF limiterVars, localVars, bucketVars, entryVars, callVars
  <1>1. LimiterTypes' /\ EntryTypes'
    BY DEF IndInv, LimiterTypes, EntryTypes
  <1>2. IdTypes' /\ HolderInv' /\ StrictInv'
    BY DEF IndInv, IdTypes, HolderInv, StrictInv
  <1>3. BudgetInv'
    BY BudgetUntouched DEF IndInv, BudgetInv, ClaimOf, Add
  <1>4. \A e \in Limiters : InFlight(e)' = InFlight(e)
    BY FlightKept DEF FlightOf
  <1>5. HitsInv' /\ RecentWithinHits'
    BY <1>4 DEF IndInv, HitsInv, RecentWithinHits
  <1> QED BY <1>1, <1>2, <1>3, <1>5 DEF IndInv

LEMMA JanitorStep ==
    ASSUME IndInv, Janitor, UNCHANGED <<clock, limiterVars, entryVars, callVars, strict>>
    PROVE  IndInv'
  <1> DEFINE Quiet == UNCHANGED <<clock, limiterVars, entryVars, callVars, strict>>
  <1>1. /\ used \in Nat /\ MaxLimiters \in Nat /\ used <= MaxLimiters
        /\ min \in Nat /\ sum \in Nat /\ clock \in Nat /\ ent \in 1 .. used \cup {None}
        /\ m \in [Addrs -> 1 .. used \cup {None}]
    BY LimiterAssumption DEF IndInv, IdTypes, EntryTypes, LimiterTypes
  <1>2. ASSUME NEW e \in 1 .. used
        PROVE  /\ e \in Limiters
               /\ hits[e] \in Nat /\ recentCount[e] \in Nat /\ prevCount[e] \in Nat
               /\ InFlight(e) \in Nat
               /\ prevCount[e] + recentCount[e] + InFlight(e) <= hits[e]
    <2>1. e \in Limiters
      BY <1>1 DEF Limiters
    <2> QED BY <2>1, FlightType DEF IndInv, EntryTypes, HitsInv
  <1>3. OneLimiterPerAddress /\ used' = used /\ UNCHANGED <<m, removed>> => OneLimiterPerAddress'
    BY DEF OneLimiterPerAddress
  <1>4. ASSUME NEW e \in 1 .. used PROVE InFlight(e)' = InFlight(e)
    BY FlightKept DEF FlightOf, limiterVars, localVars
  <1>5. ASSUME NEW what \in {"evict", "purge", "recent"}, ChoreBegin(what), UNCHANGED mapVars
        PROVE  IndInv'
    <2>1. /\ chore' = what /\ UNCHANGED <<used, m, removed, ent, sum>> /\ min' = clock
      BY <1>5 DEF ChoreBegin, mapVars
    <2> QED BY <1>1, <1>3, <2>1, JanitorKeeps DEF IndInv
  <1>6. ASSUME NEW a \in Addrs, Collect(a) PROVE IndInv'
    <2>1. /\ chore' \in {"evict", "purge"}
          /\ UNCHANGED <<used, m, removed, ent, sum, min>>
      BY <1>6 DEF Collect, mapVars
    <2> QED BY <1>1, <1>3, <2>1, JanitorKeeps DEF IndInv
  <1>7. ASSUME NEW a \in Addrs, Delete(a) PROVE IndInv'
    <2>1. /\ chore' \in {"evict", "purge"} /\ UNCHANGED <<used, ent, sum, min>>
          /\ m' = [m EXCEPT ![a] = None] /\ removed' = removed \cup ({m[a]} \ {None})
      BY <1>7 DEF Delete
    <2>2. OneLimiterPerAddress'
      <3>1. ASSUME strict, NEW l \in 1 .. used
            PROVE  l \in removed' \/ \E b \in Addrs : m'[b] = l
        <4>1. l # None
          BY <1>1, LimiterAssumption DEF Limiters
        <4>2. CASE m[a] = l
          BY <2>1, <4>1, <4>2
        <4>3. ASSUME NEW b \in Addrs, b # a, m[b] = l PROVE m'[b] = l
          BY <1>1, <2>1, <4>3
        <4>4. l \in removed \/ \E b \in Addrs : m[b] = l
          BY <3>1 DEF IndInv, OneLimiterPerAddress
        <4> QED BY <2>1, <4>2, <4>3, <4>4
      <3> QED BY <2>1, <3>1 DEF OneLimiterPerAddress
    <2>3. m' \in [Addrs -> 1 .. used \cup {None}]
      BY <1>1, <2>1
    <2> QED BY <1>1, <2>1, <2>2, <2>3, JanitorKeeps
  <1>8. ASSUME NEW a \in Addrs, ReadMin(a) PROVE IndInv'
    <2>1. UNCHANGED <<used, m, removed>> /\ sum' = 0
      BY <1>8 DEF ReadMin, mapVars
    <2>2. CASE m[a] = None
      <3>1. chore' = "recent" /\ ent' = ent /\ min' = min
        BY <1>8, <2>2 DEF ReadMin
      <3> QED BY <1>1, <1>3, <2>1, <3>1, JanitorKeeps DEF IndInv
    <2>3. CASE m[a] # None
      <3>1. chore' \in {"prev", "cur"} /\ ent' = m[a] /\ min' = clock
        BY <1>8, <2>3 DEF ReadMin
      <3>2. PICK e \in 1 .. used : ent' = e
        BY <1>1, <2>3, <3>1
      <3>3. InFlight(ent)' = InFlight(e)
        BY <1>4, <3>2
      <3>4. sum' + recentCount[ent'] + InFlight(ent)' <= hits[ent']
        BY <1>2, <2>1, <3>2, <3>3
      <3>5. ent' \in 1 .. used \cup {None} /\ ent' \in 1 .. used
        BY <3>2
      <3> QED BY <1>1, <1>3, <2>1, <3>1, <3>4, <3>5, JanitorKeeps DEF IndInv
    <2> QED BY <2>2, <2>3
  <1>9. ASSUME ReadPrev PROVE IndInv'
    <2>1. /\ UNCHANGED <<used, m, removed, ent, min>> /\ chore = "prev" /\ chore' = "cur"
          /\ sum' = (prevCount[ent] * (Minute - (min % Minute))) \div Minute
      BY <1>9 DEF ReadPrev, mapVars
    <2>2. PICK e \in 1 .. used : ent = e
      BY <2>1 DEF IndInv, HolderInv
    <2>3. sum' \in Nat /\ sum' <= prevCount[e]
      BY <1>1, <1>2, <2>1, <2>2, ShareBound, IPMapAssumption
    <2>4. InFlight(ent)' = InFlight(e)
      BY <1>4, <2>1, <2>2
    <2>5. sum' + recentCount[ent'] + InFlight(ent)' <= hits[ent']
      BY <1>2, <2>1, <2>2, <2>3, <2>4
    <2> QED BY <1>1, <1>3, <2>1, <2>2, <2>3, <2>5, JanitorKeeps DEF IndInv
  <1>10. ASSUME ReadCur PROVE IndInv'
    <2>1. /\ UNCHANGED <<used, m, removed, ent, min>> /\ chore = "cur" /\ chore' = "hits"
          /\ sum' = sum + recentCount[ent]
      BY <1>10 DEF ReadCur, mapVars
    <2>2. PICK e \in 1 .. used : ent = e
      BY <2>1 DEF IndInv, HolderInv
    <2>3. sum + recentCount[e] + InFlight(e) <= hits[e]
      BY <2>1, <2>2 DEF IndInv, HitsInv
    <2>4. sum' \in Nat /\ sum' <= hits[ent']
      BY <1>1, <1>2, <2>1, <2>2, <2>3
    <2> QED BY <1>1, <1>3, <2>1, <2>2, <2>4, JanitorKeeps DEF IndInv
  <1>11. ASSUME ReadHits PROVE IndInv'
    <2>1. /\ UNCHANGED <<used, m, removed, min>> /\ chore' = "recent" /\ ent' = None
          /\ sum' = 0
      BY <1>11 DEF ReadHits, mapVars
    <2> QED BY <1>1, <1>3, <2>1, JanitorKeeps DEF IndInv
  <1>12. ASSUME ChoreEnd PROVE IndInv'
    <2>1. /\ UNCHANGED <<used, m, removed, ent, sum>> /\ chore' = None /\ min' = 0
      BY <1>12 DEF ChoreEnd, mapVars
    <2>2. chore' \notin {"prev", "cur", "hits"}
      BY <2>1, IPMapAssumption DEF ChoreSteps
    <2> QED BY <1>1, <1>3, <2>1, <2>2, JanitorKeeps DEF IndInv
  <1> QED BY <1>5, <1>6, <1>7, <1>8, <1>9, <1>10, <1>11, <1>12 DEF Janitor

LEMMA TickStep ==
    ASSUME IndInv, Tick, UNCHANGED strict
    PROVE  IndInv'
  <1> USE DEF limiterVars, localVars, bucketVars, entryVars, callVars, mapVars, janitorVars
  <1>1. clock' = clock + 1 /\ clock \in Nat
    BY DEF Tick, IndInv, LimiterTypes
  <1>2. UNCHANGED <<limiterVars, mapVars, entryVars, callVars, janitorVars>>
    BY DEF Tick
  <1>3. LimiterTypes' /\ EntryTypes'
    BY <1>1, <1>2 DEF IndInv, LimiterTypes, EntryTypes
  <1>4. IdTypes' /\ HolderInv' /\ StrictInv' /\ OneLimiterPerAddress'
    BY <1>2 DEF IndInv, IdTypes, HolderInv, StrictInv, OneLimiterPerAddress
  <1>5. BudgetInv'
    <2>1. \A l \in Limiters : Claimed(l)' = Claimed(l)
      BY <1>2, ClaimedKept DEF ClaimOf, Add
    <2>2. \A q \in Procs : now[q] \in Int
      BY DEF IndInv, LimiterTypes
    <2>3. \A l \in Limiters : lastNano[l] \in Int
      BY DEF IndInv, LimiterTypes
    <2> QED BY <1>1, <1>2, <2>1, <2>2, <2>3 DEF IndInv, BudgetInv
  <1>6. HitsInv' /\ RecentWithinHits'
    <2>1. ent \in Limiters \/ chore # "cur"
      <3>1. used \in 0 .. MaxLimiters /\ MaxLimiters \in Nat
        BY LimiterAssumption DEF IndInv, IdTypes
      <3> QED BY <3>1 DEF IndInv, HolderInv, Limiters
    <2> QED BY <1>2, <2>1, CountsUntouched DEF IndInv, FlightOf
  <1> QED BY <1>3, <1>4, <1>5, <1>6 DEF IndInv

-----------------------------------------------------------------------------
(* The theorems                                                            *)

LEMMA NextIndInv == IndInv /\ [Next]_vars => IndInv'
  <1> SUFFICES ASSUME IndInv, [Next]_vars PROVE IndInv'
    OBVIOUS
  <1>1. CASE Tick /\ UNCHANGED <<strict, mix>>
    BY <1>1, TickStep
  <1>2. ASSUME NEW p \in Procs, Call(p), UNCHANGED <<clock, janitorVars>>,
               UNCHANGED <<strict, mix>>
        PROVE  IndInv'
    <2>1. CASE \E a \in Addrs, n \in Needs : CallBegin(p, a, "allow", n)
      BY <1>2, <2>1, CallBeginStep, IPMapAssumption
    <2>2. CASE \E a \in Addrs : CallBegin(p, a, "get", 0)
      BY <1>2, <2>2, CallBeginStep
    <2>3. CASE \E l \in 1 .. used, n \in Needs : LimiterBegin(p, l, "allow", n)
      BY <1>2, <2>3, LimiterBeginStep, IPMapAssumption
    <2>4. CASE \E l \in 1 .. used : LimiterBegin(p, l, "reset", 0)
      BY <1>2, <2>4, LimiterBeginStep
    <2>5. CASE GetOrCreate(p)
      BY <1>2, <2>5, GetOrCreateStep
    <2>6. CASE (AllowN(p) \/ ResetLimiter(p)) /\ UNCHANGED <<mapVars, entryVars, callVars>>
      BY <1>2, <2>6, LimiterStep
    <2> QED BY <1>2, <2>1, <2>2, <2>3, <2>4, <2>5, <2>6 DEF Call
  <1>3. CASE Janitor /\ UNCHANGED <<clock, limiterVars, entryVars, callVars>>
               /\ UNCHANGED <<strict, mix>>
    BY <1>3, JanitorStep
  <1>4. CASE UNCHANGED vars
    <2> USE <1>4 DEF vars, limiterVars, localVars, bucketVars, entryVars, janitorVars
    <2>1. LimiterTypes' /\ EntryTypes' /\ IdTypes' /\ HolderInv'
      BY DEF IndInv, LimiterTypes, EntryTypes, IdTypes, HolderInv
    <2>2. StrictInv' /\ OneLimiterPerAddress'
      BY DEF IndInv, StrictInv, OneLimiterPerAddress
    <2>3. BudgetInv'
      BY BudgetUntouched DEF IndInv, BudgetInv, ClaimOf, Add
    <2>4. HitsInv' /\ RecentWithinHits'
      <3>1. ent \in Limiters \/ chore # "cur"
        <4>1. used \in 0 .. MaxLimiters /\ MaxLimiters \in Nat
          BY LimiterAssumption DEF IndInv, IdTypes
        <4> QED BY <4>1 DEF IndInv, HolderInv, Limiters
      <3> QED BY <3>1, CountsUntouched DEF IndInv, FlightOf
    <2> QED BY <2>1, <2>2, <2>3, <2>4 DEF IndInv
  <1> QED BY <1>1, <1>2, <1>3, <1>4 DEF Next

\* IndInv, with types, the places of the goroutines and the accounts of tokens
\* and of calls, holds throughout every behaviour.
THEOREM IPMapInductive == Spec => []IndInv
  BY InitIndInv, NextIndInv, PTL DEF Spec

\* The budget that the time handed out pays for is within what the clock has
\* earned.
LEMMA BudgetFromInv == IndInv => BudgetKept
  <1> SUFFICES ASSUME IndInv, NEW l \in Limiters
               PROVE  /\ tokens[l] \in 0 .. Burst
                      /\ admitted[l] + tokens[l]
                           <= granted[l] + (clock - since[l]) \div Interval
    BY DEF BudgetKept
  <1> DEFINE x == admitted[l] + tokens[l] - granted[l]
             d == clock - since[l]
  <1>1. /\ admitted[l] \in Int /\ tokens[l] \in Int /\ granted[l] \in Int
        /\ lastNano[l] \in Int /\ since[l] \in Int /\ clock \in Int
        /\ tokens[l] \in 0 .. Burst /\ lastNano[l] <= clock
    BY DEF IndInv, LimiterTypes, BudgetInv
  <1>2. Claimed(l) \in Nat
    BY ClaimType DEF IndInv
  <1>3. (x + Claimed(l)) * Interval <= lastNano[l] - since[l]
    <2>1. admitted[l] + tokens[l] + Claimed(l) - granted[l] = x + Claimed(l)
      BY <1>1, <1>2
    <2> QED BY <2>1 DEF IndInv, BudgetInv
  <1>4. x \in Int /\ d \in Int /\ lastNano[l] - since[l] <= d
          /\ lastNano[l] - since[l] \in Int /\ x <= x + Claimed(l)
    BY <1>1, <1>2
  <1> HIDE DEF x, d
  <1>5. x * Interval <= (x + Claimed(l)) * Interval /\ x * Interval \in Int
          /\ (x + Claimed(l)) * Interval \in Int
    BY <1>2, <1>4, ScaleSum, BucketAssumption
  <1>6. x <= d \div Interval /\ d \div Interval \in Int
    <2>1. x * Interval <= d
      BY <1>3, <1>4, <1>5
    <2>2. d \div Interval \in Int
      BY <1>4, BucketAssumption, Z3
    <2> QED BY <1>4, <2>1, <2>2, QuotientBound, BucketAssumption
  <1> QED BY <1>1, <1>6 DEF x, d

\* Limiter.AllowN and Reset: whatever the interleaving of refills, deductions
\* and resets, no limiter admits more than its budget.
THEOREM LimiterBudgetKept == Spec => []BudgetKept
  BY IPMapInductive, BudgetFromInv, PTL

\* IPMap.getOrCreate with WithStrictNewIP: an address has one limiter until
\* Evict or Purge deletes it.
THEOREM IPMapOneLimiterPerAddress == Spec => []OneLimiterPerAddress
  <1>1. IndInv => OneLimiterPerAddress
    BY DEF IndInv
  <1> QED BY <1>1, IPMapInductive, PTL

\* ipEntry.recentHits, read while calls are counted: the estimate of recent
\* calls is within the calls.
THEOREM IPMapRecentWithinHits == Spec => []RecentWithinHits
  <1>1. IndInv => RecentWithinHits
    BY DEF IndInv
  <1> QED BY <1>1, IPMapInductive, PTL
=============================================================================
