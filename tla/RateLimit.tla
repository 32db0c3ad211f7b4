----------------------------- MODULE RateLimit ------------------------------
(***************************************************************************)
(* ratelimit.Limiter, a token bucket made of two atomics: tokens and       *)
(* lastNano, the time up to which tokens have been handed out.  Limiters   *)
(* are objects made by New; any number of goroutines call AllowN and Reset *)
(* on them, and each load, store or CAS is one step.                       *)
(*                                                                         *)
(* The module has the limiter's operations; IPMap, which owns the          *)
(* limiters, composes them with its own.  Time counts clock units, and     *)
(* interval is the code's nanoseconds per token in those units.            *)
(***************************************************************************)
EXTENDS Integers, FiniteSets, Sums

CONSTANTS Procs,      \* goroutines that call the limiter
          MaxLimiters, \* bound on the limiters New makes
          Burst,      \* capacity of a bucket
          Interval,   \* time that earns one token
          MaxClock,   \* bound on the clock
          None

\* New raises burst to 1; interval is 0, which AllowN divides by, when rate
\* is above 10^9: such a limiter is outside the model.
ASSUME BucketAssumption == /\ Burst \in Nat \ {0}
                           /\ Interval \in Nat \ {0}

Limiters == 1 .. MaxLimiters

ASSUME LimiterAssumption == /\ MaxLimiters \in Nat /\ None \notin Limiters
                            /\ IsFiniteSet(Procs)

VARIABLES
  clock,
  tokens, lastNano,  \* the atomics of each limiter
  pc,                \* where each goroutine is
  lim, need,         \* the limiter it uses and the tokens it wants
  now, last, cur,    \* the locals of AllowN
  admitted,          \* history: tokens spent by calls that returned true
  granted, since     \* history: the tokens New and Reset put into the bucket
                     \* and the time from which it has earned more

bucketVars == <<tokens, lastNano, admitted, granted, since>>
localVars == <<lim, need, now, last, cur>>

Goto(p, l) == pc' = [pc EXCEPT ![p] = l]

\* The goroutine returns; its locals are gone.
Return(p) == /\ Goto(p, "idle")
             /\ lim' = [lim EXCEPT ![p] = None]
             /\ need' = [need EXCEPT ![p] = 0]
             /\ now' = [now EXCEPT ![p] = 0]
             /\ last' = [last EXCEPT ![p] = 0]
             /\ cur' = [cur EXCEPT ![p] = 0]

\* New: a full bucket whose time starts now.
New(l) == /\ tokens' = [tokens EXCEPT ![l] = Burst]
          /\ lastNano' = [lastNano EXCEPT ![l] = clock]
          /\ granted' = [granted EXCEPT ![l] = Burst]
          /\ since' = [since EXCEPT ![l] = clock]
          /\ admitted' = [admitted EXCEPT ![l] = 0]

-----------------------------------------------------------------------------
(* AllowN.                                                                 *)

\* The request for more than burst fails at once; the clock is read once.
AllowBegin(p) ==
  /\ pc[p] = "allow"
  /\ IF need[p] > Burst
     THEN Return(p)
     ELSE /\ Goto(p, "last")
          /\ now' = [now EXCEPT ![p] = clock]
          /\ UNCHANGED <<lim, need, last, cur>>
  /\ UNCHANGED bucketVars

LoadLast(p) ==
  /\ pc[p] = "last"
  /\ last' = [last EXCEPT ![p] = lastNano[lim[p]]]
  /\ Goto(p, "tokens")
  /\ UNCHANGED <<bucketVars, lim, need, now, cur>>

\* elapsed / interval, where a clock that went back counts as no time.
Add(p) == LET elapsed == IF now[p] > last[p] THEN now[p] - last[p] ELSE 0
          IN elapsed \div Interval

\* What the bucket holds after the refill.
Refilled(p) == IF cur[p] + Add(p) > Burst THEN Burst ELSE cur[p] + Add(p)

LoadTokens(p) ==
  /\ pc[p] = "tokens"
  /\ cur' = [cur EXCEPT ![p] = tokens[lim[p]]]
  /\ Goto(p, IF Add(p) > 0 THEN "claim" ELSE "deduct")
  /\ UNCHANGED <<bucketVars, lim, need, now, last>>

\* The CAS on lastNano: its winner adds the tokens, a loser reloads tokens.
ClaimRefill(p) ==
  /\ pc[p] = "claim"
  /\ LET l == lim[p] IN
     IF lastNano[l] = last[p]
     THEN /\ lastNano' = [lastNano EXCEPT ![l] = last[p] + Add(p) * Interval]
          /\ Goto(p, "refill")
     ELSE /\ Goto(p, "reload")
          /\ UNCHANGED lastNano
  /\ UNCHANGED <<tokens, admitted, granted, since, localVars>>

RefillLoad(p) ==
  /\ pc[p] = "refill"
  /\ cur' = [cur EXCEPT ![p] = tokens[lim[p]]]
  /\ Goto(p, "refillcas")
  /\ UNCHANGED <<bucketVars, lim, need, now, last>>

\* A bug the code avoids: tokens.Store, which overwrites a deduction made
\* since the load.
RefillStore(p) ==
  /\ pc[p] = "refillcas"
  /\ tokens' = [tokens EXCEPT ![lim[p]] = Refilled(p)]
  /\ cur' = [cur EXCEPT ![p] = Refilled(p)]
  /\ Goto(p, "deduct")
  /\ UNCHANGED <<lastNano, admitted, granted, since, lim, need, now, last>>

RefillCas(p) ==
  /\ pc[p] = "refillcas"
  /\ IF tokens[lim[p]] = cur[p]
     THEN /\ tokens' = [tokens EXCEPT ![lim[p]] = Refilled(p)]
          /\ cur' = [cur EXCEPT ![p] = Refilled(p)]
          /\ Goto(p, "deduct")
     ELSE /\ Goto(p, "refill")
          /\ UNCHANGED <<tokens, cur>>
  /\ UNCHANGED <<lastNano, admitted, granted, since, lim, need, now, last>>

ReloadTokens(p) ==
  /\ pc[p] = "reload"
  /\ cur' = [cur EXCEPT ![p] = tokens[lim[p]]]
  /\ Goto(p, "deduct")
  /\ UNCHANGED <<bucketVars, lim, need, now, last>>

\* Too few tokens: false.  Otherwise the CAS takes them, or the loop starts
\* over with the time read at the beginning.
Deduct(p) ==
  /\ pc[p] = "deduct"
  /\ LET l == lim[p] IN
     \/ /\ cur[p] < need[p]
        /\ Return(p)
        /\ UNCHANGED <<tokens, admitted>>
     \/ /\ cur[p] >= need[p]
        /\ tokens[l] = cur[p]
        /\ tokens' = [tokens EXCEPT ![l] = @ - need[p]]
        /\ admitted' = [admitted EXCEPT ![l] = @ + need[p]]
        /\ Return(p)
     \/ /\ cur[p] >= need[p]
        /\ tokens[l] # cur[p]
        /\ Goto(p, "last")
        /\ UNCHANGED <<tokens, admitted, localVars>>
  /\ UNCHANGED <<lastNano, granted, since>>

AllowN(p) == \/ AllowBegin(p) \/ LoadLast(p) \/ LoadTokens(p) \/ ClaimRefill(p)
             \/ RefillLoad(p) \/ RefillCas(p) \/ ReloadTokens(p) \/ Deduct(p)

-----------------------------------------------------------------------------
(* Reset: the clock is read, then the two stores.                          *)

ResetBegin(p) ==
  /\ pc[p] = "reset"
  /\ now' = [now EXCEPT ![p] = clock]
  /\ Goto(p, "resetlast")
  /\ UNCHANGED <<bucketVars, lim, need, last, cur>>

\* The store can take lastNano back behind a refill made since the clock was
\* read: the time between is then earned a second time.
ResetLast(p) ==
  /\ pc[p] = "resetlast"
  /\ LET l == lim[p] IN
       /\ lastNano' = [lastNano EXCEPT ![l] = now[p]]
       /\ since' = [since EXCEPT ![l] = IF lastNano[l] > now[p]
                                         THEN @ - (lastNano[l] - now[p]) ELSE @]
  /\ Goto(p, "resettokens")
  /\ UNCHANGED <<tokens, admitted, granted, localVars>>

ResetTokens(p) ==
  /\ pc[p] = "resettokens"
  /\ LET l == lim[p] IN
       /\ tokens' = [tokens EXCEPT ![l] = Burst]
       /\ granted' = [granted EXCEPT ![l] = @ + Burst - tokens[l]]
  /\ Return(p)
  /\ UNCHANGED <<lastNano, admitted, since>>

ResetLimiter(p) == ResetBegin(p) \/ ResetLast(p) \/ ResetTokens(p)

-----------------------------------------------------------------------------
(***************************************************************************)
(* BudgetKept.  A limiter never admits more than it was given: what calls  *)
(* took and what is left in the bucket is covered by the full bucket of    *)
(* New, what Reset topped up and the tokens the clock has earned, however  *)
(* refills, deductions, calls with an old clock reading and Reset          *)
(* interleave; and the bucket holds between 0 and burst tokens.  A Reset   *)
(* that puts the time base back lets an interval be earned a second time;  *)
(* `since' counts that interval as earned.                                 *)
(***************************************************************************)
BudgetKept ==
  \A l \in Limiters :
    /\ tokens[l] \in 0 .. Burst
    /\ admitted[l] + tokens[l] <= granted[l] + (clock - since[l]) \div Interval

(***************************************************************************)
(* BudgetInv is why.  What the limiter got beyond its grants, the tokens   *)
(* of claimed refills that are still to be added included, is paid for by  *)
(* the time up to which lastNano has handed out tokens; and no clock       *)
(* reading is ahead of the clock.                                          *)
(***************************************************************************)
ClaimOf(l, p) ==
  IF pc[p] \in {"refill", "refillcas"} /\ lim[p] = l THEN Add(p) ELSE 0

Claimed(l) == SumOf([p \in Procs |-> ClaimOf(l, p)])

BudgetInv ==
  /\ \A p \in Procs : now[p] <= clock
  /\ \A l \in Limiters :
       /\ tokens[l] \in 0 .. Burst
       /\ lastNano[l] <= clock
       /\ (admitted[l] + tokens[l] + Claimed(l) - granted[l]) * Interval
             <= lastNano[l] - since[l]
=============================================================================
