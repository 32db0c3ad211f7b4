------------------------------ MODULE Semaphore ------------------------------
(***************************************************************************)
(* semaphore.Semaphore (src/semaphore/semaphore.go): an atomic count of    *)
(* available permits and a buffered channel that only wakes goroutines.    *)
(* Each load, CAS, add and channel operation is a step.                    *)
(*                                                                         *)
(* The wake channel is modelled with its queue of blocked receivers, as in *)
(* Go: a send goes to the first blocked receiver, else into the buffer,    *)
(* and is dropped (select with default) when the buffer is full.           *)
(*                                                                         *)
(* A goroutine acquires only while it holds nothing.  It releases what it  *)
(* holds, or, by mistake, more permits than all goroutines hold together:  *)
(* the code undoes such a Release and panics.                              *)
(***************************************************************************)
EXTENDS Integers, Sequences, FiniteSets, SequencesExt, Sums

CONSTANTS Procs,        \* goroutines
          Cap           \* s.cap

ASSUME CapAssumption == Cap \in Nat \ {0}
ASSUME ProcsAssumption == IsFiniteSet(Procs)

VARIABLES
    avail,   \* s.avail
    wake,    \* number of signals buffered in s.wake
    recvq,   \* goroutines blocked in a receive from s.wake, oldest first
    pc,      \* position of each goroutine
    kind,    \* the operation it executes
    n,       \* its argument: permits to take, or signals still to send
    old,     \* its local variable old
    held,    \* auxiliary: permits each goroutine holds
    misused  \* auxiliary: some Release has exceeded the capacity

vars == <<avail, wake, recvq, pc, kind, n, old, held, misused>>

Kinds == {"acquire", "context", "try"}

ValuesOK ==
    /\ avail \in Int
    /\ wake \in 0..Cap
    /\ recvq \in Seq(Procs)
    /\ pc \in [Procs -> {"idle", "load", "cas", "recv", "blocked", "signal", "undo"}]
    /\ kind \in [Procs -> Kinds]
    /\ n \in [Procs -> 0..Cap]
    /\ old \in [Procs -> Int]
    /\ held \in [Procs -> Nat]
TypeOK == ValuesOK /\ misused \in BOOLEAN

Init ==
    /\ avail = Cap
    /\ wake = 0
    /\ recvq = <<>>
    /\ pc = [p \in Procs |-> "idle"]
    /\ kind = [p \in Procs |-> "try"]
    /\ n = [p \in Procs |-> 0]
    /\ old = [p \in Procs |-> 0]
    /\ held = [p \in Procs |-> 0]
    /\ misused = FALSE

\* A move inside an operation, and its return: the local variables are gone.
Goto(p, l) == pc' = [pc EXCEPT ![p] = l] /\ UNCHANGED <<kind, n>>
Finish(p) ==
    /\ pc' = [pc EXCEPT ![p] = "idle"]
    /\ kind' = [kind EXCEPT ![p] = "try"]
    /\ n' = [n EXCEPT ![p] = 0]
    /\ old' = [old EXCEPT ![p] = 0]

-----------------------------------------------------------------------------
(* Acquire, AcquireContext, TryAcquire (m = 1) and TryAcquireN *)

\* TryAcquireN(m) with m < 1 or m > Cap returns false and changes nothing.
AcquireBegin(p, k, m) ==
    /\ pc[p] = "idle"
    /\ held[p] = 0
    /\ k # "try" => m = 1
    /\ kind' = [kind EXCEPT ![p] = k]
    /\ n' = [n EXCEPT ![p] = m]
    /\ pc' = [pc EXCEPT ![p] = "load"]
    /\ UNCHANGED <<avail, wake, recvq, old, held, misused>>

\* old := s.avail.Load().  Too few permits: the Try operations give up, the
\* others go to the wake channel.
AcquireLoad(p) ==
    /\ pc[p] = "load"
    /\ \/ avail >= n[p] /\ Goto(p, "cas") /\ old' = [old EXCEPT ![p] = avail]
       \/ avail < n[p] /\ kind[p] = "try" /\ Finish(p)
       \/ avail < n[p] /\ kind[p] # "try" /\ Goto(p, "recv") /\ UNCHANGED old
    /\ UNCHANGED <<avail, wake, recvq, held, misused>>

\* Mutant of AcquireCas: a plain store instead of the CAS.
AcquireCasBlind(p) ==
    /\ pc[p] = "cas"
    /\ avail' = old[p] - n[p]
    /\ held' = [held EXCEPT ![p] = @ + n[p]]
    /\ Finish(p)
    /\ UNCHANGED <<wake, recvq, misused>>

\* s.avail.CompareAndSwap(old, old-n).  When it fails, the Try operations load
\* again; Acquire and AcquireContext go to the wake channel.
AcquireCas(p) ==
    /\ pc[p] = "cas"
    /\ IF avail = old[p]
       THEN /\ avail' = avail - n[p]
            /\ held' = [held EXCEPT ![p] = @ + n[p]]
            /\ Finish(p)
       ELSE /\ Goto(p, IF kind[p] = "try" THEN "load" ELSE "recv")
            /\ old' = [old EXCEPT ![p] = 0]
            /\ UNCHANGED <<avail, held>>
    /\ UNCHANGED <<wake, recvq, misused>>

\* <-s.wake: a buffered signal, or the goroutine blocks.
AcquireRecv(p) ==
    /\ pc[p] = "recv"
    /\ IF wake > 0
       THEN wake' = wake - 1 /\ Goto(p, "load") /\ UNCHANGED recvq
       ELSE recvq' = Append(recvq, p) /\ Goto(p, "blocked") /\ UNCHANGED wake
    /\ UNCHANGED <<avail, old, held, misused>>

\* AcquireContext takes <-ctx.Done() and returns ctx.Err().
AcquireCancel(p) ==
    /\ kind[p] = "context"
    /\ \/ pc[p] = "recv" /\ UNCHANGED recvq
       \/ /\ pc[p] = "blocked"
          /\ \E i \in 1..Len(recvq) : recvq[i] = p /\ recvq' = RemoveAt(recvq, i)
    /\ Finish(p)
    /\ UNCHANGED <<avail, wake, held, misused>>

-----------------------------------------------------------------------------
(* Release (m = 1) and ReleaseN *)

\* The permits all goroutines hold together.
Granted == SumOf(held)

\* Mutant of ReleaseAdd: nobody is signalled.
ReleaseAddSilent(p, m) ==
    /\ pc[p] = "idle"
    /\ m <= held[p] \/ m > Granted
    /\ avail' = avail + m
    /\ IF avail + m > Cap
       THEN /\ n' = [n EXCEPT ![p] = m]
            /\ pc' = [pc EXCEPT ![p] = "undo"] /\ UNCHANGED held
       ELSE /\ held' = [held EXCEPT ![p] = @ - m] /\ UNCHANGED <<n, pc>>
    /\ misused' = (misused \/ avail + m > Cap)
    /\ UNCHANGED <<wake, recvq, kind, old>>

\* nw := s.avail.Add(m), and the test of nw against the capacity.
ReleaseAdd(p, m) ==
    /\ pc[p] = "idle"
    /\ m <= held[p] \/ m > Granted
    /\ avail' = avail + m
    /\ n' = [n EXCEPT ![p] = m]
    /\ IF avail + m > Cap
       THEN pc' = [pc EXCEPT ![p] = "undo"] /\ UNCHANGED held
       ELSE /\ pc' = [pc EXCEPT ![p] = "signal"]
            /\ held' = [held EXCEPT ![p] = @ - m]
    /\ misused' = (misused \/ avail + m > Cap)
    /\ UNCHANGED <<wake, recvq, kind, old>>

\* s.avail.Add(-m), then panic.
ReleaseUndo(p) ==
    /\ pc[p] = "undo"
    /\ avail' = avail - n[p]
    /\ Finish(p)
    /\ UNCHANGED <<wake, recvq, held, misused>>

\* One round of the loop that sends to s.wake without blocking; ReleaseN
\* returns at the first send that would block.
ReleaseSignal(p) ==
    /\ pc[p] = "signal"
    /\ LET next == IF n[p] = 1 \/ (recvq = <<>> /\ wake = Cap)
                   THEN "idle" ELSE "signal"
       IN /\ n' = [n EXCEPT ![p] = IF next = "idle" THEN 0 ELSE @ - 1]
          /\ pc' = [q \in Procs |->
                       CASE q = p -> next
                         [] recvq # <<>> /\ q = Head(recvq) -> "load"
                         [] OTHER -> pc[q]]
    /\ recvq' = IF recvq # <<>> THEN Tail(recvq) ELSE recvq
    /\ wake' = IF recvq = <<>> /\ wake < Cap THEN wake + 1 ELSE wake
    /\ UNCHANGED <<avail, kind, old, held, misused>>

-----------------------------------------------------------------------------

Step(p) == \/ AcquireLoad(p) \/ AcquireCas(p) \/ AcquireRecv(p)
           \/ ReleaseUndo(p) \/ ReleaseSignal(p)
Release(p) == \E m \in 1..Cap : ReleaseAdd(p, m)

Next == \E p \in Procs :
            \/ \E k \in Kinds, m \in 1..Cap : AcquireBegin(p, k, m)
            \/ Step(p)
            \/ AcquireCancel(p)
            \/ Release(p)

\* Goroutines that can run do run, and whoever holds permits releases them
\* (the documented pattern is defer sem.Release()).  Nobody is obliged to
\* release what it does not hold.
ReleaseHeld(p) == \E m \in 1..Cap : m <= held[p] /\ ReleaseAdd(p, m)
Fairness == \A p \in Procs : WF_vars(Step(p)) /\ WF_vars(ReleaseHeld(p))

Spec == Init /\ [][Next]_vars

FairSpec == Spec /\ Fairness

-----------------------------------------------------------------------------
(* Properties *)

\* No permit is lost or made up: the CAS loops, the batch operations and the
\* releases of all goroutines together keep the count exact, up to the
\* surplus of a Release without a matching Acquire that has yet to undo it.
Surplus == SumOf([p \in Procs |-> IF pc[p] = "undo" THEN n[p] ELSE 0])
PermitsConserved == TypeOK /\ avail + Granted = Cap + Surplus

\* A blocked Acquire always has somebody to wake it: when nobody is in the
\* middle of an operation, some goroutine holds a permit and will release it.
\* (Acquire also blocks when its one CAS loses to another Acquire, with permits
\* left; but never when all of them are.)  A Release that exceeds the capacity
\* panics and voids this: an Acquire whose CAS loses to it may block alone.
WaiterIsCovered ==
    recvq # <<>> => \/ Granted > 0
                    \/ \E p \in Procs : pc[p] \in {"load", "cas", "signal"}
                    \/ misused

\* The inductive invariant behind them.  The queue of the wake channel holds the
\* blocked goroutines, and only while no signal is buffered.
QueueInv ==
    /\ \A i \in 1..Len(recvq) : pc[recvq[i]] = "blocked"
    /\ \A i, j \in 1..Len(recvq) : recvq[i] = recvq[j] => i = j
    /\ recvq # <<>> => wake = 0

\* Operations under way have an argument, and a surplus means misuse.
CallInv ==
    \A p \in Procs :
        /\ pc[p] # "idle" => n[p] >= 1
        /\ pc[p] = "undo" => misused
        /\ pc[p] = "cas" /\ ~misused => old[p] <= Cap

\* Whoever waits or is about to: a CAS on a count that is gone will fail.
Waits(p) == \/ pc[p] \in {"recv", "blocked"}
            \/ pc[p] = "cas" /\ kind[p] # "try" /\ old[p] # Cap
\* Whoever takes a permit of a full semaphore, or signals its release.
Covers(p) == \/ pc[p] \in {"load", "signal"}
             \/ pc[p] = "cas" /\ old[p] = Cap
WakeInv ==
    (avail = Cap /\ wake = 0 /\ ~misused /\ \E p \in Procs : Waits(p))
        => \E p \in Procs : Covers(p)

IndInv == PermitsConserved /\ QueueInv /\ CallInv /\ WakeInv

\* Every blocked Acquire is woken and tries again, unless the semaphore is
\* misused: dropped signals and signals taken by others leave nobody behind.
BlockedWakesUp ==
    \A p \in Procs :
        (pc[p] = "blocked" /\ ~misused) ~> (pc[p] # "blocked" \/ misused)
=============================================================================
