----------------------------- MODULE WPoolStack -----------------------------
(***************************************************************************)
(* wpool.Stack (src/wpool/stack.go): a pool of worker goroutines, each with*)
(* a channel of capacity 1, whose idle members form a stack.  Submitters,  *)
(* workers, the cleaner and Stop run concurrently.                         *)
(*                                                                         *)
(* A critical section of s.mu is one step, except the one of waitForWorker *)
(* and of SubmitTimeout's loop: there the tests and the entry into the     *)
(* condition variable's wait list are two steps, because Stop and the      *)
(* timer set their flags and broadcast without holding s.mu.  A CAS loop   *)
(* on s.running is one step.                                               *)
(*                                                                         *)
(* A worker is named by its stackWorkerChan.  chanPool (a sync.Pool) may   *)
(* hand out again any object that was put back.  A task is named by its    *)
(* submitter.  Worker goroutines that have given back their channel are    *)
(* only counted: leaving (before running.Add(-1)), finishing (before       *)
(* wg.Done).                                                               *)
(***************************************************************************)
EXTENDS Integers, Sequences, FiniteSets, SequencesExt

CONSTANTS Procs,         \* goroutines that submit tasks
          Workers,       \* stackWorkerChan objects
          Kinds,         \* which of "submit", "try", "timeout" each of Procs calls
          AllowStop,     \* is Stop called?
          AllowReclaim,  \* do workers stay idle long enough to be reclaimed?
          MaxFinishing,  \* bound: goroutines between running.Add(-1) and wg.Done
          None, Nil      \* an empty channel; the exit signal

\* s.maxWorkers, positive (a pool with maxWorkers = 0 never blocks).
maxWorkers == Cardinality(Workers)

ASSUME KindsAssumption == Kinds \in [Procs -> SUBSET {"submit", "try", "timeout"}]

ASSUME PoolAssumption ==
    /\ IsFiniteSet(Procs) /\ IsFiniteSet(Workers)
    /\ None \notin Procs \cup Workers /\ Nil \notin Procs \cup {None}

VARIABLES
    ready,     \* s.ready: the stack of idle workers
    running,   \* s.running
    stopped,   \* s.stopped
    mu,        \* the submitter inside its two-step critical section, or None
    waitq,     \* the wait list of s.cond
    wg,        \* the count of s.wg
    wpc,       \* position of each worker
    job,       \* the task a worker runs
    ch,        \* content of each worker's channel
    leaving, finishing,
    pc, kind,  \* position and operation of each submitter
    hand,      \* the worker a submitter has got (local wc)
    timer,     \* SubmitTimeout's token: "off", "armed", "expired"
    cpc,       \* position of the cleaner
    expired,   \* workers the cleaner has yet to tell to exit
    spc        \* position of Stop

poolVars == <<ready, running, waitq, wg>>
workerVars == <<wpc, job, ch, leaving, finishing>>
submitVars == <<mu, pc, kind, hand, timer>>
stopVars == <<stopped, spc>>
cleanVars == <<cpc, expired>>
vars == <<poolVars, workerVars, submitVars, stopVars, cleanVars>>

ValuesOK ==
    /\ ready \in Seq(Workers) /\ expired \in Seq(Workers)
    /\ running \in 0..maxWorkers
    /\ wg \in Nat /\ leaving \in Nat /\ finishing \in Nat
    /\ mu \in Procs \cup {None}
    /\ waitq \in Seq(Procs)
    /\ wpc \in [Workers -> {"none", "recv", "run", "check", "push", "exit"}]
    /\ job \in [Workers -> Procs \cup {None}]
    /\ ch \in [Workers -> Procs \cup {None, Nil}]
    /\ pc \in [Procs -> {"idle", "pop", "reserve", "spawn", "send", "wait",
                         "park", "parked"}]
    /\ kind \in [Procs -> {"submit", "try", "timeout"}]
    /\ hand \in [Procs -> Workers \cup {None}]
    /\ timer \in [Procs -> {"off", "armed", "expired"}]
    /\ cpc \in {"idle", "send", "gone"}
    /\ spc \in {"idle", "broadcast", "scan", "wait", "returned"}

TypeOK == ValuesOK /\ stopped \in BOOLEAN

Init ==
    /\ ready = <<>> /\ running = 0 /\ waitq = <<>> /\ wg = 0
    /\ wpc = [w \in Workers |-> "none"]
    /\ job = [w \in Workers |-> None]
    /\ ch = [w \in Workers |-> None]
    /\ leaving = 0 /\ finishing = 0
    /\ mu = None
    /\ pc = [p \in Procs |-> "idle"]
    /\ kind = [p \in Procs |-> "submit"]
    /\ hand = [p \in Procs |-> None]
    /\ timer = [p \in Procs |-> "off"]
    /\ cpc = "idle" /\ expired = <<>>
    /\ stopped = FALSE /\ spc = "idle"

-----------------------------------------------------------------------------
(* Submit, TrySubmit and SubmitTimeout *)

Goto(p, l) == pc' = [pc EXCEPT ![p] = l]

\* A call returns; SubmitTimeout stops its timer and gives its token back.
Return(p) ==
    /\ Goto(p, "idle")
    /\ kind' = [kind EXCEPT ![p] = "submit"]
    /\ hand' = [hand EXCEPT ![p] = None]
    /\ timer' = [timer EXCEPT ![p] = "off"]

\* The call; it returns false at once when the pool has stopped.
SubmitBegin(p, k) ==
    /\ pc[p] = "idle"
    /\ ~stopped
    /\ kind' = [kind EXCEPT ![p] = k]
    /\ Goto(p, "pop")
    /\ UNCHANGED <<poolVars, workerVars, mu, hand, timer, stopVars, cleanVars>>

\* Mutant of TakeTop: the worker stays on the stack.
TakeTopNoPop(p) ==
    /\ hand' = [hand EXCEPT ![p] = Last(ready)]
    /\ Goto(p, "send")
    /\ UNCHANGED ready

\* The top of the stack of idle workers goes to p.
TakeTop(p) ==
    /\ hand' = [hand EXCEPT ![p] = Last(ready)]
    /\ ready' = Front(ready)
    /\ Goto(p, "send")

\* No worker can be had: TrySubmit returns false, Submit blocks, and
\* SubmitTimeout arms its timer and blocks.
NoWorker(p) ==
    \/ kind[p] = "try" /\ Return(p)
    \/ kind[p] = "submit" /\ Goto(p, "wait") /\ UNCHANGED <<kind, hand, timer>>
    \/ /\ kind[p] = "timeout"
       /\ Goto(p, "wait")
       /\ timer' = [timer EXCEPT ![p] = "armed"]
       /\ UNCHANGED <<kind, hand>>

\* The critical section of getWorker and of tryGetWorker; only the latter looks
\* at running in it.
SubmitPop(p) ==
    /\ pc[p] = "pop"
    /\ mu = None
    /\ \/ /\ ready # <<>>
          /\ TakeTop(p)
          /\ UNCHANGED <<kind, timer>>
       \/ /\ ready = <<>>
          /\ kind[p] = "submit" \/ running < maxWorkers
          /\ Goto(p, "reserve")
          /\ UNCHANGED <<ready, kind, hand, timer>>
       \/ /\ ready = <<>>
          /\ kind[p] # "submit" /\ running >= maxWorkers
          /\ NoWorker(p)
          /\ UNCHANGED ready
    /\ UNCHANGED <<running, waitq, wg, workerVars, mu, stopVars, cleanVars>>

\* The CAS loop on s.running.
SubmitReserve(p) ==
    /\ pc[p] = "reserve"
    /\ \/ /\ running < maxWorkers
          /\ running' = running + 1
          /\ Goto(p, "spawn")
          /\ UNCHANGED <<kind, hand, timer>>
       \/ /\ running >= maxWorkers
          /\ NoWorker(p)
          /\ UNCHANGED running
    /\ UNCHANGED <<ready, waitq, wg, workerVars, mu, stopVars, cleanVars>>

\* Mutant of SubmitSpawn: the worker goroutine is not started.
SubmitSpawnNoGo(p, w) ==
    /\ pc[p] = "spawn"
    /\ wpc[w] = "none"
    /\ wg' = wg + 1
    /\ hand' = [hand EXCEPT ![p] = w]
    /\ Goto(p, "send")
    /\ UNCHANGED <<ready, running, waitq, workerVars, mu, kind, timer, stopVars,
                   cleanVars>>

\* chanPool.Get, wg.Add(1) and the start of the worker goroutine.
SubmitSpawn(p, w) ==
    /\ pc[p] = "spawn"
    /\ wpc[w] = "none"
    /\ wpc' = [wpc EXCEPT ![w] = "recv"]
    /\ wg' = wg + 1
    /\ hand' = [hand EXCEPT ![p] = w]
    /\ Goto(p, "send")
    /\ UNCHANGED <<ready, running, waitq, job, ch, leaving, finishing, mu, kind,
                   timer, stopVars, cleanVars>>

\* wc.ch <- task, and the call returns true.
SubmitSend(p) ==
    /\ pc[p] = "send"
    /\ ch[hand[p]] = None
    /\ ch' = [ch EXCEPT ![hand[p]] = p]
    /\ Return(p)
    /\ UNCHANGED <<poolVars, wpc, job, leaving, finishing, mu, stopVars, cleanVars>>

\* waitForWorker gives up when the pool has stopped; SubmitTimeout looks at the
\* stack first, then gives up when the pool has stopped or the time is over.
GivesUp(p) ==
    \/ kind[p] = "submit" /\ stopped
    \/ kind[p] = "timeout" /\ ready = <<>> /\ (stopped \/ timer[p] = "expired")

\* One round of the loop under s.mu: give up, take a worker, or go on to wait.
WaitLoop(p) ==
    /\ pc[p] = "wait"
    /\ mu = None
    /\ \/ /\ GivesUp(p)
          /\ Return(p)
          /\ UNCHANGED <<ready, mu>>
       \/ /\ ~GivesUp(p) /\ ready # <<>>
          /\ TakeTop(p)
          /\ UNCHANGED <<mu, kind, timer>>
       \/ /\ ~GivesUp(p) /\ ready = <<>>
          /\ mu' = p
          /\ Goto(p, "park")
          /\ UNCHANGED <<ready, kind, hand, timer>>
    /\ UNCHANGED <<running, waitq, wg, workerVars, stopVars, cleanVars>>

\* s.cond.Wait(): joins the wait list, then unlocks s.mu.
WaitPark(p) ==
    /\ pc[p] = "park"
    /\ waitq' = Append(waitq, p)
    /\ mu' = None
    /\ Goto(p, "parked")
    /\ UNCHANGED <<ready, running, wg, workerVars, kind, hand, timer, stopVars,
                   cleanVars>>

\* s.cond.Broadcast() and s.cond.Signal(): the woken go round the loop again.
Broadcast ==
    /\ pc' = [p \in Procs |-> IF p \in ToSet(waitq) THEN "wait" ELSE pc[p]]
    /\ waitq' = <<>>
Signal ==
    \/ waitq = <<>> /\ UNCHANGED <<pc, waitq>>
    \/ /\ waitq # <<>>
       /\ pc' = [pc EXCEPT ![Head(waitq)] = "wait"]
       /\ waitq' = Tail(waitq)

\* The AfterFunc of SubmitTimeout: expired.Store(true) and Broadcast.
TimerExpires(p) ==
    /\ timer[p] = "armed"
    /\ timer' = [timer EXCEPT ![p] = "expired"]
    /\ Broadcast
    /\ UNCHANGED <<ready, running, wg, workerVars, mu, kind, hand, stopVars,
                   cleanVars>>

-----------------------------------------------------------------------------
(* workerFunc *)

WorkerRecv(w) ==
    /\ wpc[w] = "recv"
    /\ ch[w] # None
    /\ ch' = [ch EXCEPT ![w] = None]
    /\ \/ /\ ch[w] = Nil
          /\ wpc' = [wpc EXCEPT ![w] = "exit"]
          /\ UNCHANGED job
       \/ /\ ch[w] # Nil
          /\ wpc' = [wpc EXCEPT ![w] = "run"]
          /\ job' = [job EXCEPT ![w] = ch[w]]
    /\ UNCHANGED <<poolVars, leaving, finishing, submitVars, stopVars, cleanVars>>

\* safeRun returns, after the task's return or its panic.
WorkerRun(w) ==
    /\ wpc[w] = "run"
    /\ wpc' = [wpc EXCEPT ![w] = "check"]
    /\ job' = [job EXCEPT ![w] = None]
    /\ UNCHANGED <<poolVars, ch, leaving, finishing, submitVars, stopVars, cleanVars>>

\* The test of stopped outside the lock.
WorkerCheck(w) ==
    /\ wpc[w] = "check"
    /\ wpc' = [wpc EXCEPT ![w] = IF stopped THEN "exit" ELSE "push"]
    /\ UNCHANGED <<poolVars, job, ch, leaving, finishing, submitVars, stopVars,
                   cleanVars>>

\* Mutant of WorkerPush: stopped is not tested again under the lock.
WorkerPushUnchecked(w) ==
    /\ wpc[w] = "push"
    /\ mu = None
    /\ wpc' = [wpc EXCEPT ![w] = "recv"]
    /\ ready' = Append(ready, w)
    /\ Signal
    /\ UNCHANGED <<running, wg, job, ch, leaving, finishing, mu, kind, hand,
                   timer, stopVars, cleanVars>>

\* Mutant of WorkerPush: no signal to a waiting submitter.
WorkerPushNoSignal(w) ==
    /\ wpc[w] = "push"
    /\ mu = None
    /\ wpc' = [wpc EXCEPT ![w] = "recv"]
    /\ ready' = Append(ready, w)
    /\ UNCHANGED <<running, waitq, wg, job, ch, leaving, finishing, submitVars,
                   stopVars, cleanVars>>

\* The critical section that puts the worker back on the stack.
WorkerPush(w) ==
    /\ wpc[w] = "push"
    /\ mu = None
    /\ \/ /\ stopped
          /\ wpc' = [wpc EXCEPT ![w] = "exit"]
          /\ UNCHANGED <<ready, waitq, pc>>
       \/ /\ ~stopped
          /\ wpc' = [wpc EXCEPT ![w] = "recv"]
          /\ ready' = Append(ready, w)
          /\ Signal
    /\ UNCHANGED <<running, wg, job, ch, leaving, finishing, mu, kind, hand,
                   timer, stopVars, cleanVars>>

\* drainChan and chanPool.Put.
WorkerExit(w) ==
    /\ wpc[w] = "exit"
    /\ ch' = [ch EXCEPT ![w] = None]
    /\ wpc' = [wpc EXCEPT ![w] = "none"]
    /\ leaving' = leaving + 1
    /\ UNCHANGED <<poolVars, job, finishing, submitVars, stopVars, cleanVars>>

\* Mutant of WorkerLeave: running.Add(-1) is missing.
WorkerLeaveUncounted ==
    /\ leaving > 0
    /\ finishing < MaxFinishing
    /\ leaving' = leaving - 1
    /\ finishing' = finishing + 1
    /\ UNCHANGED <<poolVars, wpc, job, ch, submitVars, stopVars, cleanVars>>

\* The deferred running.Add(-1), then the deferred wg.Done().
WorkerLeave ==
    /\ leaving > 0
    /\ finishing < MaxFinishing
    /\ leaving' = leaving - 1
    /\ running' = running - 1
    /\ finishing' = finishing + 1
    /\ UNCHANGED <<ready, waitq, wg, wpc, job, ch, submitVars, stopVars, cleanVars>>

WorkerDone ==
    /\ finishing > 0
    /\ finishing' = finishing - 1
    /\ wg' = wg - 1
    /\ UNCHANGED <<ready, running, waitq, wpc, job, ch, leaving, submitVars,
                   stopVars, cleanVars>>

-----------------------------------------------------------------------------
(* cleaner and Stop *)

\* Mutant of CleanCollect: the reclaimed workers stay on the stack.
CleanCollectKeeps(i) ==
    /\ AllowReclaim
    /\ cpc = "idle"
    /\ mu = None
    /\ expired' = SubSeq(ready, 1, i)
    /\ cpc' = "send"
    /\ UNCHANGED <<poolVars, workerVars, submitVars, stopVars>>

\* The critical section of cleanup: the i workers at the bottom of the stack
\* have been idle for too long.
CleanCollect(i) ==
    /\ AllowReclaim
    /\ cpc = "idle"
    /\ mu = None
    /\ expired' = SubSeq(ready, 1, i)
    /\ ready' = SubSeq(ready, i + 1, Len(ready))
    /\ cpc' = "send"
    /\ UNCHANGED <<running, waitq, wg, workerVars, submitVars, stopVars>>

\* The exit signal is sent without blocking.
CleanSend ==
    /\ cpc = "send"
    /\ LET w == Head(expired)
       IN ch' = [ch EXCEPT ![w] = IF @ = None THEN Nil ELSE @]
    /\ expired' = Tail(expired)
    /\ cpc' = IF Len(expired) = 1 THEN "idle" ELSE "send"
    /\ UNCHANGED <<poolVars, wpc, job, leaving, finishing, submitVars, stopVars>>

\* <-s.stop: the channel is closed right after stopped is set.
CleanExit ==
    /\ cpc = "idle"
    /\ stopped
    /\ cpc' = "gone"
    /\ UNCHANGED <<poolVars, workerVars, submitVars, stopVars, expired>>

StopBegin ==
    /\ AllowStop
    /\ spc = "idle"
    /\ stopped' = TRUE
    /\ spc' = "broadcast"
    /\ UNCHANGED <<poolVars, workerVars, submitVars, cleanVars>>

StopBroadcast ==
    /\ spc = "broadcast"
    /\ Broadcast
    /\ spc' = "scan"
    /\ UNCHANGED <<ready, running, wg, workerVars, mu, kind, hand, timer,
                   stopped, cleanVars>>

\* Under s.mu every idle worker is sent the exit signal; a full channel would
\* block the send with s.mu held.
StopScan ==
    /\ spc = "scan"
    /\ mu = None
    /\ \A w \in ToSet(ready) : ch[w] = None
    /\ ch' = [w \in Workers |-> IF w \in ToSet(ready) THEN Nil ELSE ch[w]]
    /\ ready' = <<>>
    /\ spc' = "wait"
    /\ UNCHANGED <<running, waitq, wg, wpc, job, leaving, finishing, submitVars,
                   stopped, cleanVars>>

\* <-s.done and s.wg.Wait().
StopReturn ==
    /\ spc = "wait"
    /\ cpc = "gone"
    /\ wg = 0
    /\ spc' = "returned"
    /\ UNCHANGED <<poolVars, workerVars, submitVars, stopped, cleanVars>>

-----------------------------------------------------------------------------

Submitter(p) ==
    \/ SubmitPop(p) \/ SubmitReserve(p) \/ SubmitSend(p)
    \/ \E w \in Workers : SubmitSpawn(p, w)
    \/ WaitLoop(p) \/ WaitPark(p)
Worker(w) == \/ WorkerRecv(w) \/ WorkerRun(w) \/ WorkerCheck(w)
             \/ WorkerPush(w) \/ WorkerExit(w)
Cleaner == CleanSend \/ CleanExit
Stop == StopBroadcast \/ StopScan \/ StopReturn

Next ==
    \/ \E p \in Procs : \/ \E k \in Kinds[p] : SubmitBegin(p, k)
                        \/ Submitter(p)
                        \/ TimerExpires(p)
    \/ \E w \in Workers : Worker(w)
    \/ WorkerLeave \/ WorkerDone
    \/ \E i \in 1..Len(ready) : CleanCollect(i)
    \/ Cleaner
    \/ StopBegin \/ Stop

\* Goroutines that can run do run, tasks end, and timers fire; nothing obliges
\* anyone to submit, workers to stay idle for long, or Stop to be called.
Fairness ==
    /\ \A p \in Procs : WF_vars(Submitter(p)) /\ WF_vars(TimerExpires(p))
    /\ \A w \in Workers : WF_vars(Worker(w))
    /\ WF_vars(WorkerLeave) /\ WF_vars(WorkerDone)
    /\ WF_vars(Cleaner) /\ WF_vars(Stop)

Spec == Init /\ [][Next]_vars

FairSpec == Spec /\ Fairness

-----------------------------------------------------------------------------
(* Properties *)

\* The places from which a worker's channel may be sent to.
Senders(w) ==
    Cardinality({i \in DOMAIN ready : ready[i] = w})
    + Cardinality({i \in DOMAIN expired : expired[i] = w})
    + Cardinality({p \in Procs : hand[p] = w})

\* A worker that waits for its next task is in the hands of exactly one of the
\* idle stack, a submitter and the cleaner; any other is in nobody's.  Hence no
\* send to a worker ever blocks and no worker is given two tasks.
OneSenderPerWorker ==
    \A w \in Workers :
        Senders(w) = IF wpc[w] = "recv" /\ ch[w] = None THEN 1 ELSE 0

\* A task that Submit has accepted is never thrown away by the drainChan of a
\* worker that exits, nor left in a channel that is given back to chanPool.
AcceptedTaskKept ==
    \A w \in Workers : wpc[w] # "recv" => ch[w] = None

\* running counts the places taken by live workers, by workers on their way
\* out and by submitters about to start one; wg follows the goroutines.
Live == {w \in Workers : wpc[w] # "none"}
Spawning == {p \in Procs : pc[p] = "spawn"}

WorkersCounted ==
    /\ TypeOK
    /\ running = Cardinality(Live) + leaving + Cardinality(Spawning)
    /\ wg = Cardinality(Live) + leaving + finishing

\* Every task that Submit has accepted is taken up by its worker.
AcceptedTaskRuns == \A w \in Workers : (ch[w] # None) ~> (ch[w] = None)

\* Stop returns, once the tasks in hand have ended.
StopEnds == (spc # "idle") ~> (spc = "returned")

\* A submitter waiting for busy workers is woken, although those who arrive
\* later may take the freed worker first: it sleeps no longer than until
\* a worker has left the full pool or the pool is stopped.
WokenWhileFull ==
    \A p \in Procs : (pc[p] = "parked")
        ~> (pc[p] # "parked" \/ running < maxWorkers \/ stopped)

\* Submit blocks until a worker can be had or the pool has stopped.  (False
\* when idle workers are reclaimed, and when Stop is called: see README.md.)
SubmitUnblocks ==
    \A p \in Procs : (pc[p] = "parked") ~> (pc[p] # "parked")

-----------------------------------------------------------------------------
(* The inductive invariant *)

\* A submitter has a worker exactly when it is about to send to it, the cleaner
\* has some exactly when it is sending, and those who wait are parked.
PlacesInv ==
    /\ \A p \in Procs : hand[p] # None <=> pc[p] = "send"
    /\ cpc = "send" <=> expired # <<>>
    /\ \A i, j \in 1..Len(waitq) :
          /\ pc[waitq[i]] = "parked"
          /\ waitq[i] = waitq[j] => i = j

\* w is on the stack, in the hands of a submitter, or of the cleaner.
Stacked(w) == \E i \in 1..Len(ready) : ready[i] = w
Taken(w) == \E p \in Procs : hand[p] = w
Reclaimed(w) == \E i \in 1..Len(expired) : expired[i] = w

\* Whoever has a worker has it alone, and it waits for a task.
HoldersInv ==
    /\ \A i, j \in 1..Len(ready) : ready[i] = ready[j] => i = j
    /\ \A i, j \in 1..Len(expired) : expired[i] = expired[j] => i = j
    /\ \A p, q \in Procs : hand[p] = hand[q] /\ hand[p] # None => p = q
    /\ \A w \in Workers :
          /\ ~(Stacked(w) /\ Taken(w)) /\ ~(Stacked(w) /\ Reclaimed(w))
          /\ ~(Taken(w) /\ Reclaimed(w))
          /\ Stacked(w) \/ Taken(w) \/ Reclaimed(w)
               <=> wpc[w] = "recv" /\ ch[w] = None

IndInv == WorkersCounted /\ PlacesInv /\ HoldersInv /\ AcceptedTaskKept
=============================================================================
