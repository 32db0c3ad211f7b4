------------------------------- MODULE WPool --------------------------------
(***************************************************************************)
(* wpool.Pool, a pool fed by a task channel, and wpool.Adaptive, which     *)
(* resizes it.  Workers, submitters (one per task), Stop and one caller of *)
(* Resize run concurrently; an atomic or channel operation is one step.    *)
(* The caller of Resize is a user of Pool or the monitor of Adaptive.      *)
(*                                                                         *)
(* idle is the number of workers in their select: the counter differs from *)
(* it only between a worker's idle.Add and its select.  wg.Done is part of *)
(* the step that ends a worker, as nothing but Stop's Wait looks at wg.    *)
(* When the timer of the select fires the worker runs the same retirement  *)
(* loop as at the top and then the one at the top: it goes to the top.     *)
(* A task that panics is one that ends: safeRun recovers it.               *)
(***************************************************************************)
EXTENDS Integers, Sequences, FiniteSets, SequencesExt

CONSTANTS Workers,    \* worker goroutines, as many as can ever live at once
          Tasks,      \* one call of Submit, TrySubmit or SubmitTimeout each
          Kinds,      \* the calls used, a subset of submit, try, timeout
          Size,       \* size of NewPool and Adaptive's min
          Limit,      \* largest size asked for, Adaptive's max
          QCap,       \* capacity of the task channel, 4 * size in the code
          MaxResizes, \* bound on the calls of Resize
          None

ASSUME SizeAssumption == /\ Size \in 1 .. Limit
                         /\ QCap \in Nat \ {0}

ASSUME PoolAssumption ==
  /\ IsFiniteSet(Workers) /\ Limit \in 0 .. Cardinality(Workers)
  /\ Kinds \subseteq {"submit", "try", "timeout"}
  /\ MaxResizes \in Nat /\ None \notin Tasks

VARIABLES
  maxSize, running,  \* the atomics of Pool
  tasks,             \* the task channel
  stop,              \* how far Stop is: no, stored, closed, returned
  pc, cur,           \* each worker: where it is, the running it loaded
  job,               \* the task each worker runs
  call,              \* each task: new, submit, try, timeout (in the select),
                     \* queued, taken, done, refused
  late,              \* tasks sent after stop was closed
  mode,              \* pool or adaptive: who calls Resize
  ctl, arg, resizes  \* that caller: where it is, its operand, calls made

vars == <<maxSize, running, tasks, stop, pc, cur, job, call, late, mode,
          ctl, arg, resizes>>

workerVars == <<pc, cur, job>>
ctlVars == <<mode, ctl, arg, resizes>>

Live == {w \in Workers : pc[w] # "off"}
Closed == stop \in {"closed", "returned"}
Idle == Cardinality({w \in Workers : pc[w] = "wait"})

TypeOK ==
  /\ maxSize \in 1 .. Limit
  /\ running \in 0 .. Cardinality(Workers)
  /\ tasks \in Seq(Tasks) /\ Len(tasks) <= QCap
  /\ stop \in {"no", "stored", "closed", "returned"}
  /\ pc \in [Workers -> {"off", "load", "check", "cas", "wait", "run", "drain",
                         "drainrun"}]
  /\ cur \in [Workers -> 0 .. Cardinality(Workers)]
  /\ job \in [Workers -> Tasks \cup {None}]
  /\ call \in [Tasks -> Kinds \cup {"new", "queued", "taken", "done", "refused"}]
  /\ late \subseteq Tasks
  /\ mode \in {"pool", "adaptive"}
  /\ ctl \in {"idle", "spawn", "queue"}
  /\ arg \in 0 .. Cardinality(Workers)
  /\ resizes \in 0 .. MaxResizes

\* NewPool: maxSize is stored, then size workers are spawned.
Init == /\ maxSize = Size /\ running = Size
        /\ tasks = <<>> /\ stop = "no"
        /\ LET first == CHOOSE S \in SUBSET Workers : Cardinality(S) = Size
           IN pc = [w \in Workers |-> IF w \in first THEN "load" ELSE "off"]
        /\ cur = [w \in Workers |-> 0] /\ job = [w \in Workers |-> None]
        /\ call = [t \in Tasks |-> "new"] /\ late = {}
        /\ mode \in {"pool", "adaptive"}
        /\ ctl = "idle" /\ arg = 0 /\ resizes = 0

-----------------------------------------------------------------------------
(* Submit, TrySubmit, SubmitTimeout.                                       *)

SetCall(t, s) == call' = [call EXCEPT ![t] = s]

\* The test of stopped.
SubmitBegin(t, kind) ==
  /\ call[t] = "new"
  /\ SetCall(t, IF stop # "no" THEN "refused" ELSE kind)
  /\ UNCHANGED <<maxSize, running, tasks, stop, late, workerVars, ctlVars>>

SubmitSend(t) ==
  /\ call[t] \in Kinds
  /\ Len(tasks) < QCap
  /\ tasks' = Append(tasks, t)
  /\ SetCall(t, "queued")
  /\ late' = IF Closed THEN late \cup {t} ELSE late
  /\ UNCHANGED <<maxSize, running, stop, workerVars, ctlVars>>

\* The other cases of the three selects.
SubmitGiveUp(t) ==
  /\ \/ call[t] \in {"submit", "timeout"} /\ Closed
     \/ call[t] = "timeout"
     \/ call[t] = "try" /\ Len(tasks) = QCap
  /\ SetCall(t, "refused")
  /\ UNCHANGED <<maxSize, running, tasks, stop, late, workerVars, ctlVars>>

Submit(t) == (\E kind \in Kinds : SubmitBegin(t, kind)) \/ SubmitSend(t) \/ SubmitGiveUp(t)

-----------------------------------------------------------------------------
(* Workers.                                                                *)

Goto(w, l) == pc' = [pc EXCEPT ![w] = l]

WorkerLoad(w) ==
  /\ pc[w] = "load"
  /\ cur' = [cur EXCEPT ![w] = running]
  /\ Goto(w, "check")
  /\ UNCHANGED <<maxSize, running, tasks, stop, job, call, late, ctlVars>>

\* cur <= maxSize leaves the loop for the select.
WorkerCheck(w) ==
  /\ pc[w] = "check"
  /\ Goto(w, IF cur[w] <= maxSize THEN "wait" ELSE "cas")
  /\ cur' = [cur EXCEPT ![w] = IF cur[w] <= maxSize THEN 0 ELSE @]
  /\ UNCHANGED <<maxSize, running, tasks, stop, job, call, late, ctlVars>>

\* A bug the code avoids: the surplus is taken off running without comparing.
BlindRetire(w) ==
  /\ pc[w] = "cas"
  /\ running' = running - 1 /\ Goto(w, "off")
  /\ cur' = [cur EXCEPT ![w] = 0]
  /\ UNCHANGED <<maxSize, tasks, stop, job, call, late, ctlVars>>

\* Another: a failed CAS is tried again with the count it started from.
RetryStale(w) ==
  /\ pc[w] = "cas"
  /\ running = cur[w]
  /\ running' = running - 1 /\ Goto(w, "off")
  /\ cur' = [cur EXCEPT ![w] = 0]
  /\ UNCHANGED <<maxSize, tasks, stop, job, call, late, ctlVars>>

\* The CAS: the worker retires, or somebody changed running and it loads again.
WorkerCas(w) ==
  /\ pc[w] = "cas"
  /\ IF running = cur[w]
     THEN running' = running - 1 /\ Goto(w, "off")
     ELSE UNCHANGED running /\ Goto(w, "load")
  /\ cur' = [cur EXCEPT ![w] = 0]
  /\ UNCHANGED <<maxSize, tasks, stop, job, call, late, ctlVars>>

\* A task is received, in the select or while draining.
Receive(w) ==
  /\ tasks # <<>>
  /\ tasks' = Tail(tasks)
  /\ job' = [job EXCEPT ![w] = Head(tasks)]
  /\ SetCall(Head(tasks), "taken")

WorkerTake(w) ==
  /\ pc[w] = "wait"
  /\ Receive(w)
  /\ Goto(w, "run")
  /\ UNCHANGED <<maxSize, running, stop, cur, late, ctlVars>>

\* safeRun returns.
WorkerDone(w) ==
  /\ pc[w] \in {"run", "drainrun"}
  /\ SetCall(job[w], "done")
  /\ job' = [job EXCEPT ![w] = None]
  /\ Goto(w, IF pc[w] = "run" THEN "load" ELSE "drain")
  /\ UNCHANGED <<maxSize, running, tasks, stop, cur, late, ctlVars>>

WorkerTimer(w) ==
  /\ pc[w] = "wait"
  /\ Goto(w, "load")
  /\ UNCHANGED <<maxSize, running, tasks, stop, cur, job, call, late, ctlVars>>

\* A bug the code avoids: a worker that sees stop leaves without draining.
LeaveAtOnce(w) ==
  /\ pc[w] = "wait" /\ Closed
  /\ Goto(w, "off") /\ running' = running - 1
  /\ UNCHANGED <<maxSize, tasks, stop, cur, job, call, late, ctlVars>>

WorkerStop(w) ==
  /\ pc[w] = "wait" /\ Closed
  /\ Goto(w, "drain")
  /\ UNCHANGED <<maxSize, running, tasks, stop, cur, job, call, late, ctlVars>>

WorkerDrain(w) ==
  /\ pc[w] = "drain"
  /\ Receive(w)
  /\ Goto(w, "drainrun")
  /\ UNCHANGED <<maxSize, running, stop, cur, late, ctlVars>>

\* The queue is empty: return and the deferred running.Add(-1).
WorkerExit(w) ==
  /\ pc[w] = "drain" /\ tasks = <<>>
  /\ running' = running - 1
  /\ Goto(w, "off")
  /\ UNCHANGED <<maxSize, tasks, stop, cur, job, call, late, ctlVars>>

WorkerStep(w) == \/ WorkerLoad(w) \/ WorkerCheck(w) \/ WorkerCas(w)
                 \/ WorkerTake(w) \/ WorkerDone(w)
                 \/ WorkerStop(w) \/ WorkerDrain(w) \/ WorkerExit(w)

-----------------------------------------------------------------------------
(* Stop, Resize and Adaptive's monitor.                                    *)

Stop ==
  /\ \/ stop = "no" /\ stop' = "stored"
     \/ stop = "stored" /\ stop' = "closed"
     \/ stop = "closed" /\ Live = {} /\ stop' = "returned"
  /\ UNCHANGED <<maxSize, running, tasks, call, late, workerVars, ctlVars>>

\* The swap of maxSize; arg is the number of workers still to spawn.
ResizeTo(n) ==
  /\ resizes < MaxResizes
  /\ resizes' = resizes + 1
  /\ maxSize' = n
  /\ arg' = IF n > maxSize THEN n - maxSize ELSE 0
  /\ ctl' = IF n > maxSize THEN "spawn" ELSE "idle"

Resize ==
  /\ mode = "pool" /\ ctl = "idle"
  /\ \E n \in 1 .. Limit : ResizeTo(n)
  /\ UNCHANGED <<running, tasks, stop, call, late, mode, workerVars>>

\* One turn of spawn's loop.
Spawn ==
  /\ ctl = "spawn"
  /\ Live # Workers
  /\ Goto(CHOOSE w \in Workers : w \notin Live, "load")
  /\ running' = running + 1
  /\ arg' = arg - 1
  /\ ctl' = IF arg = 1 THEN "idle" ELSE "spawn"
  /\ UNCHANGED <<maxSize, tasks, stop, cur, job, call, late, mode, resizes>>

Clamp(n) == IF n < Size THEN Size ELSE IF n > Limit THEN Limit ELSE n
Delta(n) == IF n \div 4 < 1 THEN 1 ELSE n \div 4

\* adjust samples running, then idle and the queue, and decides.
AdjustSample ==
  /\ mode = "adaptive" /\ ctl = "idle"
  /\ arg' = running
  /\ ctl' = "queue"
  /\ UNCHANGED <<maxSize, running, tasks, stop, call, late, mode, resizes, workerVars>>

AdjustDecide ==
  /\ ctl = "queue"
  /\ LET target == CASE Len(tasks) * 4 > QCap * 3 -> Clamp(arg + Delta(arg))
                     [] Len(tasks) * 4 <= QCap * 3 /\ arg > 0 /\ Idle * 2 > arg ->
                          Clamp(arg - Delta(arg))
                     [] OTHER -> arg
     IN IF target # arg
        THEN ResizeTo(target)
        ELSE ctl' = "idle" /\ arg' = 0 /\ UNCHANGED <<maxSize, resizes>>
  /\ UNCHANGED <<running, tasks, stop, call, late, mode, workerVars>>

Next == \/ \E t \in Tasks : Submit(t)
        \/ \E w \in Workers : WorkerStep(w) \/ WorkerTimer(w)
        \/ Stop
        \/ Resize \/ Spawn \/ AdjustSample \/ AdjustDecide

\* The scheduler runs every worker and a started Stop or Resize on; a timer
\* need not fire, and a worker that comes back to its select again and again
\* while a task waits or stop is closed sees one of the two in the end, since
\* Go's select chooses among its ready cases at random.
Fairness == /\ \A w \in Workers : /\ WF_vars(WorkerStep(w))
                                  /\ SF_vars(WorkerTake(w) \/ WorkerStop(w))
            /\ WF_vars(Stop /\ stop # "no")
            /\ WF_vars(Spawn)

Spec == Init /\ [][Next]_vars

FairSpec == Spec /\ Fairness

-----------------------------------------------------------------------------
(* Properties.                                                             *)

\* However many workers find running above maxSize at once, and whatever
\* Resize and Adaptive do meanwhile, running counts the workers that have
\* not left, and the pool keeps a worker until it is stopped.
PoolKeepsWorker == /\ TypeOK
                   /\ running = Cardinality(Live)
                   /\ ~Closed => running >= 1

\* When Stop returns, no task accepted before stop was closed is left in the
\* channel or unfinished.  (A submitter that tested stopped before Stop set it
\* may still win the send afterwards: such a task is lost although Submit
\* returned true.)
StopDrains == stop = "returned" =>
                \A t \in Tasks : call[t] \in {"queued", "taken"} => t \in late

\* A task accepted before stop was closed runs to its end, even when workers
\* retire and the pool is resized and stopped.
AcceptedRuns == \A t \in Tasks :
                  (call[t] = "queued" /\ t \notin late) ~> (call[t] = "done")

\* Stop returns.
StopReturns == (stop = "stored") ~> (stop = "returned")

-----------------------------------------------------------------------------
(* The inductive invariant.                                                *)

\* A worker that has seen a surplus saw at least two workers, only workers that
\* have seen stop drain, and the workers running a task are those with a job.
WorkersInv ==
  /\ \A w \in Workers :
        /\ pc[w] = "cas" => cur[w] >= 2
        /\ pc[w] \in {"drain", "drainrun"} => Closed
        /\ job[w] # None <=> pc[w] \in {"run", "drainrun"}
  /\ ctl = "spawn" => arg >= 1

\* An accepted task that has not ended is in the channel or with a worker, and
\* once all workers have left or Stop has returned, the channel holds only
\* late tasks.
TasksInv ==
  /\ \A t \in Tasks :
        /\ call[t] = "queued" => \E i \in 1 .. Len(tasks) : tasks[i] = t
        /\ call[t] = "taken" => \E w \in Workers : job[w] = t
  /\ Live = {} \/ stop = "returned" =>
        \A i \in 1 .. Len(tasks) : tasks[i] \in late

IndInv == PoolKeepsWorker /\ StopDrains /\ WorkersInv /\ TasksInv
=============================================================================
