---------------------------- MODULE WPoolProofs -----------------------------
(***************************************************************************)
(* Proofs about wpool.Pool and wpool.Adaptive for every set of workers and *)
(* tasks, every size, limit and capacity: the pool keeps a worker until it *)
(* is stopped, and Stop loses no task accepted before it closed stop.      *)
(***************************************************************************)
EXTENDS WPool, SharedLemmas

\* The values of pc and call, for the steps that change them.
WorkerPlaces == {"off", "load", "check", "cas", "wait", "run", "drain", "drainrun"}
CallStates == Kinds \cup {"new", "queued", "taken", "done", "refused"}

-----------------------------------------------------------------------------
(* What most steps leave alone                                             *)

LEMMA Constants ==
    /\ Limit \in Nat /\ Size \in Nat /\ Cardinality(Workers) \in Nat
    /\ Size >= 1 /\ Size <= Limit /\ Limit <= Cardinality(Workers)
    /\ QCap \in Nat /\ QCap >= 1 /\ MaxResizes \in Nat
  <1>1. Cardinality(Workers) \in Nat
    BY PoolAssumption, FS_CardinalityType
  <1> QED BY <1>1, SizeAssumption, PoolAssumption

\* A worker that starts or leaves changes the number of live workers by one.
LEMMA LiveChange ==
    /\ Live \subseteq Workers /\ IsFiniteSet(Live) /\ Cardinality(Live) \in Nat
    /\ Cardinality(Live) <= Cardinality(Workers)
    /\ Cardinality(Live) >= 1 <=> Live # {}
    /\ \A w \in Live : Cardinality(Live \ {w}) = Cardinality(Live) - 1
    /\ \A w \in Workers \ Live : /\ Cardinality(Live \cup {w}) = Cardinality(Live) + 1
                                 /\ Cardinality(Live) < Cardinality(Workers)
  <1>1. Live \subseteq Workers
    BY DEF Live
  <1>2. IsFiniteSet(Live) /\ Cardinality(Live) \in Nat
    BY <1>1, PoolAssumption, FS_Subset, FS_CardinalityType
  <1>3. Cardinality(Live) <= Cardinality(Workers)
    BY <1>1, PoolAssumption, FS_Subset
  <1>4. Cardinality(Live) >= 1 <=> Live # {}
    BY <1>2, FS_EmptySet
  <1>5. ASSUME NEW w \in Live
        PROVE  Cardinality(Live \ {w}) = Cardinality(Live) - 1
    BY <1>2, FS_RemoveElement
  <1>6. ASSUME NEW w \in Workers \ Live
        PROVE  /\ Cardinality(Live \cup {w}) = Cardinality(Live) + 1
               /\ Cardinality(Live) < Cardinality(Workers)
    <2>1. Cardinality(Live \cup {w}) = Cardinality(Live) + 1
      BY <1>2, <1>6, FS_AddElement
    <2>2. Live \cup {w} \subseteq Workers
      BY <1>1, <1>6
    <2>3. Cardinality(Live \cup {w}) <= Cardinality(Workers)
      BY <2>2, PoolAssumption, FS_Subset
    <2> QED BY <1>2, <2>1, <2>3, Constants
  <1> QED BY <1>1, <1>2, <1>3, <1>4, <1>5, <1>6

\* Steps that move no worker in or out, and no task.
LEMMA TasksKept ==
    ASSUME IndInv, UNCHANGED <<tasks, call, late, job>>, Live' = Live,
           stop' = stop
    PROVE  StopDrains' /\ TasksInv'
  <1>1. StopDrains'
    BY DEF IndInv, StopDrains
  <1>2. TasksInv'
    BY DEF IndInv, TasksInv
  <1> QED BY <1>1, <1>2

\* Steps of a caller of Submit, TrySubmit or SubmitTimeout: the workers stay.
LEMMA WorkersKept ==
    ASSUME IndInv, UNCHANGED <<maxSize, running, stop, workerVars, ctlVars>>,
           tasks' \in Seq(Tasks), Len(tasks') <= QCap,
           call' \in [Tasks -> CallStates], late' \subseteq Tasks
    PROVE  PoolKeepsWorker' /\ WorkersInv' /\ Live' = Live
  <1> USE DEF workerVars, ctlVars
  <1>1. Live' = Live
    BY DEF Live
  <1>2. TypeOK'
    BY DEF IndInv, PoolKeepsWorker, TypeOK, CallStates
  <1>3. PoolKeepsWorker'
    BY <1>1, <1>2 DEF IndInv, PoolKeepsWorker, Closed
  <1>4. WorkersInv'
    BY DEF IndInv, WorkersInv, Closed
  <1> QED BY <1>1, <1>3, <1>4

-----------------------------------------------------------------------------
(* The initial state                                                       *)

LEMMA InitIndInv == Init => IndInv
  <1> SUFFICES ASSUME Init PROVE IndInv
    OBVIOUS
  <1> DEFINE first == CHOOSE S \in SUBSET Workers : Cardinality(S) = Size
  <1>1. first \in SUBSET Workers /\ Cardinality(first) = Size
    <2>1. Size \in 0..Cardinality(Workers)
      BY Constants
    <2>2. \E S \in SUBSET Workers : Cardinality(S) = Size
      BY <2>1, PoolAssumption, SubsetOfSize
    <2> QED BY <2>2
  <1>2. pc = [w \in Workers |-> IF w \in first THEN "load" ELSE "off"]
    BY DEF Init
  <1> HIDE DEF first
  <1>3. Live = first
    BY <1>1, <1>2 DEF Live
  <1>4. TypeOK
    <2>1. tasks \in Seq(Tasks) /\ Len(tasks) = 0
      BY EmptySeq DEF Init
    <2>2. pc \in [Workers -> WorkerPlaces]
      BY <1>2 DEF WorkerPlaces
    <2> QED BY <2>1, <2>2, Constants DEF Init, TypeOK, WorkerPlaces
  <1>5. PoolKeepsWorker
    BY <1>1, <1>3, <1>4, Constants DEF Init, PoolKeepsWorker
  <1>6. StopDrains
    BY DEF Init, StopDrains
  <1>7. WorkersInv
    BY <1>2 DEF Init, WorkersInv
  <1>8. TasksInv
    BY DEF Init, TasksInv
  <1> QED BY <1>5, <1>6, <1>7, <1>8 DEF IndInv

-----------------------------------------------------------------------------
(* Steps of submitters                                                     *)

\* The test of stopped, and the selects that do not send.
LEMMA SubmitQuietStep ==
    ASSUME IndInv, NEW t \in Tasks,
           (\E kind \in Kinds : SubmitBegin(t, kind)) \/ SubmitGiveUp(t)
    PROVE  IndInv'
  <1> USE DEF SubmitBegin, SubmitGiveUp, SetCall
  <1>1. PICK s \in Kinds \cup {"refused"} : call' = [call EXCEPT ![t] = s]
    OBVIOUS
  <1>2. UNCHANGED <<maxSize, running, tasks, stop, late, workerVars, ctlVars>>
    OBVIOUS
  <1>3. TypeOK
    BY DEF IndInv, PoolKeepsWorker
  <1>4. call' \in [Tasks -> CallStates]
    BY <1>1, <1>3 DEF TypeOK, CallStates
  <1> HIDE DEF SubmitBegin, SubmitGiveUp, SetCall
  <1>5. PoolKeepsWorker' /\ WorkersInv' /\ Live' = Live
    BY <1>2, <1>3, <1>4, WorkersKept DEF TypeOK
  <1>6. \A u \in Tasks : call'[u] \in {"queued", "taken"} => call'[u] = call[u]
    <2>1. s \notin {"queued", "taken"}
      BY PoolAssumption
    <2> QED BY <1>1, <1>3, <2>1 DEF TypeOK
  <1>7. StopDrains' /\ TasksInv'
    <2>1. StopDrains'
      BY <1>2, <1>6 DEF IndInv, StopDrains
    <2>2. TasksInv'
      BY <1>2, <1>5, <1>6 DEF IndInv, TasksInv, workerVars
    <2> QED BY <2>1, <2>2
  <1> QED BY <1>5, <1>7 DEF IndInv

\* A task that enters the channel when no worker is left is a late one.
LEMMA SubmitSendStep ==
    ASSUME IndInv, NEW t \in Tasks, SubmitSend(t)
    PROVE  IndInv'
  <1> USE DEF SubmitSend, SetCall
  <1>1. TypeOK
    BY DEF IndInv, PoolKeepsWorker
  <1>2. PICK n \in Nat : n = Len(tasks)
    BY <1>1 DEF TypeOK
  <1>3. /\ tasks' \in Seq(Tasks) /\ Len(tasks') = n + 1 /\ tasks'[n + 1] = t
        /\ \A i \in 1..n : tasks'[i] = tasks[i]
    BY <1>1, <1>2, AppendProperties DEF TypeOK
  <1>4. Len(tasks') <= QCap
    BY <1>2, <1>3, Constants
  <1>5. call'[t] = "queued" /\ \A u \in Tasks \ {t} : call'[u] = call[u]
    BY <1>1 DEF TypeOK
  <1>6. call' \in [Tasks -> CallStates] /\ late' \subseteq Tasks
    BY <1>1 DEF TypeOK, CallStates
  <1>7. /\ late \subseteq late'
        /\ Closed => t \in late'
        /\ UNCHANGED <<maxSize, running, stop, workerVars, ctlVars>>
    OBVIOUS
  <1> HIDE DEF SubmitSend, SetCall
  <1>8. PoolKeepsWorker' /\ WorkersInv' /\ Live' = Live
    BY <1>3, <1>4, <1>6, <1>7, WorkersKept
  <1>9. Live = {} => Closed
    BY LiveChange DEF IndInv, PoolKeepsWorker
  <1>10. StopDrains'
    BY <1>5, <1>7 DEF IndInv, StopDrains, Closed
  <1>11. TasksInv'
    <2>1. n + 1 \in 1..Len(tasks') /\ \A i \in 1..n : i \in 1..Len(tasks')
      BY <1>3
    <2>2. ASSUME NEW u \in Tasks
          PROVE  /\ call'[u] = "queued" => \E i \in 1..Len(tasks') : tasks'[i] = u
                 /\ call'[u] = "taken" => \E w \in Workers : job'[w] = u
      <3>1. CASE u = t
        BY <1>3, <1>5, <2>1, <3>1
      <3>2. CASE u # t
        BY <1>2, <1>3, <1>5, <1>7, <2>1, <3>2 DEF IndInv, TasksInv, workerVars
      <3> QED BY <3>1, <3>2
    <2>3. ASSUME Live' = {} \/ stop' = "returned", NEW i \in 1..Len(tasks')
          PROVE  tasks'[i] \in late'
      <3>1. t \in late'
        BY <1>7, <1>8, <1>9, <2>3 DEF Closed
      <3>2. i = n + 1 \/ i \in 1..n
        BY <1>3
      <3>3. i \in 1..n => tasks[i] \in late
        BY <1>2, <1>7, <1>8, <2>3 DEF IndInv, TasksInv
      <3> QED BY <1>3, <1>7, <3>1, <3>2, <3>3
    <2> QED BY <2>2, <2>3 DEF TasksInv
  <1> QED BY <1>8, <1>10, <1>11 DEF IndInv

-----------------------------------------------------------------------------
(* Steps of workers                                                        *)

\* A worker that stays, without a task before or after, goes on to x.
LEMMA WorkerMove ==
    ASSUME IndInv, NEW w \in Workers, NEW x \in {"load", "check", "cas", "wait", "drain"},
           pc[w] \in {"load", "check", "cas", "wait", "drain"},
           pc' = [pc EXCEPT ![w] = x],
           NEW c \in 0..Cardinality(Workers), cur' = [cur EXCEPT ![w] = c],
           x = "cas" => c >= 2, x = "drain" => Closed,
           UNCHANGED <<maxSize, running, tasks, stop, job, call, late, ctlVars>>
    PROVE  IndInv'
  <1> USE DEF ctlVars
  <1>1. TypeOK
    BY DEF IndInv, PoolKeepsWorker
  <1>2. /\ pc'[w] = x /\ cur'[w] = c
        /\ \A v \in Workers \ {w} : pc'[v] = pc[v] /\ cur'[v] = cur[v]
    BY <1>1 DEF TypeOK
  <1>3. TypeOK'
    BY <1>1 DEF TypeOK
  <1>4. Live' = Live
    BY <1>2 DEF Live
  <1>5. PoolKeepsWorker'
    BY <1>3, <1>4 DEF IndInv, PoolKeepsWorker, Closed
  <1>6. WorkersInv'
    BY <1>2 DEF IndInv, WorkersInv, Closed
  <1>7. StopDrains' /\ TasksInv'
    BY <1>4, TasksKept
  <1> QED BY <1>5, <1>6, <1>7 DEF IndInv

LEMMA WorkerLoadStep ==
    ASSUME IndInv, NEW w \in Workers, WorkerLoad(w)
    PROVE  IndInv'
  <1>1. PICK c \in 0..Cardinality(Workers) : c = running
    BY DEF IndInv, PoolKeepsWorker, TypeOK
  <1> QED BY <1>1, WorkerMove DEF WorkerLoad, Goto

LEMMA WorkerCheckStep ==
    ASSUME IndInv, NEW w \in Workers, WorkerCheck(w)
    PROVE  IndInv'
  <1>1. TypeOK
    BY DEF IndInv, PoolKeepsWorker
  <1>2. PICK c \in 0..Cardinality(Workers) : c = IF cur[w] <= maxSize THEN 0 ELSE cur[w]
    BY <1>1, Constants DEF TypeOK
  <1>3. cur' = [cur EXCEPT ![w] = c]
    BY <1>2 DEF WorkerCheck
  <1>4. PICK x \in {"wait", "cas"} : x = IF cur[w] <= maxSize THEN "wait" ELSE "cas"
    OBVIOUS
  <1>5. pc' = [pc EXCEPT ![w] = x] /\ pc[w] = "check"
    BY <1>4 DEF WorkerCheck, Goto
  <1>6. x = "cas" => c >= 2
    BY <1>1, <1>2, <1>4, Constants DEF TypeOK
  <1>7. UNCHANGED <<maxSize, running, tasks, stop, job, call, late, ctlVars>>
    BY DEF WorkerCheck
  <1> QED BY <1>3, <1>5, <1>6, <1>7, WorkerMove

\* The timer of the select fires, or the worker sees stop.
LEMMA WorkerWaitStep ==
    ASSUME IndInv, NEW w \in Workers, WorkerTimer(w) \/ WorkerStop(w)
    PROVE  IndInv'
  <1>1. PICK c \in 0..Cardinality(Workers) : c = cur[w]
    BY DEF IndInv, PoolKeepsWorker, TypeOK
  <1>2. cur' = [cur EXCEPT ![w] = c]
    BY <1>1 DEF IndInv, PoolKeepsWorker, TypeOK, WorkerTimer, WorkerStop
  <1>3. PICK x \in {"load", "drain"} : pc' = [pc EXCEPT ![w] = x] /\ (x = "drain" => Closed)
    BY DEF WorkerTimer, WorkerStop, Goto
  <1>4. /\ pc[w] = "wait"
        /\ UNCHANGED <<maxSize, running, tasks, stop, job, call, late, ctlVars>>
    BY DEF WorkerTimer, WorkerStop
  <1> QED BY <1>2, <1>3, <1>4, WorkerMove

\* A worker leaves; the last one leaves only when the channel is empty.
LEMMA WorkerGone ==
    ASSUME IndInv, NEW w \in Workers, pc[w] \in {"cas", "drain"},
           pc' = [pc EXCEPT ![w] = "off"], running' = running - 1,
           cur' \in [Workers -> 0..Cardinality(Workers)],
           \A v \in Workers \ {w} : cur'[v] = cur[v],
           running >= 2 \/ (Closed /\ tasks = <<>>),
           UNCHANGED <<maxSize, tasks, stop, job, call, late, ctlVars>>
    PROVE  IndInv'
  <1> USE DEF ctlVars
  <1>1. TypeOK
    BY DEF IndInv, PoolKeepsWorker
  <1>2. pc'[w] = "off" /\ \A v \in Workers \ {w} : pc'[v] = pc[v]
    BY <1>1 DEF TypeOK
  <1>3. w \in Live /\ Live' = Live \ {w}
    BY <1>2 DEF Live
  <1>4. /\ Cardinality(Live') = Cardinality(Live) - 1
        /\ running = Cardinality(Live) /\ running' = Cardinality(Live')
        /\ running \in Nat /\ running >= 1
    <2>1. Cardinality(Live') = Cardinality(Live) - 1
      BY <1>3, LiveChange
    <2>2. running = Cardinality(Live)
      BY DEF IndInv, PoolKeepsWorker
    <2>3. running \in Nat /\ running >= 1
      BY <1>3, <2>2, LiveChange
    <2> QED BY <2>1, <2>2, <2>3
  <1>5. TypeOK'
    <2>1. running' \in 0..Cardinality(Workers)
      BY <1>1, <1>4, Constants DEF TypeOK
    <2> QED BY <1>1, <2>1 DEF TypeOK
  <1>6. PoolKeepsWorker'
    <2>1. ~Closed' => running' >= 1
      BY <1>4 DEF Closed
    <2> QED BY <1>4, <1>5, <2>1 DEF PoolKeepsWorker
  <1>7. WorkersInv'
    BY <1>2 DEF IndInv, WorkersInv, Closed
  <1>8. StopDrains'
    BY DEF IndInv, StopDrains
  <1>9. TasksInv'
    <2>1. CASE running >= 2
      <3>1. Cardinality({}) = 0
        BY FS_EmptySet
      <3>2. Cardinality(Live') # 0
        BY <1>4, <2>1
      <3>3. Live' # {}
        BY <3>1, <3>2, Zenon
      <3> QED BY <3>3 DEF IndInv, TasksInv
    <2>2. CASE tasks = <<>>
      <3>1. Len(tasks) = 0 /\ tasks' = tasks
        BY <2>2
      <3>2. \A i \in 1..Len(tasks') : tasks'[i] \in late'
        BY <3>1
      <3>3. \A t \in Tasks :
              /\ call'[t] = "queued" => \E i \in 1..Len(tasks') : tasks'[i] = t
              /\ call'[t] = "taken" => \E v \in Workers : job'[v] = t
        BY DEF IndInv, TasksInv
      <3> QED BY <3>2, <3>3 DEF TasksInv
    <2> QED BY <2>1, <2>2
  <1> QED BY <1>6, <1>7, <1>8, <1>9 DEF IndInv

LEMMA WorkerCasStep ==
    ASSUME IndInv, NEW w \in Workers, WorkerCas(w)
    PROVE  IndInv'
  <1>1. /\ pc[w] = "cas" /\ cur' = [cur EXCEPT ![w] = 0]
        /\ UNCHANGED <<maxSize, tasks, stop, job, call, late, ctlVars>>
    BY DEF WorkerCas
  <1>2. TypeOK
    BY DEF IndInv, PoolKeepsWorker
  <1>3. 0 \in 0..Cardinality(Workers)
    BY Constants
  <1>4. CASE running = cur[w]
    <2>1. running' = running - 1 /\ pc' = [pc EXCEPT ![w] = "off"]
      BY <1>4 DEF WorkerCas, Goto
    <2>2. running >= 2
      BY <1>1, <1>4 DEF IndInv, WorkersInv
    <2>3. /\ cur' \in [Workers -> 0..Cardinality(Workers)]
          /\ \A v \in Workers \ {w} : cur'[v] = cur[v]
      BY <1>1, <1>2, <1>3 DEF TypeOK
    <2> QED BY <1>1, <2>1, <2>2, <2>3, WorkerGone
  <1>5. CASE running # cur[w]
    <2>1. running' = running /\ pc' = [pc EXCEPT ![w] = "load"]
      BY <1>5 DEF WorkerCas, Goto
    <2> QED BY <1>1, <1>3, <2>1, WorkerMove
  <1> QED BY <1>4, <1>5

LEMMA WorkerExitStep ==
    ASSUME IndInv, NEW w \in Workers, WorkerExit(w)
    PROVE  IndInv'
  <1>1. /\ pc[w] = "drain" /\ tasks = <<>> /\ running' = running - 1
        /\ pc' = [pc EXCEPT ![w] = "off"]
        /\ UNCHANGED <<maxSize, tasks, stop, cur, job, call, late, ctlVars>>
    BY DEF WorkerExit, Goto
  <1>2. Closed
    BY <1>1 DEF IndInv, WorkersInv
  <1>3. cur' \in [Workers -> 0..Cardinality(Workers)]
    BY <1>1 DEF IndInv, PoolKeepsWorker, TypeOK
  <1> QED BY <1>1, <1>2, <1>3, WorkerGone

\* A task is received, in the select or while draining.
LEMMA WorkerReceiveStep ==
    ASSUME IndInv, NEW w \in Workers, WorkerTake(w) \/ WorkerDrain(w)
    PROVE  IndInv'
  <1> USE DEF ctlVars
  <1>1. TypeOK
    BY DEF IndInv, PoolKeepsWorker
  <1>2. PICK x \in {"run", "drainrun"} :
          /\ pc' = [pc EXCEPT ![w] = x] /\ pc[w] \in {"wait", "drain"}
          /\ x = "drainrun" => pc[w] = "drain"
    BY DEF WorkerTake, WorkerDrain, Goto
  <1>3. /\ Receive(w) /\ UNCHANGED <<maxSize, running, stop, cur, late, ctlVars>>
    BY DEF WorkerTake, WorkerDrain
  <1>4. PICK n \in Nat : n = Len(tasks)
    BY <1>1 DEF TypeOK
  <1>5. /\ n >= 1 /\ Head(tasks) = tasks[1] /\ tasks[1] \in Tasks
        /\ tasks' \in Seq(Tasks) /\ Len(tasks') = n - 1
        /\ \A i \in 1..n-1 : tasks'[i] = tasks[i + 1]
    BY <1>1, <1>3, <1>4, HeadTailProperties, ElementOfSeq DEF TypeOK, Receive
  <1>6. PICK t \in Tasks : t = tasks[1]
    BY <1>5
  <1>7. job' = [job EXCEPT ![w] = t] /\ call' = [call EXCEPT ![t] = "taken"]
    BY <1>3, <1>5, <1>6 DEF Receive, SetCall
  <1>8. /\ pc'[w] = x /\ job'[w] = t /\ call'[t] = "taken"
        /\ \A v \in Workers \ {w} : pc'[v] = pc[v] /\ job'[v] = job[v]
        /\ \A u \in Tasks \ {t} : call'[u] = call[u]
    BY <1>1, <1>2, <1>7 DEF TypeOK
  <1>9. TypeOK'
    <2>1. Len(tasks') <= QCap
      BY <1>1, <1>4, <1>5, Constants DEF TypeOK
    <2> QED BY <1>1, <1>2, <1>3, <1>5, <1>7, <2>1 DEF TypeOK
  <1>10. Live' = Live /\ w \in Live
    BY <1>2, <1>8 DEF Live
  <1>11. PoolKeepsWorker'
    BY <1>3, <1>9, <1>10 DEF IndInv, PoolKeepsWorker, Closed
  <1>12. job[w] = None /\ t # None
    BY <1>2, PoolAssumption DEF IndInv, WorkersInv
  <1>13. WorkersInv'
    BY <1>2, <1>3, <1>8, <1>12 DEF IndInv, WorkersInv, Closed
  <1>14. StopDrains'
    <2>1. stop = "returned" => t \in late
      <3>1. 1 \in 1..n
        BY <1>5
      <3> QED BY <1>4, <1>6, <3>1 DEF IndInv, TasksInv
    <2> QED BY <1>3, <1>8, <2>1 DEF IndInv, StopDrains
  <1>15. ASSUME NEW u \in Tasks
         PROVE  /\ call'[u] = "queued" => \E i \in 1..Len(tasks') : tasks'[i] = u
                /\ call'[u] = "taken" => \E v \in Workers : job'[v] = u
    <2>1. CASE u = t
      BY <1>8, <2>1
    <2>2. CASE u # t
      <3>1. call'[u] = call[u]
        BY <1>8, <2>2
      <3>2. ASSUME call[u] = "queued"
            PROVE  \E i \in 1..Len(tasks') : tasks'[i] = u
        <4>1. PICK i \in 1..n : tasks[i] = u
          BY <1>4, <3>2 DEF IndInv, TasksInv
        <4>2. i # 1
          BY <1>6, <2>2, <4>1
        <4>3. i - 1 \in 1..n-1 /\ (i - 1) + 1 = i
          BY <4>2
        <4>4. tasks'[i - 1] = u
          BY <1>5, <4>1, <4>3
        <4> QED BY <1>5, <4>3, <4>4
      <3>3. ASSUME call[u] = "taken"
            PROVE  \E v \in Workers : job'[v] = u
        <4>1. PICK v \in Workers : job[v] = u
          BY <3>3 DEF IndInv, TasksInv
        <4>2. v # w
          BY <1>12, <4>1, PoolAssumption
        <4> QED BY <1>8, <4>1, <4>2
      <3> QED BY <3>1, <3>2, <3>3
    <2> QED BY <2>1, <2>2
  <1>16. ASSUME stop = "returned", NEW i \in 1..Len(tasks')
         PROVE  tasks'[i] \in late'
    <2>1. i \in 1..n-1 /\ i + 1 \in 1..n
      BY <1>5
    <2>2. tasks[i + 1] \in late
      BY <1>4, <1>16, <2>1 DEF IndInv, TasksInv
    <2> QED BY <1>3, <1>5, <2>1, <2>2
  <1>17. TasksInv'
    BY <1>3, <1>10, <1>15, <1>16 DEF TasksInv
  <1> QED BY <1>11, <1>13, <1>14, <1>17 DEF IndInv

LEMMA WorkerDoneStep ==
    ASSUME IndInv, NEW w \in Workers, WorkerDone(w)
    PROVE  IndInv'
  <1> USE DEF ctlVars
  <1>1. TypeOK
    BY DEF IndInv, PoolKeepsWorker
  <1>2. PICK x \in {"load", "drain"} :
          /\ pc' = [pc EXCEPT ![w] = x] /\ pc[w] \in {"run", "drainrun"}
          /\ x = "drain" => pc[w] = "drainrun"
    BY DEF WorkerDone, Goto
  <1>3. /\ job' = [job EXCEPT ![w] = None] /\ call' = [call EXCEPT ![job[w]] = "done"]
        /\ UNCHANGED <<maxSize, running, tasks, stop, cur, late, ctlVars>>
    BY DEF WorkerDone, SetCall
  <1>4. PICK t \in Tasks : job[w] = t
    BY <1>1, <1>2 DEF IndInv, WorkersInv, TypeOK
  <1>5. call' = [call EXCEPT ![t] = "done"]
    BY <1>3, <1>4
  <1>6. /\ pc'[w] = x /\ job'[w] = None /\ call'[t] = "done"
        /\ \A v \in Workers \ {w} : pc'[v] = pc[v] /\ job'[v] = job[v]
        /\ \A u \in Tasks \ {t} : call'[u] = call[u]
    BY <1>1, <1>2, <1>3, <1>5 DEF TypeOK
  <1>7. TypeOK'
    BY <1>1, <1>2, <1>3, <1>5 DEF TypeOK
  <1>8. Live' = Live
    BY <1>2, <1>6 DEF Live
  <1>9. PoolKeepsWorker'
    BY <1>3, <1>7, <1>8 DEF IndInv, PoolKeepsWorker, Closed
  <1>10. WorkersInv'
    BY <1>2, <1>3, <1>6 DEF IndInv, WorkersInv, Closed
  <1>11. StopDrains'
    BY <1>3, <1>6 DEF IndInv, StopDrains
  <1>12. ASSUME NEW u \in Tasks, call'[u] = "taken"
         PROVE  \E v \in Workers : job'[v] = u
    <2>1. u # t /\ call[u] = "taken"
      BY <1>6, <1>12
    <2>2. PICK v \in Workers : job[v] = u
      BY <2>1 DEF IndInv, TasksInv
    <2> QED BY <1>4, <1>6, <2>1, <2>2
  <1>13. \A u \in Tasks : call'[u] = "queued" => call[u] = "queued"
    BY <1>6
  <1>14. TasksInv'
    BY <1>3, <1>8, <1>12, <1>13 DEF IndInv, TasksInv
  <1> QED BY <1>9, <1>10, <1>11, <1>14 DEF IndInv

-----------------------------------------------------------------------------
(* Stop, Resize and the monitor of Adaptive                                *)

\* Stop returns only when all workers have left: no task is with a worker, and
\* those in the channel are late.
LEMMA StopStep ==
    ASSUME IndInv, Stop
    PROVE  IndInv'
  <1> USE DEF workerVars, ctlVars
  <1>1. UNCHANGED <<maxSize, running, tasks, call, late, workerVars, ctlVars>>
    BY DEF Stop
  <1>2. TypeOK'
    <2>1. stop' \in {"no", "stored", "closed", "returned"}
      BY DEF Stop
    <2> QED BY <1>1, <2>1 DEF IndInv, PoolKeepsWorker, TypeOK
  <1>3. Closed => Closed'
    BY DEF Stop, Closed
  <1>4. Live' = Live
    BY <1>1 DEF Live
  <1>5. PoolKeepsWorker'
    BY <1>1, <1>2, <1>3, <1>4 DEF IndInv, PoolKeepsWorker
  <1>6. WorkersInv'
    BY <1>1, <1>3 DEF IndInv, WorkersInv
  <1>7. stop' = "returned" => Live = {}
    BY DEF Stop
  <1>8. TasksInv'
    BY <1>1, <1>4, <1>7 DEF IndInv, TasksInv
  <1>9. StopDrains'
    <2> SUFFICES ASSUME stop' = "returned", NEW t \in Tasks, call[t] \in {"queued", "taken"}
                 PROVE  t \in late
      BY <1>1 DEF StopDrains
    <2>1. \A w \in Workers : job[w] = None
      BY <1>7 DEF IndInv, WorkersInv, Live
    <2>2. call[t] = "queued"
      BY <2>1, PoolAssumption DEF IndInv, TasksInv
    <2> QED BY <1>7, <2>2 DEF IndInv, TasksInv
  <1> QED BY <1>5, <1>6, <1>8, <1>9 DEF IndInv

\* Steps of the caller of Resize that start no worker.
LEMMA CtlMove ==
    ASSUME IndInv, UNCHANGED <<running, tasks, stop, call, late, mode, workerVars>>,
           maxSize' \in 1..Limit, arg' \in 0..Cardinality(Workers),
           resizes' \in 0..MaxResizes, ctl' \in {"idle", "spawn", "queue"},
           ctl' = "spawn" => arg' >= 1
    PROVE  IndInv'
  <1> USE DEF workerVars
  <1>1. TypeOK'
    BY DEF IndInv, PoolKeepsWorker, TypeOK
  <1>2. Live' = Live
    BY DEF Live
  <1>3. PoolKeepsWorker'
    BY <1>1, <1>2 DEF IndInv, PoolKeepsWorker, Closed
  <1>4. WorkersInv'
    BY DEF IndInv, WorkersInv, Closed
  <1>5. StopDrains' /\ TasksInv'
    BY <1>2, TasksKept
  <1> QED BY <1>3, <1>4, <1>5 DEF IndInv

LEMMA ResizeToMove ==
    ASSUME IndInv, NEW n \in 1..Limit, ResizeTo(n),
           UNCHANGED <<running, tasks, stop, call, late, mode, workerVars>>
    PROVE  IndInv'
  <1>1. maxSize \in 1..Limit /\ resizes \in 0..MaxResizes
    BY DEF IndInv, PoolKeepsWorker, TypeOK
  <1>2. maxSize' \in 1..Limit /\ resizes' \in 0..MaxResizes
    BY <1>1, Constants DEF ResizeTo
  <1>3. /\ arg' \in 0..Cardinality(Workers) /\ ctl' \in {"idle", "spawn", "queue"}
        /\ ctl' = "spawn" => arg' >= 1
    <2>1. CASE n > maxSize
      <3>1. arg' = n - maxSize /\ ctl' = "spawn"
        BY <2>1 DEF ResizeTo
      <3>2. n - maxSize \in 1..Cardinality(Workers)
        BY <1>1, <2>1, Constants
      <3> QED BY <3>1, <3>2
    <2>2. CASE ~(n > maxSize)
      <3>1. arg' = 0 /\ ctl' = "idle"
        BY <2>2 DEF ResizeTo
      <3> QED BY <3>1, Constants
    <2> QED BY <2>1, <2>2
  <1> QED BY <1>2, <1>3, CtlMove

LEMMA SpawnStep ==
    ASSUME IndInv, Spawn
    PROVE  IndInv'
  <1>1. TypeOK
    BY DEF IndInv, PoolKeepsWorker
  <1>2. PICK w \in Workers \ Live : w = CHOOSE v \in Workers : v \notin Live
    BY LiveChange DEF Spawn
  <1>3. /\ pc' = [pc EXCEPT ![w] = "load"] /\ running' = running + 1
        /\ ctl = "spawn" /\ arg' = arg - 1
        /\ ctl' = IF arg = 1 THEN "idle" ELSE "spawn"
        /\ UNCHANGED <<maxSize, tasks, stop, cur, job, call, late, mode, resizes>>
    BY <1>2 DEF Spawn, Goto
  <1>4. pc[w] = "off"
    BY <1>2 DEF Live
  <1>5. pc'[w] = "load" /\ \A v \in Workers \ {w} : pc'[v] = pc[v]
    BY <1>1, <1>3 DEF TypeOK
  <1>6. Live' = Live \cup {w}
    BY <1>5 DEF Live
  <1>7. /\ running = Cardinality(Live) /\ running \in Nat
        /\ running' = Cardinality(Live') /\ running < Cardinality(Workers)
    <2>1. running = Cardinality(Live)
      BY DEF IndInv, PoolKeepsWorker
    <2> QED BY <1>2, <1>3, <1>6, <2>1, LiveChange
  <1>8. /\ arg' \in 0..Cardinality(Workers) /\ ctl' \in {"idle", "spawn", "queue"}
        /\ ctl' = "spawn" => arg' >= 1
    <2>1. arg \in 1..Cardinality(Workers)
      BY <1>1, <1>3, Constants DEF IndInv, WorkersInv, TypeOK
    <2> QED BY <1>3, <2>1, Constants
  <1>9. TypeOK'
    <2>1. running' \in 0..Cardinality(Workers)
      BY <1>3, <1>7, Constants
    <2> QED BY <1>1, <1>3, <1>8, <2>1 DEF TypeOK
  <1>10. PoolKeepsWorker'
    BY <1>3, <1>7, <1>9 DEF PoolKeepsWorker
  <1>11. WorkersInv'
    BY <1>3, <1>4, <1>5, <1>8 DEF IndInv, WorkersInv, Closed
  <1>12. StopDrains'
    BY <1>3 DEF IndInv, StopDrains
  <1>13. TasksInv'
    BY <1>3, <1>6 DEF IndInv, TasksInv
  <1> QED BY <1>10, <1>11, <1>12, <1>13 DEF IndInv

\* Whatever adjust has sampled, the size it asks for is one that Resize takes.
LEMMA AdjustDecideStep ==
    ASSUME IndInv, AdjustDecide
    PROVE  IndInv'
  <1>1. TypeOK
    BY DEF IndInv, PoolKeepsWorker
  <1>2. UNCHANGED <<running, tasks, stop, call, late, mode, workerVars>>
    BY DEF AdjustDecide
  <1>3. ASSUME NEW n \in Int
        PROVE  Clamp(n) \in 1..Limit
    BY <1>3, Constants DEF Clamp
  <1>4. PICK a \in Nat : a = arg
    BY <1>1, Constants DEF TypeOK
  <1>5. Delta(a) \in Int
    BY <1>4 DEF Delta
  <1>6. Clamp(a + Delta(a)) \in 1..Limit /\ Clamp(a - Delta(a)) \in 1..Limit
    BY <1>3, <1>5
  <1>7. \/ \E n \in 1..Limit : ResizeTo(n)
        \/ ctl' = "idle" /\ arg' = 0 /\ UNCHANGED <<maxSize, resizes>>
    BY <1>4, <1>6 DEF AdjustDecide
  <1>8. CASE \E n \in 1..Limit : ResizeTo(n)
    BY <1>2, <1>8, ResizeToMove
  <1>9. CASE ctl' = "idle" /\ arg' = 0 /\ UNCHANGED <<maxSize, resizes>>
    <2>1. arg' \in 0..Cardinality(Workers)
      BY <1>9, Constants
    <2> QED BY <1>1, <1>2, <1>9, <2>1, CtlMove DEF TypeOK
  <1> QED BY <1>7, <1>8, <1>9

LEMMA AdjustSampleStep ==
    ASSUME IndInv, AdjustSample
    PROVE  IndInv'
  BY CtlMove DEF AdjustSample, IndInv, PoolKeepsWorker, TypeOK

-----------------------------------------------------------------------------
(* The theorems                                                            *)

LEMMA NextIndInv ==
    ASSUME IndInv, [Next]_vars
    PROVE  IndInv'
  <1>1. ASSUME NEW t \in Tasks, Submit(t)
        PROVE  IndInv'
    BY <1>1, SubmitQuietStep, SubmitSendStep DEF Submit
  <1>2. ASSUME NEW w \in Workers, WorkerStep(w) \/ WorkerTimer(w)
        PROVE  IndInv'
    BY <1>2, WorkerLoadStep, WorkerCheckStep, WorkerWaitStep, WorkerCasStep,
       WorkerExitStep, WorkerReceiveStep, WorkerDoneStep DEF WorkerStep
  <1>3. CASE Stop
    BY <1>3, StopStep
  <1>4. CASE Resize
    BY <1>4, ResizeToMove DEF Resize
  <1>5. CASE Spawn
    BY <1>5, SpawnStep
  <1>6. CASE AdjustSample \/ AdjustDecide
    BY <1>6, AdjustSampleStep, AdjustDecideStep
  <1>7. CASE UNCHANGED vars
    BY <1>7 DEF vars, IndInv, PoolKeepsWorker, TypeOK, StopDrains, WorkersInv,
       TasksInv, Live, Closed
  <1> QED BY <1>1, <1>2, <1>3, <1>4, <1>5, <1>6, <1>7 DEF Next

\* The counter, the places of the workers and the states of the tasks keep
\* their relations in every reachable state.
THEOREM WPoolInductive == Spec => []IndInv
  BY InitIndInv, NextIndInv, PTL DEF Spec

\* However many workers retire at once, whatever Resize and Adaptive ask for,
\* running counts the workers and one of them stays until stop is closed.
THEOREM WPoolKeepsWorker == Spec => []PoolKeepsWorker
  <1>1. IndInv => PoolKeepsWorker
    BY DEF IndInv
  <1> QED BY <1>1, WPoolInductive, PTL

\* When Stop has returned, only tasks sent after stop was closed are left.
THEOREM WPoolStopDrains == Spec => []StopDrains
  <1>1. IndInv => StopDrains
    BY DEF IndInv
  <1> QED BY <1>1, WPoolInductive, PTL
=============================================================================
