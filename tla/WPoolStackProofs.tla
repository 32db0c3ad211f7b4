-------------------------- MODULE WPoolStackProofs --------------------------
(***************************************************************************)
(* Proofs about wpool.Stack for every finite set of submitters and every   *)
(* size of the pool: an idle worker is in one pair of hands, no accepted   *)
(* task is thrown away, and the counters follow the goroutines.            *)
(***************************************************************************)
EXTENDS WPoolStack, SharedLemmas

-----------------------------------------------------------------------------
(* What most steps leave alone                                             *)

\* Live workers and submitters about to start one can be counted.
LEMMA CountTypes ==
    /\ IsFiniteSet(Live) /\ Cardinality(Live) \in Nat
    /\ IsFiniteSet(Spawning) /\ Cardinality(Spawning) \in Nat
    /\ maxWorkers \in Nat /\ Cardinality(Live) <= maxWorkers
  <1>1. Live \subseteq Workers /\ Spawning \subseteq Procs
    BY DEF Live, Spawning
  <1>2. IsFiniteSet(Live) /\ IsFiniteSet(Spawning)
    BY <1>1, PoolAssumption, FS_Subset
  <1>3. Cardinality(Live) <= maxWorkers
    BY <1>1, PoolAssumption, FS_Subset DEF maxWorkers
  <1> QED BY <1>2, <1>3, PoolAssumption, FS_CardinalityType DEF maxWorkers

\* Steps that move no worker.
LEMMA HoldersKept ==
    ASSUME HoldersInv, AcceptedTaskKept, UNCHANGED <<ready, expired, hand, wpc, ch>>
    PROVE  HoldersInv' /\ AcceptedTaskKept'
  BY DEF HoldersInv, AcceptedTaskKept, Stacked, Taken, Reclaimed

\* Steps of a submitter that has no worker, wakes nobody and starts nobody.
LEMMA QuietMove ==
    ASSUME IndInv, NEW p \in Procs, NEW x, x \notin {"send", "spawn"},
           pc[p] \notin {"send", "spawn", "parked"},
           pc' = [pc EXCEPT ![p] = x],
           hand' = hand \/ hand' = [hand EXCEPT ![p] = None],
           UNCHANGED <<poolVars, workerVars, cleanVars>>
    PROVE  /\ hand' = hand /\ PlacesInv' /\ HoldersInv' /\ AcceptedTaskKept'
           /\ Live' = Live /\ Spawning' = Spawning
  <1> USE DEF poolVars, workerVars, cleanVars
  <1>1. hand' = hand
    BY DEF IndInv, WorkersCounted, TypeOK, ValuesOK, PlacesInv
  <1>2. pc'[p] = x /\ \A q \in Procs \ {p} : pc'[q] = pc[q]
    BY DEF IndInv, WorkersCounted, TypeOK, ValuesOK
  <1>3. \A i \in 1..Len(waitq) : waitq[i] \in Procs
    BY ElementOfSeq DEF IndInv, WorkersCounted, TypeOK, ValuesOK
  <1>4. PlacesInv'
    BY <1>1, <1>2, <1>3 DEF IndInv, PlacesInv
  <1>5. HoldersInv' /\ AcceptedTaskKept'
    BY <1>1, HoldersKept DEF IndInv
  <1>6. Live' = Live /\ Spawning' = Spawning
    BY <1>2 DEF Live, Spawning
  <1> QED BY <1>1, <1>4, <1>5, <1>6

\* The worker on top of the stack goes to a submitter.
LEMMA TakeTopMove ==
    ASSUME IndInv, NEW p \in Procs, TakeTop(p), ready # <<>>,
           pc[p] \in {"pop", "wait"},
           UNCHANGED <<running, waitq, wg, workerVars, cleanVars>>
    PROVE  /\ PlacesInv' /\ HoldersInv' /\ AcceptedTaskKept'
           /\ ready' \in Seq(Workers) /\ hand' \in [Procs -> Workers \cup {None}]
           /\ Live' = Live /\ Spawning' = Spawning
  <1> USE DEF TakeTop, Goto, workerVars, cleanVars
  <1>1. /\ ready \in Seq(Workers) /\ hand \in [Procs -> Workers \cup {None}]
        /\ \A i \in 1..Len(waitq) : waitq[i] \in Procs
    BY ElementOfSeq DEF IndInv, WorkersCounted, TypeOK, ValuesOK
  <1> DEFINE n == Len(ready)
             top == ready[n]
  <1>2. /\ n \in Nat \ {0} /\ top \in Workers /\ hand' = [hand EXCEPT ![p] = top]
        /\ ready' \in Seq(Workers) /\ Len(ready') = n - 1
        /\ \A j \in 1..n-1 : ready'[j] = ready[j]
    BY <1>1, FrontProperties
  <1>3. pc'[p] = "send" /\ \A q \in Procs \ {p} : pc'[q] = pc[q]
    BY DEF IndInv, WorkersCounted, TypeOK, ValuesOK
  <1>4. hand[p] = None /\ top # None
    BY <1>2, PoolAssumption DEF IndInv, PlacesInv
  <1>5. hand'[p] = top /\ \A q \in Procs \ {p} : hand'[q] = hand[q]
    BY <1>1, <1>2
  <1>6. PlacesInv'
    BY <1>1, <1>3, <1>4, <1>5 DEF IndInv, PlacesInv
  <1>7. \A w \in Workers : Stacked(w)' <=> Stacked(w) /\ w # top
    <2>1. \A i \in 1..n : ready[i] = top <=> i = n
      BY <1>2 DEF IndInv, HoldersInv
    <2> HIDE DEF top
    <2> QED BY <1>2, <2>1 DEF Stacked
  <1>8. \A w \in Workers : Taken(w)' <=> Taken(w) \/ w = top
    BY <1>4, <1>5, PoolAssumption DEF Taken
  <1>9. Stacked(top) /\ ~Taken(top) /\ ~Reclaimed(top)
    BY <1>2 DEF IndInv, HoldersInv, Stacked
  <1>10. HoldersInv'
    <2>1. \A i, j \in 1..Len(ready') : ready'[i] = ready'[j] => i = j
      BY <1>2 DEF IndInv, HoldersInv
    <2>2. \A q \in Procs : hand[q] # top
      BY <1>9 DEF Taken
    <2>3. \A q, r \in Procs : hand'[q] = hand'[r] /\ hand'[q] # None => q = r
      BY <1>5, <2>2 DEF IndInv, HoldersInv
    <2>4. \A w \in Workers : Reclaimed(w)' = Reclaimed(w)
      BY DEF Reclaimed
    <2>5. \A i, j \in 1..Len(expired') : expired'[i] = expired'[j] => i = j
      BY DEF IndInv, HoldersInv
    <2> HIDE DEF top, TakeTop
    <2>6. ASSUME NEW w \in Workers
          PROVE  /\ ~(Stacked(w)' /\ Taken(w)') /\ ~(Stacked(w)' /\ Reclaimed(w)')
                 /\ ~(Taken(w)' /\ Reclaimed(w)')
                 /\ Stacked(w)' \/ Taken(w)' \/ Reclaimed(w)'
                      <=> wpc'[w] = "recv" /\ ch'[w] = None
      BY <1>7, <1>8, <1>9, <2>4 DEF IndInv, HoldersInv
    <2> QED BY <2>1, <2>3, <2>5, <2>6 DEF HoldersInv
  <1>11. AcceptedTaskKept'
    BY DEF IndInv, AcceptedTaskKept
  <1>12. Live' = Live /\ Spawning' = Spawning
    BY <1>3 DEF Live, Spawning
  <1> QED BY <1>1, <1>2, <1>6, <1>10, <1>11, <1>12

-----------------------------------------------------------------------------
(* Steps of submitters                                                     *)

\* From the parts of the invariant to the whole.
LEMMA IndInvParts ==
    ASSUME ValuesOK', stopped' \in BOOLEAN, PlacesInv', HoldersInv', AcceptedTaskKept',
           running' = Cardinality(Live') + leaving' + Cardinality(Spawning'),
           wg' = Cardinality(Live') + leaving' + finishing'
    PROVE  IndInv'
  BY DEF IndInv, WorkersCounted, TypeOK

LEMMA InitIndInv == Init => IndInv
  <1> SUFFICES ASSUME Init PROVE IndInv
    OBVIOUS
  <1>1. Live = {} /\ Spawning = {} /\ Cardinality({}) = 0
    BY FS_EmptySet DEF Init, Live, Spawning
  <1>2. ValuesOK
    <2>1. ready \in Seq(Workers) /\ expired \in Seq(Workers) /\ waitq \in Seq(Procs)
      BY EmptySeq DEF Init
    <2>2. running \in 0..maxWorkers
      BY CountTypes DEF Init
    <2> QED BY <2>1, <2>2 DEF Init, ValuesOK
  <1>3. stopped \in BOOLEAN
    BY Zenon DEF Init
  <1>4. PlacesInv /\ HoldersInv /\ AcceptedTaskKept
    <2>1. /\ ready = <<>> /\ expired = <<>> /\ waitq = <<>> /\ cpc = "idle"
          /\ \A p \in Procs : hand[p] = None /\ pc[p] = "idle"
          /\ \A w \in Workers : wpc[w] = "none" /\ ch[w] = None
      BY DEF Init
    <2>2. \A w \in Workers : ~Stacked(w) /\ ~Taken(w) /\ ~Reclaimed(w)
      BY <2>1, PoolAssumption DEF Stacked, Taken, Reclaimed
    <2>3. Len(ready) = 0 /\ Len(expired) = 0 /\ Len(waitq) = 0
      BY <2>1
    <2>4. PlacesInv
      BY <2>1, <2>3 DEF PlacesInv
    <2>5. HoldersInv
      BY <2>1, <2>2, <2>3 DEF HoldersInv
    <2>6. AcceptedTaskKept
      BY <2>1 DEF AcceptedTaskKept
    <2> QED BY <2>4, <2>5, <2>6
  <1>5. running = 0 /\ leaving = 0 /\ finishing = 0 /\ wg = 0
    BY DEF Init
  <1> QED BY <1>1, <1>2, <1>3, <1>4, <1>5 DEF IndInv, WorkersCounted, TypeOK

LEMMA SubmitBeginStep ==
    ASSUME IndInv, NEW p \in Procs, NEW k \in {"submit", "try", "timeout"},
           SubmitBegin(p, k)
    PROVE  IndInv'
  <1> USE DEF SubmitBegin, Goto, poolVars, workerVars, cleanVars, stopVars
  <1>1. stopped' \in BOOLEAN
    BY Zenon DEF IndInv, WorkersCounted, TypeOK
  <1>2. ValuesOK'
    BY DEF IndInv, WorkersCounted, TypeOK, ValuesOK
  <1>3. /\ PlacesInv' /\ HoldersInv' /\ AcceptedTaskKept'
        /\ Live' = Live /\ Spawning' = Spawning
    BY QuietMove
  <1> QED BY <1>1, <1>2, <1>3, IndInvParts DEF IndInv, WorkersCounted

\* A submitter that finds no worker returns or goes on to wait.
LEMMA NoWorkerMove ==
    ASSUME IndInv, NEW p \in Procs, NoWorker(p), pc[p] \in {"pop", "reserve"},
           UNCHANGED <<poolVars, workerVars, mu, stopVars, cleanVars>>
    PROVE  IndInv'
  <1> USE DEF poolVars, workerVars, cleanVars, stopVars
  <1>1. stopped' \in BOOLEAN
    BY Zenon DEF IndInv, WorkersCounted, TypeOK
  <1>2. PICK x \in {"idle", "wait"} :
          /\ pc' = [pc EXCEPT ![p] = x]
          /\ hand' = hand \/ hand' = [hand EXCEPT ![p] = None]
    BY DEF NoWorker, Return, Goto
  <1>3. /\ hand' = hand /\ PlacesInv' /\ HoldersInv' /\ AcceptedTaskKept'
        /\ Live' = Live /\ Spawning' = Spawning
    BY <1>2, QuietMove
  <1>4. ValuesOK'
    <2>1. kind' = kind \/ kind' = [kind EXCEPT ![p] = "submit"]
      BY DEF NoWorker, Return
    <2>2. timer' = timer \/ timer' = [timer EXCEPT ![p] = "off"]
            \/ timer' = [timer EXCEPT ![p] = "armed"]
      BY DEF NoWorker, Return
    <2> QED BY <1>2, <1>3, <2>1, <2>2 DEF IndInv, WorkersCounted, TypeOK, ValuesOK
  <1> QED BY <1>1, <1>3, <1>4, IndInvParts DEF IndInv, WorkersCounted

LEMMA SubmitPopStep ==
    ASSUME IndInv, NEW p \in Procs, SubmitPop(p)
    PROVE  IndInv'
  <1> USE DEF workerVars, cleanVars, stopVars, poolVars
  <1>1. pc[p] = "pop" /\ UNCHANGED <<running, waitq, wg, workerVars, mu, stopVars, cleanVars>>
    BY DEF SubmitPop
  <1>2. stopped' \in BOOLEAN
    BY <1>1, Zenon DEF IndInv, WorkersCounted, TypeOK
  <1>3. CASE ready # <<>> /\ TakeTop(p) /\ UNCHANGED <<kind, timer>>
    <2>1. /\ PlacesInv' /\ HoldersInv' /\ AcceptedTaskKept'
          /\ ready' \in Seq(Workers) /\ hand' \in [Procs -> Workers \cup {None}]
          /\ Live' = Live /\ Spawning' = Spawning
      BY <1>1, <1>3, TakeTopMove
    <2>2. pc' = [pc EXCEPT ![p] = "send"]
      BY <1>3 DEF TakeTop, Goto
    <2>3. ValuesOK'
      BY <1>1, <1>3, <2>1, <2>2 DEF IndInv, WorkersCounted, TypeOK, ValuesOK
    <2> QED BY <1>1, <1>2, <2>1, <2>3, IndInvParts DEF IndInv, WorkersCounted
  <1>4. CASE Goto(p, "reserve") /\ UNCHANGED <<ready, kind, hand, timer>>
    <2>1. pc' = [pc EXCEPT ![p] = "reserve"]
      BY <1>4 DEF Goto
    <2>2. /\ PlacesInv' /\ HoldersInv' /\ AcceptedTaskKept'
          /\ Live' = Live /\ Spawning' = Spawning
      BY <1>1, <1>4, <2>1, QuietMove
    <2>3. ValuesOK'
      BY <1>1, <1>4, <2>1 DEF IndInv, WorkersCounted, TypeOK, ValuesOK
    <2> QED BY <1>1, <1>2, <2>2, <2>3, IndInvParts DEF IndInv, WorkersCounted
  <1>5. CASE NoWorker(p) /\ UNCHANGED ready
    BY <1>1, <1>5, NoWorkerMove
  <1> QED BY <1>3, <1>4, <1>5 DEF SubmitPop

LEMMA SubmitReserveStep ==
    ASSUME IndInv, NEW p \in Procs, SubmitReserve(p)
    PROVE  IndInv'
  <1> USE DEF workerVars, cleanVars, stopVars, poolVars
  <1>1. pc[p] = "reserve"
          /\ UNCHANGED <<ready, waitq, wg, workerVars, mu, stopVars, cleanVars>>
    BY DEF SubmitReserve
  <1>2. stopped' \in BOOLEAN
    BY <1>1, Zenon DEF IndInv, WorkersCounted, TypeOK
  <1>3. CASE /\ running < maxWorkers /\ running' = running + 1 /\ Goto(p, "spawn")
             /\ UNCHANGED <<kind, hand, timer>>
    <2>1. pc' = [pc EXCEPT ![p] = "spawn"] /\ pc \in [Procs -> {"idle", "pop", "reserve",
             "spawn", "send", "wait", "park", "parked"}]
      BY <1>3 DEF Goto, IndInv, WorkersCounted, TypeOK, ValuesOK
    <2>2. ValuesOK'
      <3>1. running' \in 0..maxWorkers
        BY <1>3, CountTypes DEF IndInv, WorkersCounted, TypeOK, ValuesOK
      <3> QED BY <1>1, <1>3, <2>1, <3>1 DEF IndInv, WorkersCounted, TypeOK, ValuesOK
    <2>3. \A i \in 1..Len(waitq) : waitq[i] \in Procs
      BY ElementOfSeq DEF IndInv, WorkersCounted, TypeOK, ValuesOK
    <2>4. PlacesInv'
      BY <1>1, <1>3, <2>1, <2>3 DEF IndInv, PlacesInv
    <2>5. HoldersInv' /\ AcceptedTaskKept'
      BY <1>1, <1>3, HoldersKept DEF IndInv
    <2>6. Live' = Live /\ Spawning' = Spawning \cup {p} /\ p \notin Spawning
      BY <1>1, <2>1 DEF Live, Spawning
    <2>7. Cardinality(Spawning') = Cardinality(Spawning) + 1
      BY <2>6, CountTypes, FS_AddElement
    <2>8. running' = Cardinality(Live') + leaving' + Cardinality(Spawning')
      <3>1. running = Cardinality(Live) + leaving + Cardinality(Spawning)
              /\ leaving \in Nat /\ leaving' = leaving
        BY <1>1 DEF IndInv, WorkersCounted, TypeOK, ValuesOK
      <3> QED BY <1>3, <2>6, <2>7, <3>1, CountTypes
    <2>9. wg' = Cardinality(Live') + leaving' + finishing'
      BY <1>1, <2>6 DEF IndInv, WorkersCounted
    <2> QED BY <1>2, <2>2, <2>4, <2>5, <2>8, <2>9, IndInvParts
  <1>4. CASE NoWorker(p) /\ UNCHANGED running
    BY <1>1, <1>4, NoWorkerMove
  <1> QED BY <1>3, <1>4 DEF SubmitReserve

LEMMA SubmitSpawnStep ==
    ASSUME IndInv, NEW p \in Procs, NEW w \in Workers, SubmitSpawn(p, w)
    PROVE  IndInv'
  <1> USE DEF SubmitSpawn, Goto, workerVars, cleanVars, stopVars, poolVars
  <1>1. stopped' \in BOOLEAN
    BY Zenon DEF IndInv, WorkersCounted, TypeOK
  <1>2. ValuesOK
    BY DEF IndInv, WorkersCounted, TypeOK
  <1>3. /\ pc'[p] = "send" /\ \A q \in Procs \ {p} : pc'[q] = pc[q]
        /\ hand'[p] = w /\ \A q \in Procs \ {p} : hand'[q] = hand[q]
        /\ wpc'[w] = "recv" /\ \A v \in Workers \ {w} : wpc'[v] = wpc[v]
    BY <1>2 DEF ValuesOK
  <1>4. ValuesOK'
    BY <1>2 DEF ValuesOK
  <1>5. hand[p] = None /\ w # None
    BY PoolAssumption DEF IndInv, PlacesInv
  <1>6. \A i \in 1..Len(waitq) : waitq[i] \in Procs
    BY <1>2, ElementOfSeq DEF ValuesOK
  <1>7. PlacesInv'
    BY <1>3, <1>5, <1>6 DEF IndInv, PlacesInv
  <1>8. ch[w] = None /\ ~Stacked(w) /\ ~Taken(w) /\ ~Reclaimed(w)
    BY DEF IndInv, AcceptedTaskKept, HoldersInv
  <1>9. \A v \in Workers : Taken(v)' <=> Taken(v) \/ v = w
    BY <1>3, <1>5, PoolAssumption DEF Taken
  <1>10. \A v \in Workers : Stacked(v)' = Stacked(v) /\ Reclaimed(v)' = Reclaimed(v)
    BY DEF Stacked, Reclaimed
  <1>11. HoldersInv'
    <2>1. \A q \in Procs : hand[q] # w
      BY <1>8 DEF Taken
    <2>2. \A q, r \in Procs : hand'[q] = hand'[r] /\ hand'[q] # None => q = r
      BY <1>3, <2>1 DEF IndInv, HoldersInv
    <2>3. /\ \A i, j \in 1..Len(ready') : ready'[i] = ready'[j] => i = j
          /\ \A i, j \in 1..Len(expired') : expired'[i] = expired'[j] => i = j
      BY DEF IndInv, HoldersInv
    <2>4. ch' = ch
      OBVIOUS
    <2> HIDE DEF SubmitSpawn
    <2>5. ASSUME NEW v \in Workers
          PROVE  /\ ~(Stacked(v)' /\ Taken(v)') /\ ~(Stacked(v)' /\ Reclaimed(v)')
                 /\ ~(Taken(v)' /\ Reclaimed(v)')
                 /\ Stacked(v)' \/ Taken(v)' \/ Reclaimed(v)'
                      <=> wpc'[v] = "recv" /\ ch'[v] = None
      BY <1>3, <1>8, <1>9, <1>10, <2>4 DEF IndInv, HoldersInv
    <2> QED BY <2>2, <2>3, <2>5 DEF HoldersInv
  <1>12. AcceptedTaskKept'
    BY <1>3 DEF IndInv, AcceptedTaskKept
  <1>13. /\ Live' = Live \cup {w} /\ w \notin Live
         /\ Spawning' = Spawning \ {p} /\ p \in Spawning
    BY <1>3 DEF Live, Spawning
  <1>14. /\ Cardinality(Live') = Cardinality(Live) + 1
         /\ Cardinality(Spawning') = Cardinality(Spawning) - 1
    BY <1>13, CountTypes, FS_AddElement, FS_RemoveElement
  <1>15. /\ running' = Cardinality(Live') + leaving' + Cardinality(Spawning')
         /\ wg' = Cardinality(Live') + leaving' + finishing'
    <2>1. /\ running = Cardinality(Live) + leaving + Cardinality(Spawning)
          /\ wg = Cardinality(Live) + leaving + finishing
          /\ leaving \in Nat /\ finishing \in Nat
          /\ UNCHANGED <<running, leaving, finishing>> /\ wg' = wg + 1
      BY DEF IndInv, WorkersCounted, TypeOK, ValuesOK
    <2> QED BY <1>14, <2>1, CountTypes
  <1> QED BY <1>1, <1>4, <1>7, <1>11, <1>12, <1>15, IndInvParts

LEMMA SubmitSendStep ==
    ASSUME IndInv, NEW p \in Procs, SubmitSend(p)
    PROVE  IndInv'
  <1> USE DEF SubmitSend, Return, Goto, workerVars, cleanVars, stopVars, poolVars
  <1>1. stopped' \in BOOLEAN
    BY Zenon DEF IndInv, WorkersCounted, TypeOK
  <1>2. ValuesOK
    BY DEF IndInv, WorkersCounted, TypeOK
  <1>3. PICK w \in Workers : hand[p] = w
    BY <1>2 DEF IndInv, PlacesInv, ValuesOK
  <1>4. /\ pc'[p] = "idle" /\ \A q \in Procs \ {p} : pc'[q] = pc[q]
        /\ hand'[p] = None /\ \A q \in Procs \ {p} : hand'[q] = hand[q]
        /\ ch'[w] = p /\ \A v \in Workers \ {w} : ch'[v] = ch[v]
        /\ wpc' = wpc
    BY <1>2, <1>3 DEF ValuesOK
  <1>5. ValuesOK'
    BY <1>2, <1>3 DEF ValuesOK
  <1>6. \A i \in 1..Len(waitq) : waitq[i] \in Procs
    BY <1>2, ElementOfSeq DEF ValuesOK
  <1>7. PlacesInv'
    BY <1>4, <1>6 DEF IndInv, PlacesInv
  <1>8. wpc[w] = "recv" /\ ~Stacked(w) /\ ~Reclaimed(w) /\ w # None /\ p # None
    BY <1>3, PoolAssumption DEF IndInv, HoldersInv, Taken
  <1>9. \A v \in Workers : Taken(v)' <=> Taken(v) /\ v # w
    <2>1. \A q \in Procs : hand[q] = w <=> q = p
      BY <1>3, <1>8 DEF IndInv, HoldersInv
    <2>2. \A v \in Workers : v # None
      BY PoolAssumption
    <2> HIDE DEF SubmitSend
    <2> QED BY <1>4, <2>1, <2>2 DEF Taken
  <1>10. \A v \in Workers : Stacked(v)' = Stacked(v) /\ Reclaimed(v)' = Reclaimed(v)
    BY DEF Stacked, Reclaimed
  <1>11. HoldersInv'
    <2>1. \A q, r \in Procs : hand'[q] = hand'[r] /\ hand'[q] # None => q = r
      BY <1>4 DEF IndInv, HoldersInv
    <2>2. /\ \A i, j \in 1..Len(ready') : ready'[i] = ready'[j] => i = j
          /\ \A i, j \in 1..Len(expired') : expired'[i] = expired'[j] => i = j
      BY DEF IndInv, HoldersInv
    <2> HIDE DEF SubmitSend
    <2>3. ASSUME NEW v \in Workers
          PROVE  /\ ~(Stacked(v)' /\ Taken(v)') /\ ~(Stacked(v)' /\ Reclaimed(v)')
                 /\ ~(Taken(v)' /\ Reclaimed(v)')
                 /\ Stacked(v)' \/ Taken(v)' \/ Reclaimed(v)'
                      <=> wpc'[v] = "recv" /\ ch'[v] = None
      BY <1>4, <1>8, <1>9, <1>10 DEF IndInv, HoldersInv
    <2> QED BY <2>1, <2>2, <2>3 DEF HoldersInv
  <1>12. AcceptedTaskKept'
    BY <1>4, <1>8 DEF IndInv, AcceptedTaskKept
  <1>13. Live' = Live /\ Spawning' = Spawning
    BY <1>4 DEF Live, Spawning
  <1>14. /\ running' = Cardinality(Live') + leaving' + Cardinality(Spawning')
         /\ wg' = Cardinality(Live') + leaving' + finishing'
    BY <1>13 DEF IndInv, WorkersCounted
  <1> QED BY <1>1, <1>5, <1>7, <1>11, <1>12, <1>14, IndInvParts

LEMMA WaitLoopStep ==
    ASSUME IndInv, NEW p \in Procs, WaitLoop(p)
    PROVE  IndInv'
  <1> USE DEF workerVars, cleanVars, stopVars, poolVars
  <1>1. pc[p] = "wait" /\ UNCHANGED <<running, waitq, wg, workerVars, stopVars, cleanVars>>
    BY DEF WaitLoop
  <1>2. stopped' \in BOOLEAN
    BY <1>1, Zenon DEF IndInv, WorkersCounted, TypeOK
  <1>3. ValuesOK
    BY DEF IndInv, WorkersCounted, TypeOK
  <1>4. CASE Return(p) /\ UNCHANGED <<ready, mu>>
    <2>1. /\ PlacesInv' /\ HoldersInv' /\ AcceptedTaskKept'
          /\ Live' = Live /\ Spawning' = Spawning
      BY <1>1, <1>4, QuietMove DEF Return, Goto
    <2>2. ValuesOK'
      BY <1>1, <1>3, <1>4 DEF ValuesOK, Return, Goto
    <2> QED BY <1>1, <1>2, <2>1, <2>2, IndInvParts DEF IndInv, WorkersCounted
  <1>5. CASE ready # <<>> /\ TakeTop(p) /\ UNCHANGED <<mu, kind, timer>>
    <2>1. /\ PlacesInv' /\ HoldersInv' /\ AcceptedTaskKept'
          /\ ready' \in Seq(Workers) /\ hand' \in [Procs -> Workers \cup {None}]
          /\ Live' = Live /\ Spawning' = Spawning
      BY <1>1, <1>5, TakeTopMove
    <2>2. pc' = [pc EXCEPT ![p] = "send"]
      BY <1>5 DEF TakeTop, Goto
    <2>3. ValuesOK'
      BY <1>1, <1>3, <1>5, <2>1, <2>2 DEF ValuesOK
    <2> QED BY <1>1, <1>2, <2>1, <2>3, IndInvParts DEF IndInv, WorkersCounted
  <1>6. CASE mu' = p /\ Goto(p, "park") /\ UNCHANGED <<ready, kind, hand, timer>>
    <2>1. pc' = [pc EXCEPT ![p] = "park"]
      BY <1>6 DEF Goto
    <2>2. /\ PlacesInv' /\ HoldersInv' /\ AcceptedTaskKept'
          /\ Live' = Live /\ Spawning' = Spawning
      BY <1>1, <1>6, <2>1, QuietMove
    <2>3. ValuesOK'
      BY <1>1, <1>3, <1>6, <2>1 DEF ValuesOK
    <2> QED BY <1>1, <1>2, <2>2, <2>3, IndInvParts DEF IndInv, WorkersCounted
  <1> QED BY <1>4, <1>5, <1>6 DEF WaitLoop

LEMMA WaitParkStep ==
    ASSUME IndInv, NEW p \in Procs, WaitPark(p)
    PROVE  IndInv'
  <1> USE DEF WaitPark, Goto, workerVars, cleanVars, stopVars, poolVars
  <1>1. stopped' \in BOOLEAN
    BY Zenon DEF IndInv, WorkersCounted, TypeOK
  <1>2. ValuesOK
    BY DEF IndInv, WorkersCounted, TypeOK
  <1>3. pc'[p] = "parked" /\ \A q \in Procs \ {p} : pc'[q] = pc[q]
    BY <1>2 DEF ValuesOK
  <1>4. /\ waitq' \in Seq(Procs) /\ Len(waitq') = Len(waitq) + 1 /\ Len(waitq) \in Nat
        /\ waitq'[Len(waitq) + 1] = p
        /\ \A i \in 1..Len(waitq) : waitq'[i] = waitq[i] /\ waitq[i] \in Procs
    BY <1>2, AppendProperties, ElementOfSeq DEF ValuesOK
  <1>5. ValuesOK'
    BY <1>2, <1>4 DEF ValuesOK
  <1>6. PlacesInv'
    <2>1. \A i \in 1..Len(waitq) : waitq[i] # p
      BY DEF IndInv, PlacesInv
    <2>2. \A i, j \in 1..Len(waitq') : /\ pc'[waitq'[i]] = "parked"
                                       /\ waitq'[i] = waitq'[j] => i = j
      <3>1. \A i \in 1..Len(waitq') : i = Len(waitq) + 1 \/ i \in 1..Len(waitq)
        BY <1>4
      <3> HIDE DEF WaitPark
      <3> QED BY <1>3, <1>4, <2>1, <3>1 DEF IndInv, PlacesInv
    <2>3. \A q \in Procs : hand'[q] # None <=> pc'[q] = "send"
      BY <1>3 DEF IndInv, PlacesInv
    <2>4. cpc' = "send" <=> expired' # <<>>
      BY DEF IndInv, PlacesInv
    <2> QED BY <2>2, <2>3, <2>4 DEF PlacesInv
  <1>7. HoldersInv' /\ AcceptedTaskKept'
    BY HoldersKept DEF IndInv
  <1>8. Live' = Live /\ Spawning' = Spawning
    BY <1>3 DEF Live, Spawning
  <1>9. /\ running' = Cardinality(Live') + leaving' + Cardinality(Spawning')
        /\ wg' = Cardinality(Live') + leaving' + finishing'
    BY <1>8 DEF IndInv, WorkersCounted
  <1> QED BY <1>1, <1>5, <1>6, <1>7, <1>9, IndInvParts

\* A broadcast: all who wait go round their loop again.
LEMMA BroadcastMove ==
    ASSUME IndInv, Broadcast, UNCHANGED <<hand, workerVars, ready, cleanVars>>
    PROVE  /\ PlacesInv' /\ HoldersInv' /\ AcceptedTaskKept'
           /\ pc' \in [Procs -> {"idle", "pop", "reserve", "spawn", "send", "wait",
                                 "park", "parked"}]
           /\ waitq' \in Seq(Procs) /\ Live' = Live /\ Spawning' = Spawning
  <1> USE DEF Broadcast, workerVars, cleanVars
  <1>1. ValuesOK
    BY DEF IndInv, WorkersCounted, TypeOK
  <1>2. \A q \in ToSet(waitq) : pc[q] = "parked"
    <2>1. waitq \in Seq(Procs) /\ DOMAIN waitq = 1..Len(waitq)
      BY <1>1 DEF ValuesOK
    <2>2. \A i \in 1..Len(waitq) : pc[waitq[i]] = "parked"
      BY DEF IndInv, PlacesInv
    <2> QED BY <2>1, <2>2 DEF ToSet
  <1>3. \A q \in Procs : \/ pc'[q] = pc[q]
                         \/ pc[q] = "parked" /\ pc'[q] = "wait"
    BY <1>2
  <1>4. pc' \in [Procs -> {"idle", "pop", "reserve", "spawn", "send", "wait",
                           "park", "parked"}]
    BY <1>1 DEF ValuesOK
  <1>5. waitq' \in Seq(Procs) /\ Len(waitq') = 0
    BY EmptySeq
  <1>6. PlacesInv'
    <2>1. \A q \in Procs : hand'[q] # None <=> pc'[q] = "send"
      BY <1>3 DEF IndInv, PlacesInv
    <2>2. cpc' = "send" <=> expired' # <<>>
      BY DEF IndInv, PlacesInv
    <2>3. \A i \in 1..Len(waitq') : FALSE
      BY <1>5
    <2> QED BY <2>1, <2>2, <2>3 DEF PlacesInv
  <1>7. HoldersInv' /\ AcceptedTaskKept'
    BY HoldersKept DEF IndInv
  <1>8. Live' = Live /\ Spawning' = Spawning
    BY <1>3 DEF Live, Spawning
  <1> QED BY <1>4, <1>5, <1>6, <1>7, <1>8

LEMMA TimerExpiresStep ==
    ASSUME IndInv, NEW p \in Procs, TimerExpires(p)
    PROVE  IndInv'
  <1> USE DEF TimerExpires, workerVars, cleanVars, stopVars
  <1>1. stopped' \in BOOLEAN
    BY Zenon DEF IndInv, WorkersCounted, TypeOK
  <1>2. /\ PlacesInv' /\ HoldersInv' /\ AcceptedTaskKept'
        /\ pc' \in [Procs -> {"idle", "pop", "reserve", "spawn", "send", "wait",
                              "park", "parked"}]
        /\ waitq' \in Seq(Procs) /\ Live' = Live /\ Spawning' = Spawning
    BY BroadcastMove
  <1>3. ValuesOK'
    BY <1>2 DEF IndInv, WorkersCounted, TypeOK, ValuesOK
  <1> QED BY <1>1, <1>2, <1>3, IndInvParts DEF IndInv, WorkersCounted

-----------------------------------------------------------------------------
(* Steps of workers                                                        *)

\* Steps of one worker in which nobody gets or loses a worker: the worker goes
\* on to x, its channel is empty afterwards, and it was or stays unavailable.
LEMMA WorkerMove ==
    ASSUME IndInv, NEW w \in Workers,
           NEW x \in {"run", "check", "push", "exit"},
           wpc[w] \notin {"none"}, ~(wpc[w] = "recv" /\ ch[w] = None),
           wpc' = [wpc EXCEPT ![w] = x],
           ch' = [ch EXCEPT ![w] = None],
           UNCHANGED <<ready, hand, expired, cpc, waitq, pc>>
    PROVE  /\ PlacesInv' /\ HoldersInv' /\ AcceptedTaskKept'
           /\ Live' = Live /\ Spawning' = Spawning
  <1>1. ValuesOK
    BY DEF IndInv, WorkersCounted, TypeOK
  <1>2. /\ wpc'[w] = x /\ ch'[w] = None
        /\ \A v \in Workers \ {w} : wpc'[v] = wpc[v] /\ ch'[v] = ch[v]
    BY <1>1 DEF ValuesOK
  <1>3. PlacesInv'
    BY DEF IndInv, PlacesInv
  <1>4. \A v \in Workers : /\ Stacked(v)' = Stacked(v) /\ Taken(v)' = Taken(v)
                           /\ Reclaimed(v)' = Reclaimed(v)
    BY DEF Stacked, Taken, Reclaimed
  <1>5. /\ \A i, j \in 1..Len(ready') : ready'[i] = ready'[j] => i = j
        /\ \A i, j \in 1..Len(expired') : expired'[i] = expired'[j] => i = j
        /\ \A p, q \in Procs : hand'[p] = hand'[q] /\ hand'[p] # None => p = q
    BY DEF IndInv, HoldersInv
  <1>6. HoldersInv'
    <2>1. ASSUME NEW v \in Workers
          PROVE  /\ ~(Stacked(v)' /\ Taken(v)') /\ ~(Stacked(v)' /\ Reclaimed(v)')
                 /\ ~(Taken(v)' /\ Reclaimed(v)')
                 /\ Stacked(v)' \/ Taken(v)' \/ Reclaimed(v)'
                      <=> wpc'[v] = "recv" /\ ch'[v] = None
      BY <1>2, <1>4 DEF IndInv, HoldersInv
    <2> QED BY <1>5, <2>1 DEF HoldersInv
  <1>7. AcceptedTaskKept'
    BY <1>2 DEF IndInv, AcceptedTaskKept
  <1>8. Live' = Live /\ Spawning' = Spawning
    BY <1>2 DEF Live, Spawning
  <1> QED BY <1>3, <1>6, <1>7, <1>8

LEMMA WorkerRecvStep ==
    ASSUME IndInv, NEW w \in Workers, WorkerRecv(w)
    PROVE  IndInv'
  <1> USE DEF WorkerRecv, poolVars, submitVars, cleanVars, stopVars
  <1>1. stopped' \in BOOLEAN
    BY Zenon DEF IndInv, WorkersCounted, TypeOK
  <1>2. PICK x \in {"run", "exit"} : wpc' = [wpc EXCEPT ![w] = x]
    OBVIOUS
  <1>3. /\ PlacesInv' /\ HoldersInv' /\ AcceptedTaskKept'
        /\ Live' = Live /\ Spawning' = Spawning
    BY <1>2, WorkerMove
  <1>4. ValuesOK'
    <2>1. ValuesOK
      BY DEF IndInv, WorkersCounted, TypeOK
    <2>2. job' \in [Workers -> Procs \cup {None}]
      BY <2>1 DEF ValuesOK
    <2> QED BY <1>2, <2>1, <2>2 DEF ValuesOK
  <1> QED BY <1>1, <1>3, <1>4, IndInvParts DEF IndInv, WorkersCounted

LEMMA WorkerRunStep ==
    ASSUME IndInv, NEW w \in Workers, WorkerRun(w)
    PROVE  IndInv'
  <1> USE DEF WorkerRun, poolVars, submitVars, cleanVars, stopVars
  <1>1. stopped' \in BOOLEAN
    BY Zenon DEF IndInv, WorkersCounted, TypeOK
  <1>2. ch' = [ch EXCEPT ![w] = None]
    BY DEF IndInv, WorkersCounted, TypeOK, ValuesOK, AcceptedTaskKept
  <1>3. /\ PlacesInv' /\ HoldersInv' /\ AcceptedTaskKept'
        /\ Live' = Live /\ Spawning' = Spawning
    BY <1>2, WorkerMove
  <1>4. ValuesOK'
    BY DEF IndInv, WorkersCounted, TypeOK, ValuesOK
  <1> QED BY <1>1, <1>3, <1>4, IndInvParts DEF IndInv, WorkersCounted

LEMMA WorkerCheckStep ==
    ASSUME IndInv, NEW w \in Workers, WorkerCheck(w)
    PROVE  IndInv'
  <1> USE DEF poolVars, submitVars, cleanVars, stopVars
  <1>1. wpc[w] = "check" /\ UNCHANGED <<poolVars, job, ch, leaving, finishing,
          submitVars, stopVars, cleanVars>>
    BY DEF WorkerCheck
  <1>2. stopped' \in BOOLEAN
    BY <1>1, Zenon DEF IndInv, WorkersCounted, TypeOK
  <1>3. PICK x \in {"exit", "push"} : wpc' = [wpc EXCEPT ![w] = x]
    BY DEF WorkerCheck
  <1>4. ch' = [ch EXCEPT ![w] = None]
    BY <1>1 DEF IndInv, WorkersCounted, TypeOK, ValuesOK, AcceptedTaskKept
  <1>5. /\ PlacesInv' /\ HoldersInv' /\ AcceptedTaskKept'
        /\ Live' = Live /\ Spawning' = Spawning
    BY <1>1, <1>3, <1>4, WorkerMove
  <1>6. ValuesOK'
    BY <1>1, <1>3 DEF IndInv, WorkersCounted, TypeOK, ValuesOK
  <1> QED BY <1>1, <1>2, <1>5, <1>6, IndInvParts DEF IndInv, WorkersCounted

\* s.cond.Signal(): at most one submitter goes round its loop again.
LEMMA SignalMove ==
    ASSUME IndInv, Signal, UNCHANGED <<hand, cleanVars>>
    PROVE  /\ PlacesInv' /\ Spawning' = Spawning
           /\ pc' \in [Procs -> {"idle", "pop", "reserve", "spawn", "send", "wait",
                                 "park", "parked"}]
           /\ waitq' \in Seq(Procs)
  <1> USE DEF cleanVars
  <1>1. ValuesOK
    BY DEF IndInv, WorkersCounted, TypeOK
  <1>2. CASE waitq = <<>> /\ UNCHANGED <<pc, waitq>>
    BY <1>1, <1>2 DEF IndInv, PlacesInv, Spawning, ValuesOK
  <1>3. CASE waitq # <<>> /\ pc' = [pc EXCEPT ![Head(waitq)] = "wait"]
               /\ waitq' = Tail(waitq)
    <2>1. PICK n \in Nat : n = Len(waitq)
      BY <1>1 DEF ValuesOK
    <2>2. /\ n >= 1 /\ Head(waitq) = waitq[1] /\ waitq' \in Seq(Procs)
          /\ Len(waitq') = n - 1
          /\ \A i \in 1..n-1 : waitq'[i] = waitq[i + 1]
          /\ \A i \in 1..n : waitq[i] \in Procs
      BY <1>1, <1>3, <2>1, HeadTailProperties, ElementOfSeq DEF ValuesOK
    <2>3. PICK h \in Procs : h = waitq[1]
      BY <2>2
    <2>4. pc' = [pc EXCEPT ![h] = "wait"] /\ pc[h] = "parked"
      BY <1>3, <2>1, <2>2, <2>3 DEF IndInv, PlacesInv
    <2>5. pc'[h] = "wait" /\ \A q \in Procs \ {h} : pc'[q] = pc[q]
      BY <1>1, <2>4 DEF ValuesOK
    <2>6. \A i, j \in 1..n : /\ pc[waitq[i]] = "parked"
                             /\ waitq[i] = waitq[j] => i = j
      BY <2>1 DEF IndInv, PlacesInv
    <2>7. \A i \in 1..n-1 : i + 1 \in 1..n /\ waitq[i + 1] # h
      BY <2>2, <2>3, <2>6
    <2>8. \A i, j \in 1..Len(waitq') : /\ pc'[waitq'[i]] = "parked"
                                       /\ waitq'[i] = waitq'[j] => i = j
      BY <2>2, <2>5, <2>6, <2>7
    <2>9. \A q \in Procs : hand'[q] # None <=> pc'[q] = "send"
      BY <2>4, <2>5 DEF IndInv, PlacesInv
    <2>10. cpc' = "send" <=> expired' # <<>>
      BY DEF IndInv, PlacesInv
    <2>11. PlacesInv'
      BY <2>8, <2>9, <2>10 DEF PlacesInv
    <2>12. Spawning' = Spawning
      BY <2>4, <2>5 DEF Spawning
    <2> QED BY <1>1, <2>2, <2>4, <2>11, <2>12 DEF ValuesOK
  <1> QED BY <1>2, <1>3 DEF Signal

LEMMA WorkerPushStep ==
    ASSUME IndInv, NEW w \in Workers, WorkerPush(w)
    PROVE  IndInv'
  <1> USE DEF cleanVars, stopVars
  <1>1. /\ wpc[w] = "push"
        /\ UNCHANGED <<running, wg, job, ch, leaving, finishing, mu, kind, hand,
                       timer, stopVars, cleanVars>>
    BY DEF WorkerPush
  <1>2. stopped' \in BOOLEAN
    BY <1>1, Zenon DEF IndInv, WorkersCounted, TypeOK
  <1>3. ValuesOK
    BY DEF IndInv, WorkersCounted, TypeOK
  <1>4. ch[w] = None /\ ~Stacked(w) /\ ~Taken(w) /\ ~Reclaimed(w)
    BY <1>1 DEF IndInv, AcceptedTaskKept, HoldersInv
  <1>5. CASE wpc' = [wpc EXCEPT ![w] = "exit"] /\ UNCHANGED <<ready, waitq, pc>>
    <2>1. ch' = [ch EXCEPT ![w] = None]
      BY <1>1, <1>3, <1>4 DEF ValuesOK
    <2>2. /\ PlacesInv' /\ HoldersInv' /\ AcceptedTaskKept'
          /\ Live' = Live /\ Spawning' = Spawning
      BY <1>1, <1>5, <2>1, WorkerMove
    <2>3. ValuesOK'
      BY <1>1, <1>3, <1>5 DEF ValuesOK
    <2> QED BY <1>1, <1>2, <2>2, <2>3, IndInvParts DEF IndInv, WorkersCounted
  <1>6. CASE wpc' = [wpc EXCEPT ![w] = "recv"] /\ ready' = Append(ready, w) /\ Signal
    <2>1. PICK n \in Nat : n = Len(ready)
      BY <1>3 DEF ValuesOK
    <2>2. /\ ready' \in Seq(Workers) /\ Len(ready') = n + 1 /\ ready'[n + 1] = w
          /\ \A i \in 1..n : ready'[i] = ready[i]
      BY <1>3, <1>6, <2>1, AppendProperties DEF ValuesOK
    <2>3. /\ PlacesInv' /\ Spawning' = Spawning
          /\ pc' \in [Procs -> {"idle", "pop", "reserve", "spawn", "send", "wait",
                                "park", "parked"}]
          /\ waitq' \in Seq(Procs)
      BY <1>1, <1>6, SignalMove
    <2>4. ValuesOK'
      BY <1>1, <1>3, <1>6, <2>2, <2>3 DEF ValuesOK
    <2>5. wpc'[w] = "recv" /\ \A v \in Workers \ {w} : wpc'[v] = wpc[v]
      BY <1>3, <1>6 DEF ValuesOK
    <2>6. \A i \in 1..n+1 : i = n + 1 \/ i \in 1..n
      OBVIOUS
    <2>7. \A i \in 1..n : ready[i] # w /\ i \in 1..n+1
      BY <1>4, <2>1 DEF Stacked
    <2>8. \A v \in Workers : Stacked(v)' <=> Stacked(v) \/ v = w
      <3>1. n + 1 \in 1..n+1
        OBVIOUS
      <3> QED BY <2>1, <2>2, <2>6, <2>7, <3>1 DEF Stacked
    <2>9. \A v \in Workers : Taken(v)' = Taken(v) /\ Reclaimed(v)' = Reclaimed(v)
      BY <1>1 DEF Taken, Reclaimed
    <2>10. /\ \A i, j \in 1..Len(expired') : expired'[i] = expired'[j] => i = j
           /\ \A p, q \in Procs : hand'[p] = hand'[q] /\ hand'[p] # None => p = q
      BY <1>1 DEF IndInv, HoldersInv
    <2>11. \A i, j \in 1..Len(ready') : ready'[i] = ready'[j] => i = j
      <3>1. \A i, j \in 1..n : ready[i] = ready[j] => i = j
        BY <2>1 DEF IndInv, HoldersInv
      <3> QED BY <2>2, <2>6, <2>7, <3>1
    <2>12. ASSUME NEW v \in Workers
           PROVE  /\ ~(Stacked(v)' /\ Taken(v)') /\ ~(Stacked(v)' /\ Reclaimed(v)')
                  /\ ~(Taken(v)' /\ Reclaimed(v)')
                  /\ Stacked(v)' \/ Taken(v)' \/ Reclaimed(v)'
                       <=> wpc'[v] = "recv" /\ ch'[v] = None
      BY <1>1, <1>4, <2>5, <2>8, <2>9 DEF IndInv, HoldersInv
    <2>13. HoldersInv'
      BY <2>10, <2>11, <2>12 DEF HoldersInv
    <2>14. AcceptedTaskKept'
      BY <1>1, <2>5 DEF IndInv, AcceptedTaskKept
    <2>15. Live' = Live
      BY <1>1, <2>5 DEF Live
    <2> QED BY <1>1, <1>2, <2>3, <2>4, <2>13, <2>14, <2>15, IndInvParts
            DEF IndInv, WorkersCounted
  <1> QED BY <1>5, <1>6 DEF WorkerPush

LEMMA WorkerExitStep ==
    ASSUME IndInv, NEW w \in Workers, WorkerExit(w)
    PROVE  IndInv'
  <1> USE DEF WorkerExit, poolVars, submitVars, cleanVars, stopVars
  <1>1. stopped' \in BOOLEAN
    BY Zenon DEF IndInv, WorkersCounted, TypeOK
  <1>2. ValuesOK
    BY DEF IndInv, WorkersCounted, TypeOK
  <1>3. /\ wpc'[w] = "none" /\ ch'[w] = None
        /\ \A v \in Workers \ {w} : wpc'[v] = wpc[v] /\ ch'[v] = ch[v]
    BY <1>2 DEF ValuesOK
  <1>4. ValuesOK'
    BY <1>2 DEF ValuesOK
  <1>5. PlacesInv'
    BY DEF IndInv, PlacesInv
  <1>6. \A v \in Workers : /\ Stacked(v)' = Stacked(v) /\ Taken(v)' = Taken(v)
                           /\ Reclaimed(v)' = Reclaimed(v)
    BY DEF Stacked, Taken, Reclaimed
  <1>7. HoldersInv'
    <2>1. /\ \A i, j \in 1..Len(ready') : ready'[i] = ready'[j] => i = j
          /\ \A i, j \in 1..Len(expired') : expired'[i] = expired'[j] => i = j
          /\ \A p, q \in Procs : hand'[p] = hand'[q] /\ hand'[p] # None => p = q
      BY DEF IndInv, HoldersInv
    <2>2. wpc[w] = "exit"
      OBVIOUS
    <2> HIDE DEF WorkerExit
    <2>3. ASSUME NEW v \in Workers
          PROVE  /\ ~(Stacked(v)' /\ Taken(v)') /\ ~(Stacked(v)' /\ Reclaimed(v)')
                 /\ ~(Taken(v)' /\ Reclaimed(v)')
                 /\ Stacked(v)' \/ Taken(v)' \/ Reclaimed(v)'
                      <=> wpc'[v] = "recv" /\ ch'[v] = None
      BY <1>3, <1>6, <2>2 DEF IndInv, HoldersInv
    <2> QED BY <2>1, <2>3 DEF HoldersInv
  <1>8. AcceptedTaskKept'
    BY <1>3 DEF IndInv, AcceptedTaskKept
  <1>9. Live' = Live \ {w} /\ w \in Live /\ Spawning' = Spawning
    BY <1>3 DEF Live, Spawning
  <1>10. Cardinality(Live') = Cardinality(Live) - 1
    BY <1>9, CountTypes, FS_RemoveElement
  <1>11. /\ running' = Cardinality(Live') + leaving' + Cardinality(Spawning')
         /\ wg' = Cardinality(Live') + leaving' + finishing'
    <2>1. /\ running = Cardinality(Live) + leaving + Cardinality(Spawning)
          /\ wg = Cardinality(Live) + leaving + finishing
          /\ leaving \in Nat /\ finishing \in Nat
          /\ UNCHANGED <<running, wg, finishing>> /\ leaving' = leaving + 1
      BY DEF IndInv, WorkersCounted, TypeOK, ValuesOK
    <2> QED BY <1>9, <1>10, <2>1, CountTypes
  <1> QED BY <1>1, <1>4, <1>5, <1>7, <1>8, <1>11, IndInvParts

\* Steps that only count worker goroutines on their way out.
LEMMA WorkerLeaveStep ==
    ASSUME IndInv, WorkerLeave \/ WorkerDone
    PROVE  IndInv'
  <1> USE DEF submitVars, cleanVars, stopVars
  <1>1. UNCHANGED <<ready, waitq, wpc, job, ch, submitVars, stopVars, cleanVars>>
    BY DEF WorkerLeave, WorkerDone
  <1>2. stopped' \in BOOLEAN
    BY <1>1, Zenon DEF IndInv, WorkersCounted, TypeOK
  <1>3. /\ running = Cardinality(Live) + leaving + Cardinality(Spawning)
        /\ wg = Cardinality(Live) + leaving + finishing
        /\ running \in 0..maxWorkers /\ leaving \in Nat /\ finishing \in Nat
    BY DEF IndInv, WorkersCounted, TypeOK, ValuesOK
  <1>4. Live' = Live /\ Spawning' = Spawning
    BY <1>1 DEF Live, Spawning
  <1>5. /\ running' = Cardinality(Live') + leaving' + Cardinality(Spawning')
        /\ wg' = Cardinality(Live') + leaving' + finishing'
        /\ running' \in 0..maxWorkers /\ leaving' \in Nat /\ finishing' \in Nat
        /\ wg' \in Nat
    <2>1. CASE WorkerLeave
      BY <1>3, <1>4, <2>1, CountTypes DEF WorkerLeave
    <2>2. CASE WorkerDone
      BY <1>3, <1>4, <2>2, CountTypes DEF WorkerDone
    <2> QED BY <2>1, <2>2
  <1>6. ValuesOK'
    BY <1>1, <1>5 DEF IndInv, WorkersCounted, TypeOK, ValuesOK
  <1>7. PlacesInv'
    BY <1>1 DEF IndInv, PlacesInv
  <1>8. HoldersInv' /\ AcceptedTaskKept'
    BY <1>1, HoldersKept DEF IndInv
  <1> QED BY <1>2, <1>5, <1>6, <1>7, <1>8, IndInvParts

-----------------------------------------------------------------------------
(* Steps of the cleaner and of Stop                                        *)

LEMMA CleanCollectStep ==
    ASSUME IndInv, NEW i \in 1..Len(ready), CleanCollect(i)
    PROVE  IndInv'
  <1> USE DEF workerVars, submitVars, stopVars
  <1>1. /\ cpc = "idle" /\ cpc' = "send"
        /\ expired' = SubSeq(ready, 1, i) /\ ready' = SubSeq(ready, i + 1, Len(ready))
        /\ UNCHANGED <<running, waitq, wg, workerVars, submitVars, stopVars>>
    BY DEF CleanCollect
  <1>2. stopped' \in BOOLEAN
    BY <1>1, Zenon DEF IndInv, WorkersCounted, TypeOK
  <1>3. ValuesOK
    BY DEF IndInv, WorkersCounted, TypeOK
  <1>4. PICK n \in Nat : n = Len(ready) /\ i \in 0..n /\ 1 <= i
    BY <1>3 DEF ValuesOK
  <1>5. /\ expired' \in Seq(Workers) /\ Len(expired') = i
        /\ \A j \in 1..i : expired'[j] = ready[j]
        /\ ready' \in Seq(Workers) /\ Len(ready') = n - i
        /\ \A j \in 1..n-i : ready'[j] = ready[i + j]
    BY <1>1, <1>3, <1>4, CutProperties DEF ValuesOK
  <1>6. ValuesOK'
    BY <1>1, <1>3, <1>5 DEF ValuesOK
  <1>7. expired = <<>> /\ expired' # <<>>
    <2>1. expired = <<>>
      BY <1>1 DEF IndInv, PlacesInv
    <2> QED BY <1>4, <1>5, <2>1
  <1>8. PlacesInv'
    BY <1>1, <1>7 DEF IndInv, PlacesInv
  <1>9. \A j, k \in 1..n : ready[j] = ready[k] => j = k
    BY <1>4 DEF IndInv, HoldersInv
  <1>10. /\ \A j \in 1..n-i : i + j \in 1..n /\ i + j \notin 1..i
         /\ \A j \in 1..i : j \in 1..n
         /\ \A j \in 1..n : j \in 1..i \/ (j - i \in 1..n-i /\ i + (j - i) = j)
    BY <1>4
  <1>11. ASSUME NEW v \in Workers
         PROVE  /\ Stacked(v) <=> Stacked(v)' \/ Reclaimed(v)'
                /\ ~(Stacked(v)' /\ Reclaimed(v)')
    <2>1. Stacked(v)' => Stacked(v)
      BY <1>4, <1>5, <1>10 DEF Stacked
    <2>2. Reclaimed(v)' => Stacked(v)
      BY <1>4, <1>5, <1>10 DEF Stacked, Reclaimed
    <2>3. Stacked(v) => Stacked(v)' \/ Reclaimed(v)'
      <3> SUFFICES ASSUME NEW j \in 1..n, ready[j] = v
                   PROVE  Stacked(v)' \/ Reclaimed(v)'
        BY <1>4 DEF Stacked
      <3>1. CASE j \in 1..i
        BY <1>5, <3>1 DEF Reclaimed
      <3>2. CASE j - i \in 1..n-i /\ i + (j - i) = j
        BY <1>5, <3>2 DEF Stacked
      <3> QED BY <1>10, <3>1, <3>2
    <2>4. ~(Stacked(v)' /\ Reclaimed(v)')
      <3> SUFFICES ASSUME NEW j \in 1..n-i, NEW k \in 1..i, ready[i + j] = v, ready[k] = v
                   PROVE  FALSE
        BY <1>5 DEF Stacked, Reclaimed
      <3> QED BY <1>9, <1>10
    <2> QED BY <2>1, <2>2, <2>3, <2>4
  <1>12. \A v \in Workers : Taken(v)' = Taken(v) /\ ~Reclaimed(v)
    BY <1>1, <1>7 DEF Taken, Reclaimed
  <1>13. HoldersInv'
    <2>1. \A j, k \in 1..Len(ready') : ready'[j] = ready'[k] => j = k
      <3> SUFFICES ASSUME NEW j \in 1..Len(ready'), NEW k \in 1..Len(ready'),
                          ready'[j] = ready'[k]
                   PROVE  j = k
        OBVIOUS
      <3>1. j \in 1..n-i /\ k \in 1..n-i
        BY <1>5
      <3>2. ready[i + j] = ready[i + k]
        BY <1>5, <3>1
      <3>3. i + j = i + k
        BY <1>9, <1>10, <3>1, <3>2
      <3> QED BY <1>4, <3>1, <3>3
    <2>2. \A j, k \in 1..Len(expired') : expired'[j] = expired'[k] => j = k
      BY <1>5, <1>9, <1>10
    <2>3. \A p, q \in Procs : hand'[p] = hand'[q] /\ hand'[p] # None => p = q
      BY <1>1 DEF IndInv, HoldersInv
    <2>4. ASSUME NEW v \in Workers
          PROVE  /\ ~(Stacked(v)' /\ Taken(v)') /\ ~(Stacked(v)' /\ Reclaimed(v)')
                 /\ ~(Taken(v)' /\ Reclaimed(v)')
                 /\ Stacked(v)' \/ Taken(v)' \/ Reclaimed(v)'
                      <=> wpc'[v] = "recv" /\ ch'[v] = None
      BY <1>1, <1>11, <1>12 DEF IndInv, HoldersInv
    <2> QED BY <2>1, <2>2, <2>3, <2>4 DEF HoldersInv
  <1>14. AcceptedTaskKept' /\ Live' = Live /\ Spawning' = Spawning
    BY <1>1 DEF IndInv, AcceptedTaskKept, Live, Spawning
  <1> QED BY <1>1, <1>2, <1>6, <1>8, <1>13, <1>14, IndInvParts DEF IndInv, WorkersCounted

LEMMA CleanSendStep ==
    ASSUME IndInv, CleanSend
    PROVE  IndInv'
  <1> USE DEF poolVars, submitVars, stopVars
  <1>1. /\ cpc = "send" /\ cpc' = IF Len(expired) = 1 THEN "idle" ELSE "send"
        /\ expired' = Tail(expired)
        /\ ch' = [ch EXCEPT ![Head(expired)] = IF @ = None THEN Nil ELSE @]
        /\ UNCHANGED <<poolVars, wpc, job, leaving, finishing, submitVars, stopVars>>
    BY DEF CleanSend
  <1>2. stopped' \in BOOLEAN
    BY <1>1, Zenon DEF IndInv, WorkersCounted, TypeOK
  <1>3. ValuesOK
    BY DEF IndInv, WorkersCounted, TypeOK
  <1>4. expired # <<>>
    BY <1>1 DEF IndInv, PlacesInv
  <1>5. PICK n \in Nat : n = Len(expired)
    BY <1>3 DEF ValuesOK
  <1>6. /\ n >= 1 /\ Head(expired) = expired[1] /\ expired' \in Seq(Workers)
        /\ Len(expired') = n - 1
        /\ \A i \in 1..n-1 : expired'[i] = expired[i + 1]
        /\ \A i \in 1..n : expired[i] \in Workers
    BY <1>1, <1>3, <1>4, <1>5, HeadTailProperties, ElementOfSeq DEF ValuesOK
  <1>7. PICK w \in Workers : w = expired[1]
    BY <1>6
  <1>8. Reclaimed(w)
    BY <1>5, <1>6, <1>7 DEF Reclaimed
  <1>9. ch[w] = None /\ wpc[w] = "recv" /\ ~Stacked(w) /\ ~Taken(w) /\ Nil # None
    BY <1>8, PoolAssumption DEF IndInv, HoldersInv
  <1>10. ch' = [ch EXCEPT ![w] = Nil]
    BY <1>1, <1>6, <1>7, <1>9
  <1>11. ch'[w] = Nil /\ \A v \in Workers \ {w} : ch'[v] = ch[v]
    BY <1>3, <1>10 DEF ValuesOK
  <1>12. ValuesOK'
    <2>1. cpc' \in {"idle", "send", "gone"}
      BY <1>1
    <2> QED BY <1>1, <1>3, <1>6, <1>10, <2>1 DEF ValuesOK
  <1>13. PlacesInv'
    <2>1. cpc' = "send" <=> expired' # <<>>
      <3>1. CASE n = 1
        <4>1. expired' = <<>>
          BY <1>6, <3>1, EmptySeq
        <4> QED BY <1>1, <1>5, <3>1, <4>1
      <3>2. CASE n # 1
        <4>1. expired' # <<>>
          BY <1>6, <3>2
        <4> QED BY <1>1, <1>5, <3>2, <4>1
      <3> QED BY <3>1, <3>2
    <2> QED BY <1>1, <2>1 DEF IndInv, PlacesInv
  <1>14. \A i, j \in 1..n : expired[i] = expired[j] => i = j
    BY <1>5 DEF IndInv, HoldersInv
  <1>15. \A i \in 1..n-1 : i + 1 \in 1..n /\ expired[i + 1] # w
    BY <1>6, <1>7, <1>14
  <1>16. \A v \in Workers : Reclaimed(v)' <=> Reclaimed(v) /\ v # w
    <2>1. \A i \in 1..n : i = 1 \/ (i - 1 \in 1..n-1 /\ (i - 1) + 1 = i)
      OBVIOUS
    <2>2. \A v \in Workers : Reclaimed(v)' => Reclaimed(v) /\ v # w
      BY <1>5, <1>6, <1>15 DEF Reclaimed
    <2>3. ASSUME NEW v \in Workers, v # w, Reclaimed(v)
          PROVE  Reclaimed(v)'
      <3>1. PICK i \in 1..n : expired[i] = v
        BY <1>5, <2>3 DEF Reclaimed
      <3>2. i - 1 \in 1..n-1 /\ (i - 1) + 1 = i
        BY <1>7, <2>1, <2>3, <3>1
      <3> QED BY <1>6, <3>1, <3>2 DEF Reclaimed
    <2> QED BY <2>2, <2>3
  <1>17. \A v \in Workers : Stacked(v)' = Stacked(v) /\ Taken(v)' = Taken(v)
    BY <1>1 DEF Stacked, Taken
  <1>18. HoldersInv'
    <2>1. \A i, j \in 1..Len(expired') : expired'[i] = expired'[j] => i = j
      <3> SUFFICES ASSUME NEW i \in 1..n-1, NEW j \in 1..n-1, expired[i+1] = expired[j+1]
                   PROVE  i = j
        BY <1>6
      <3>1. i + 1 = j + 1
        BY <1>14, <1>15
      <3> QED BY <3>1
    <2>2. /\ \A i, j \in 1..Len(ready') : ready'[i] = ready'[j] => i = j
          /\ \A p, q \in Procs : hand'[p] = hand'[q] /\ hand'[p] # None => p = q
      BY <1>1 DEF IndInv, HoldersInv
    <2>3. ASSUME NEW v \in Workers
          PROVE  /\ ~(Stacked(v)' /\ Taken(v)') /\ ~(Stacked(v)' /\ Reclaimed(v)')
                 /\ ~(Taken(v)' /\ Reclaimed(v)')
                 /\ Stacked(v)' \/ Taken(v)' \/ Reclaimed(v)'
                      <=> wpc'[v] = "recv" /\ ch'[v] = None
      BY <1>1, <1>9, <1>11, <1>16, <1>17 DEF IndInv, HoldersInv
    <2> QED BY <2>1, <2>2, <2>3 DEF HoldersInv
  <1>19. AcceptedTaskKept'
    BY <1>1, <1>9, <1>11 DEF IndInv, AcceptedTaskKept
  <1>20. Live' = Live /\ Spawning' = Spawning
    BY <1>1 DEF Live, Spawning
  <1> QED BY <1>1, <1>2, <1>12, <1>13, <1>18, <1>19, <1>20, IndInvParts
          DEF IndInv, WorkersCounted

\* Steps of Stop and of the cleaner that only move between their positions.
LEMMA StopMoveStep ==
    ASSUME IndInv, CleanExit \/ StopBegin \/ StopReturn
    PROVE  IndInv'
  <1> USE DEF poolVars, workerVars, submitVars, stopVars, cleanVars
  <1>1. UNCHANGED <<poolVars, workerVars, submitVars, expired>>
    BY DEF CleanExit, StopBegin, StopReturn
  <1>2. stopped' \in BOOLEAN
    <2>1. stopped' = stopped \/ stopped' = TRUE
      BY DEF CleanExit, StopBegin, StopReturn
    <2> QED BY <2>1, Zenon DEF IndInv, WorkersCounted, TypeOK
  <1>3. ValuesOK'
    <2>1. ValuesOK
      BY DEF IndInv, WorkersCounted, TypeOK
    <2>2. cpc' \in {"idle", "send", "gone"}
      BY <2>1 DEF ValuesOK, CleanExit, StopBegin, StopReturn
    <2>3. spc' \in {"idle", "broadcast", "scan", "wait", "returned"}
      BY <2>1 DEF ValuesOK, CleanExit, StopBegin, StopReturn
    <2> QED BY <1>1, <2>1, <2>2, <2>3 DEF ValuesOK
  <1>4. PlacesInv'
    <2>1. cpc' = cpc \/ (cpc = "idle" /\ cpc' = "gone")
      BY DEF CleanExit, StopBegin, StopReturn
    <2> QED BY <1>1, <2>1 DEF IndInv, PlacesInv
  <1>5. HoldersInv' /\ AcceptedTaskKept'
    BY <1>1, HoldersKept DEF IndInv
  <1>6. Live' = Live /\ Spawning' = Spawning
    BY <1>1 DEF Live, Spawning
  <1> QED BY <1>1, <1>2, <1>3, <1>4, <1>5, <1>6, IndInvParts DEF IndInv, WorkersCounted

LEMMA StopBroadcastStep ==
    ASSUME IndInv, StopBroadcast
    PROVE  IndInv'
  <1> USE DEF StopBroadcast, workerVars, cleanVars
  <1>1. stopped' \in BOOLEAN
    BY Zenon DEF IndInv, WorkersCounted, TypeOK
  <1>2. /\ PlacesInv' /\ HoldersInv' /\ AcceptedTaskKept'
        /\ pc' \in [Procs -> {"idle", "pop", "reserve", "spawn", "send", "wait",
                              "park", "parked"}]
        /\ waitq' \in Seq(Procs) /\ Live' = Live /\ Spawning' = Spawning
    BY BroadcastMove
  <1>3. ValuesOK'
    BY <1>2 DEF IndInv, WorkersCounted, TypeOK, ValuesOK
  <1> QED BY <1>1, <1>2, <1>3, IndInvParts DEF IndInv, WorkersCounted

LEMMA StopScanStep ==
    ASSUME IndInv, StopScan
    PROVE  IndInv'
  <1> USE DEF submitVars, cleanVars
  <1>1. /\ ch' = [w \in Workers |-> IF w \in ToSet(ready) THEN Nil ELSE ch[w]]
        /\ ready' = <<>> /\ spc' = "wait"
        /\ UNCHANGED <<running, waitq, wg, wpc, job, leaving, finishing, submitVars,
                       stopped, cleanVars>>
    BY DEF StopScan
  <1>2. stopped' \in BOOLEAN
    BY <1>1, Zenon DEF IndInv, WorkersCounted, TypeOK
  <1>3. ValuesOK
    BY DEF IndInv, WorkersCounted, TypeOK
  <1>4. \A w : w \in ToSet(ready) <=> Stacked(w)
    <2>1. DOMAIN ready = 1..Len(ready)
      BY <1>3 DEF ValuesOK
    <2> QED BY <2>1 DEF ToSet, Stacked
  <1>5. \A w \in Workers : ch'[w] = IF Stacked(w) THEN Nil ELSE ch[w]
    BY <1>1, <1>4
  <1>6. ready' \in Seq(Workers) /\ Len(ready') = 0
    BY <1>1, EmptySeq
  <1>7. ValuesOK'
    <2>1. ch' \in [Workers -> Procs \cup {None, Nil}]
      BY <1>1, <1>3 DEF ValuesOK
    <2> QED BY <1>1, <1>3, <1>6, <2>1 DEF ValuesOK
  <1>8. PlacesInv'
    BY <1>1 DEF IndInv, PlacesInv
  <1>9. \A w \in Workers : /\ ~Stacked(w)' /\ Taken(w)' = Taken(w)
                           /\ Reclaimed(w)' = Reclaimed(w)
    <2>1. \A i \in 1..Len(ready') : FALSE
      BY <1>6
    <2> QED BY <1>1, <2>1 DEF Stacked, Taken, Reclaimed
  <1>10. HoldersInv'
    <2>1. /\ \A i, j \in 1..Len(expired') : expired'[i] = expired'[j] => i = j
          /\ \A p, q \in Procs : hand'[p] = hand'[q] /\ hand'[p] # None => p = q
      BY <1>1 DEF IndInv, HoldersInv
    <2>2. \A i, j \in 1..Len(ready') : ready'[i] = ready'[j] => i = j
      BY <1>6
    <2>3. Nil # None
      BY PoolAssumption
    <2>4. ASSUME NEW w \in Workers
          PROVE  /\ ~(Stacked(w)' /\ Taken(w)') /\ ~(Stacked(w)' /\ Reclaimed(w)')
                 /\ ~(Taken(w)' /\ Reclaimed(w)')
                 /\ Stacked(w)' \/ Taken(w)' \/ Reclaimed(w)'
                      <=> wpc'[w] = "recv" /\ ch'[w] = None
      BY <1>1, <1>5, <1>9, <2>3 DEF IndInv, HoldersInv
    <2> QED BY <2>1, <2>2, <2>4 DEF HoldersInv
  <1>11. AcceptedTaskKept'
    <2>1. \A w \in Workers : Stacked(w) => wpc[w] = "recv"
      BY DEF IndInv, HoldersInv
    <2> QED BY <1>1, <1>5, <2>1 DEF IndInv, AcceptedTaskKept
  <1>12. Live' = Live /\ Spawning' = Spawning
    BY <1>1 DEF Live, Spawning
  <1> QED BY <1>1, <1>2, <1>7, <1>8, <1>10, <1>11, <1>12, IndInvParts
          DEF IndInv, WorkersCounted

-----------------------------------------------------------------------------
(* The theorems                                                            *)

LEMMA NextIndInv ==
    ASSUME IndInv, [Next]_vars
    PROVE  IndInv'
  <1>1. ASSUME NEW p \in Procs, NEW k \in Kinds[p], SubmitBegin(p, k)
        PROVE  IndInv'
    <2>1. k \in {"submit", "try", "timeout"}
      BY KindsAssumption
    <2> QED BY <1>1, <2>1, SubmitBeginStep
  <1>2. ASSUME NEW p \in Procs, Submitter(p)
        PROVE  IndInv'
    BY <1>2, SubmitPopStep, SubmitReserveStep, SubmitSpawnStep, SubmitSendStep,
       WaitLoopStep, WaitParkStep DEF Submitter
  <1>3. ASSUME NEW p \in Procs, TimerExpires(p)
        PROVE  IndInv'
    BY <1>3, TimerExpiresStep
  <1>4. ASSUME NEW w \in Workers, Worker(w)
        PROVE  IndInv'
    BY <1>4, WorkerRecvStep, WorkerRunStep, WorkerCheckStep, WorkerPushStep,
       WorkerExitStep DEF Worker
  <1>5. CASE WorkerLeave \/ WorkerDone
    BY <1>5, WorkerLeaveStep
  <1>6. ASSUME NEW i \in 1..Len(ready), CleanCollect(i)
        PROVE  IndInv'
    BY <1>6, CleanCollectStep
  <1>7. CASE Cleaner \/ StopBegin \/ Stop
    BY <1>7, CleanSendStep, StopMoveStep, StopBroadcastStep, StopScanStep
       DEF Cleaner, Stop
  <1>8. CASE UNCHANGED vars
    BY <1>8 DEF vars, poolVars, workerVars, submitVars, stopVars, cleanVars, IndInv,
       WorkersCounted, TypeOK, ValuesOK, Live, Spawning, PlacesInv, HoldersInv,
       Stacked, Taken, Reclaimed, AcceptedTaskKept
  <1> QED BY <1>1, <1>2, <1>3, <1>4, <1>5, <1>6, <1>7, <1>8 DEF Next

\* The counters, the holders of workers and the wait list keep their relations
\* in every reachable state, for every number of submitters and workers.
THEOREM WPoolStackInductive == Spec => []IndInv
  BY InitIndInv, NextIndInv, PTL DEF Spec

\* running and wg count the worker goroutines of every reachable state, so
\* that at most maxWorkers run at a time, although a place is reserved, filled
\* and given back in separate steps.
THEOREM WPoolStackWorkersCounted == Spec => []WorkersCounted
  <1>1. IndInv => WorkersCounted
    BY DEF IndInv
  <1> QED BY <1>1, WPoolStackInductive, PTL

\* The drainChan of an exiting worker never finds a task that Submit accepted.
THEOREM WPoolStackAcceptedTaskKept == Spec => []AcceptedTaskKept
  <1>1. IndInv => AcceptedTaskKept
    BY DEF IndInv
  <1> QED BY <1>1, WPoolStackInductive, PTL

\* A worker waiting for its next task is held once, by the stack, a submitter
\* or the cleaner, and any other worker is held by none of them.
THEOREM WPoolStackOneSenderPerWorker == Spec => []OneSenderPerWorker
  <1>1. ASSUME IndInv PROVE OneSenderPerWorker
    <2> SUFFICES ASSUME NEW w \in Workers
                 PROVE  Senders(w) = IF wpc[w] = "recv" /\ ch[w] = None THEN 1 ELSE 0
      BY DEF OneSenderPerWorker
    <2> DEFINE R == {i \in DOMAIN ready : ready[i] = w}
               E == {i \in DOMAIN expired : expired[i] = w}
               H == {p \in Procs : hand[p] = w}
    <2>1. ValuesOK
      BY <1>1 DEF IndInv, WorkersCounted, TypeOK
    <2>2. DOMAIN ready = 1..Len(ready) /\ DOMAIN expired = 1..Len(expired)
      BY <2>1 DEF ValuesOK
    <2>3. w # None
      BY PoolAssumption
    <2>4. /\ R = {} <=> ~Stacked(w)
          /\ E = {} <=> ~Reclaimed(w)
          /\ H = {} <=> ~Taken(w)
      BY <2>2 DEF Stacked, Taken, Reclaimed
    <2>5. /\ \A i, j \in R : i = j
          /\ \A i, j \in E : i = j
          /\ \A p, q \in H : p = q
      BY <1>1, <2>2, <2>3 DEF IndInv, HoldersInv
    <2>6. ASSUME NEW S, \A x, y \in S : x = y
          PROVE  Cardinality(S) = IF S = {} THEN 0 ELSE 1
      <3>1. CASE S = {}
        BY <3>1, FS_EmptySet
      <3>2. CASE S # {}
        <4>1. PICK x : S = {x}
          BY <2>6, <3>2
        <4> QED BY <3>2, <4>1, FS_Singleton
      <3> QED BY <3>1, <3>2
    <2>7. /\ Cardinality(R) = IF Stacked(w) THEN 1 ELSE 0
          /\ Cardinality(E) = IF Reclaimed(w) THEN 1 ELSE 0
          /\ Cardinality(H) = IF Taken(w) THEN 1 ELSE 0
      <3> HIDE DEF R, E, H
      <3> QED BY <2>4, <2>5, <2>6
    <2>8. Senders(w) = Cardinality(R) + Cardinality(E) + Cardinality(H)
      BY DEF Senders
    <2> HIDE DEF R, E, H
    <2> QED BY <1>1, <2>7, <2>8 DEF IndInv, HoldersInv
  <1> QED BY <1>1, WPoolStackInductive, PTL
=============================================================================
