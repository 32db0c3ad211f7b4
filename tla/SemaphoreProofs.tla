--------------------------- MODULE SemaphoreProofs ---------------------------
(***************************************************************************)
(* Proofs about semaphore.Semaphore for every capacity and every finite set*)
(* of goroutines: the count of permits is exact, and a goroutine blocked   *)
(* on the wake channel always has somebody who will wake it.               *)
(***************************************************************************)
EXTENDS Semaphore, SharedLemmas

-----------------------------------------------------------------------------
(* The count of permits *)

\* What each goroutine has added to avail by mistake and not yet taken back.
Undoing == [p \in Procs |-> IF pc[p] = "undo" THEN n[p] ELSE 0]

LEMMA CountTypes ==
    ASSUME TypeOK
    PROVE  /\ Undoing \in [Procs -> Nat] /\ Surplus = SumOf(Undoing)
           /\ Surplus \in Nat /\ Granted \in Nat
           /\ avail \in Int /\ Cap \in Nat /\ Cap >= 1
  <1>1. Undoing \in [Procs -> Nat] /\ held \in [Procs -> Nat]
    BY CapAssumption DEF TypeOK, ValuesOK, Undoing
  <1>2. Surplus = SumOf(Undoing)
    BY DEF Surplus, Undoing
  <1> QED
    BY <1>1, <1>2, SumType, ProcsAssumption, CapAssumption DEF Granted, TypeOK, ValuesOK

\* Steps of goroutines that neither begin nor end an undo leave the surplus.
LEMMA SurplusKept ==
    ASSUME \A p \in Procs : pc'[p] = "undo" <=> pc[p] = "undo",
           \A p \in Procs : pc[p] = "undo" => n'[p] = n[p]
    PROVE  Surplus' = Surplus
  <1>1. [p \in Procs |-> IF pc[p] = "undo" THEN n[p] ELSE 0]'
          = [p \in Procs |-> IF pc[p] = "undo" THEN n[p] ELSE 0]
    OBVIOUS
  <1> QED BY <1>1 DEF Surplus

\* A goroutine that begins or ends an undo changes the surplus by its permits.
LEMMA SurplusChanged ==
    ASSUME TypeOK, NEW p \in Procs, NEW v \in Nat,
           v = IF pc'[p] = "undo" THEN n'[p] ELSE 0,
           \A q \in Procs \ {p} : pc'[q] = pc[q] /\ n'[q] = n[q]
    PROVE  Surplus' = Surplus - Undoing[p] + v
  <1>1. Undoing' = [Undoing EXCEPT ![p] = v]
    BY DEF Undoing
  <1>2. Undoing \in [Procs -> Nat] /\ Surplus = SumOf(Undoing)
    BY CountTypes
  <1>3. Surplus' = SumOf(Undoing')
    BY DEF Surplus, Undoing
  <1> HIDE DEF Undoing
  <1> QED BY <1>1, <1>2, <1>3, SumUpdate, ProcsAssumption

\* The permits of one goroutine change by as much as the permits of all.
LEMMA GrantedChanged ==
    ASSUME TypeOK, NEW p \in Procs, NEW v \in Nat, held' = [held EXCEPT ![p] = v]
    PROVE  /\ Granted' = Granted - held[p] + v
           /\ held[p] <= Granted
  BY SumUpdate, ProcsAssumption DEF TypeOK, ValuesOK, Granted

\* Without misuse nobody undoes anything, and avail is what is not granted.
LEMMA UnmisusedCount ==
    ASSUME IndInv, ~misused
    PROVE  Surplus = 0 /\ avail = Cap - Granted
  <1>1. \A p \in Procs : Undoing[p] = 0
    BY DEF IndInv, CallInv, Undoing
  <1>2. TypeOK
    BY DEF IndInv, PermitsConserved
  <1>3. Surplus = 0
    BY <1>1, <1>2, CountTypes, SumZero, ProcsAssumption
  <1> QED BY <1>2, <1>3, CountTypes DEF IndInv, PermitsConserved

LEMMA InitIndInv == Init => IndInv
  <1> SUFFICES ASSUME Init PROVE IndInv
    OBVIOUS
  <1> USE CapAssumption DEF Init
  <1>1. TypeOK
    <2>1. recvq \in Seq(Procs)
      BY EmptySeq
    <2>2. /\ avail \in Int /\ wake \in 0..Cap
          /\ n \in [Procs -> 0..Cap] /\ old \in [Procs -> Int]
          /\ held \in [Procs -> Nat]
      BY CapAssumption
    <2>3. /\ pc \in [Procs -> {"idle", "load", "cas", "recv", "blocked",
                               "signal", "undo"}]
          /\ kind \in [Procs -> Kinds]
      BY DEF Kinds
    <2> QED BY <2>1, <2>2, <2>3, Zenon DEF TypeOK, ValuesOK
  <1>2. Granted = 0 /\ Surplus = 0
    <2>1. \A p \in Procs : held[p] = 0 /\ Undoing[p] = 0
      BY DEF Undoing
    <2>2. held \in [Procs -> Nat] /\ Undoing \in [Procs -> Nat]
      BY <1>1, CountTypes DEF TypeOK
    <2>3. SumOf(held) = 0 /\ SumOf(Undoing) = 0
      BY <2>1, <2>2, SumZero, ProcsAssumption
    <2> QED BY <1>1, <2>3, CountTypes DEF Granted
  <1>3. PermitsConserved
    BY <1>1, <1>2 DEF PermitsConserved
  <1>4. QueueInv /\ CallInv /\ WakeInv
    BY DEF QueueInv, CallInv, WakeInv, Waits
  <1> QED BY <1>3, <1>4 DEF IndInv

-----------------------------------------------------------------------------
(* Every step preserves the invariant *)

\* Steps that leave the queue alone and whoever is blocked in it.
LEMMA QueueKept ==
    ASSUME TypeOK, QueueInv, recvq' = recvq, recvq = <<>> \/ wake' = wake,
           \A q \in Procs : pc[q] = "blocked" => pc'[q] = "blocked"
    PROVE  QueueInv'
  <1>1. \A i \in 1..Len(recvq) : recvq[i] \in Procs
    BY ElementOfSeq DEF TypeOK, ValuesOK
  <1> QED BY <1>1 DEF QueueInv

LEMMA AcquireBeginStep ==
    ASSUME IndInv, NEW p \in Procs, NEW k \in Kinds, NEW m \in 1..Cap,
           AcquireBegin(p, k, m)
    PROVE  IndInv'
  <1> USE CapAssumption DEF IndInv, PermitsConserved, AcquireBegin
  <1>1. TypeOK'
    <2>1. misused' \in BOOLEAN
      BY Zenon DEF TypeOK
    <2>2. ValuesOK'
      BY DEF TypeOK, ValuesOK
    <2> QED BY <2>1, <2>2 DEF TypeOK
  <1>2. Surplus' = Surplus
    BY SurplusKept DEF TypeOK, ValuesOK
  <1>3. PermitsConserved'
    BY <1>1, <1>2 DEF Granted
  <1>4. QueueInv'
    BY QueueKept DEF TypeOK, ValuesOK
  <1>5. CallInv'
    BY DEF CallInv, TypeOK, ValuesOK
  <1>6. WakeInv'
    BY DEF WakeInv, Waits, Covers, TypeOK, ValuesOK
  <1> QED BY <1>3, <1>4, <1>5, <1>6

LEMMA AcquireLoadStep ==
    ASSUME IndInv, NEW p \in Procs, AcquireLoad(p)
    PROVE  IndInv'
  <1> USE CapAssumption DEF IndInv, PermitsConserved, AcquireLoad, Goto, Finish
  <1>1. TypeOK'
    <2> SUFFICES ValuesOK'
      BY Zenon DEF TypeOK
    <2>t. ValuesOK
      BY DEF TypeOK
    <2>1. CASE Goto(p, "cas") /\ old' = [old EXCEPT ![p] = avail]
      BY <2>t, <2>1 DEF ValuesOK
    <2>2. CASE Finish(p)
      <3>1. /\ pc' = [pc EXCEPT ![p] = "idle"] /\ kind' = [kind EXCEPT ![p] = "try"]
            /\ n' = [n EXCEPT ![p] = 0] /\ old' = [old EXCEPT ![p] = 0]
            /\ UNCHANGED <<avail, wake, recvq, held>>
        BY <2>2
      <3> QED BY <2>t, <3>1 DEF ValuesOK, Kinds
    <2>3. CASE Goto(p, "recv") /\ UNCHANGED old
      BY <2>t, <2>3 DEF ValuesOK
    <2> QED BY <2>1, <2>2, <2>3
  <1>2. Surplus' = Surplus
    BY SurplusKept DEF TypeOK, ValuesOK
  <1>3. PermitsConserved'
    BY <1>1, <1>2 DEF Granted
  <1>4. QueueInv'
    BY QueueKept DEF TypeOK, ValuesOK
  <1>5. CallInv'
    <2>1. ~misused => avail <= Cap
      BY UnmisusedCount, CountTypes
    <2> QED BY <2>1 DEF CallInv, TypeOK, ValuesOK
  <1>6. WakeInv'
    <2>1. avail = Cap => pc'[p] = "cas" /\ old'[p] = Cap
      BY DEF TypeOK, ValuesOK
    <2> QED BY <2>1 DEF WakeInv, Covers
  <1> QED BY <1>3, <1>4, <1>5, <1>6

LEMMA AcquireCasStep ==
    ASSUME IndInv, NEW p \in Procs, AcquireCas(p)
    PROVE  IndInv'
  <1> USE CapAssumption DEF IndInv, PermitsConserved, AcquireCas, Goto, Finish
  <1>1. TypeOK'
    <2> SUFFICES ValuesOK'
      BY Zenon DEF TypeOK
    <2>t. ValuesOK
      BY DEF TypeOK
    <2>1. CASE avail = old[p]
      <3>1. /\ pc' = [pc EXCEPT ![p] = "idle"] /\ kind' = [kind EXCEPT ![p] = "try"]
            /\ n' = [n EXCEPT ![p] = 0] /\ old' = [old EXCEPT ![p] = 0]
            /\ avail' = avail - n[p] /\ held' = [held EXCEPT ![p] = @ + n[p]]
            /\ UNCHANGED <<wake, recvq>>
        BY <2>1
      <3> QED BY <2>t, <3>1 DEF ValuesOK, Kinds
    <2>2. CASE avail # old[p]
      <3>1. /\ \E l \in {"load", "recv"} : pc' = [pc EXCEPT ![p] = l]
            /\ old' = [old EXCEPT ![p] = 0]
            /\ UNCHANGED <<kind, n, avail, held, wake, recvq>>
        BY <2>2
      <3> QED BY <2>t, <3>1 DEF ValuesOK
    <2> QED BY <2>1, <2>2
  <1>2. Surplus' = Surplus
    BY SurplusKept DEF TypeOK, ValuesOK
  <1>3. PermitsConserved'
    <2>1. CASE avail = old[p]
      <3>1. held[p] \in Nat /\ n[p] \in Nat
        BY DEF TypeOK, ValuesOK
      <3>2. Granted' = Granted - held[p] + (held[p] + n[p])
        BY <2>1, <3>1, GrantedChanged
      <3> QED BY <1>1, <1>2, <2>1, <3>1, <3>2, CountTypes
    <2>2. CASE avail # old[p]
      BY <1>1, <1>2, <2>2 DEF Granted
    <2> QED BY <2>1, <2>2
  <1>4. QueueInv'
    BY QueueKept DEF TypeOK, ValuesOK
  <1>5. CallInv'
    BY DEF CallInv, TypeOK, ValuesOK
  <1>6. WakeInv'
    <2>1. CASE avail = old[p]
      <3>1. ~misused => avail' < Cap
        <4>1. n[p] >= 1 /\ (~misused => old[p] <= Cap)
          BY DEF CallInv
        <4>2. avail' = avail - n[p] /\ avail \in Int /\ n[p] \in Int
          BY <2>1 DEF TypeOK, ValuesOK
        <4> QED BY <2>1, <4>1, <4>2
      <3> QED BY <3>1 DEF WakeInv
    <2>2. CASE avail # old[p] /\ kind[p] = "try"
      <3>1. pc'[p] = "load"
        BY <2>2 DEF TypeOK, ValuesOK
      <3> QED BY <3>1 DEF WakeInv, Covers
    <2>3. CASE avail # old[p] /\ kind[p] # "try"
      <3> SUFFICES ASSUME avail = Cap, wake = 0, ~misused
                   PROVE  \E q \in Procs : Covers(q)'
        BY <2>3 DEF WakeInv
      <3>1. Waits(p)
        BY <2>3 DEF Waits
      <3>2. PICK q \in Procs : Covers(q)
        BY <3>1 DEF WakeInv
      <3>3. q # p
        BY <2>3, <3>2 DEF Covers
      <3> QED BY <2>3, <3>2, <3>3 DEF Covers, TypeOK, ValuesOK
    <2> QED BY <2>1, <2>2, <2>3
  <1> QED BY <1>3, <1>4, <1>5, <1>6

LEMMA AcquireRecvStep ==
    ASSUME IndInv, NEW p \in Procs, AcquireRecv(p)
    PROVE  IndInv'
  <1> USE CapAssumption DEF IndInv, PermitsConserved, AcquireRecv, Goto
  <1>1. TypeOK'
    <2> SUFFICES ValuesOK'
      BY Zenon DEF TypeOK
    <2>t. ValuesOK
      BY DEF TypeOK
    <2>1. CASE wake > 0
      <3>1. /\ pc' = [pc EXCEPT ![p] = "load"] /\ wake' = wake - 1
            /\ UNCHANGED <<kind, n, recvq, avail, old, held>>
        BY <2>1
      <3> QED BY <2>t, <2>1, <3>1 DEF ValuesOK
    <2>2. CASE ~(wake > 0)
      <3>1. /\ pc' = [pc EXCEPT ![p] = "blocked"] /\ recvq' = Append(recvq, p)
            /\ UNCHANGED <<kind, n, wake, avail, old, held>>
        BY <2>2
      <3> QED BY <2>t, <3>1 DEF ValuesOK
    <2> QED BY <2>1, <2>2
  <1>2. Surplus' = Surplus
    BY SurplusKept DEF TypeOK, ValuesOK
  <1>3. PermitsConserved'
    BY <1>1, <1>2 DEF Granted
  <1>4. QueueInv'
    <2>1. CASE wake > 0
      BY <2>1 DEF QueueInv, TypeOK, ValuesOK
    <2>2. CASE ~(wake > 0)
      <3>1. wake = 0 /\ wake' = 0
        BY <2>2 DEF TypeOK, ValuesOK
      <3>2. /\ Len(recvq') = Len(recvq) + 1 /\ recvq'[Len(recvq) + 1] = p
            /\ \A i \in 1..Len(recvq) : recvq'[i] = recvq[i] /\ recvq[i] # p
            /\ Len(recvq) \in Nat
        <4>1. recvq \in Seq(Procs) /\ recvq' = Append(recvq, p)
          BY <2>2 DEF TypeOK, ValuesOK
        <4>2. \A i \in 1..Len(recvq) : recvq[i] # p
          BY DEF QueueInv
        <4> QED BY <4>1, <4>2
      <3>3. ASSUME NEW i \in 1..Len(recvq') PROVE pc'[recvq'[i]] = "blocked"
        <4>1. CASE i = Len(recvq) + 1
          BY <2>2, <3>2, <4>1 DEF TypeOK, ValuesOK
        <4>2. CASE i # Len(recvq) + 1
          <5>1. i \in 1..Len(recvq)
            BY <3>2, <4>2
          <5>2. recvq[i] \in Procs
            BY <5>1, ElementOfSeq DEF TypeOK, ValuesOK
          <5> QED BY <2>2, <3>2, <5>1, <5>2 DEF QueueInv, TypeOK, ValuesOK
        <4> QED BY <4>1, <4>2
      <3>4. ASSUME NEW i \in 1..Len(recvq'), NEW j \in 1..Len(recvq'),
                   recvq'[i] = recvq'[j]
            PROVE  i = j
        BY <3>2, <3>4 DEF QueueInv
      <3> QED BY <3>1, <3>3, <3>4 DEF QueueInv
    <2> QED BY <2>1, <2>2
  <1>5. CallInv'
    BY DEF CallInv, TypeOK, ValuesOK
  <1>6. WakeInv'
    <2>1. CASE wake > 0
      <3>1. pc'[p] = "load"
        BY <2>1 DEF TypeOK, ValuesOK
      <3> QED BY <3>1 DEF WakeInv, Covers
    <2>2. CASE ~(wake > 0)
      <3> SUFFICES ASSUME avail = Cap, ~misused
                   PROVE  \E q \in Procs : Covers(q)'
        BY DEF WakeInv
      <3>1. Waits(p) /\ wake = 0
        BY <2>2 DEF Waits, TypeOK, ValuesOK
      <3>2. PICK q \in Procs : Covers(q)
        BY <3>1 DEF WakeInv
      <3>3. q # p
        BY <3>2 DEF Covers
      <3> QED BY <2>2, <3>2, <3>3 DEF Covers, TypeOK, ValuesOK
    <2> QED BY <2>1, <2>2
  <1> QED BY <1>3, <1>4, <1>5, <1>6

LEMMA AcquireCancelStep ==
    ASSUME IndInv, NEW p \in Procs, AcquireCancel(p)
    PROVE  IndInv'
  <1>a. /\ pc' = [pc EXCEPT ![p] = "idle"] /\ kind' = [kind EXCEPT ![p] = "try"]
        /\ n' = [n EXCEPT ![p] = 0] /\ old' = [old EXCEPT ![p] = 0]
        /\ UNCHANGED <<avail, wake, held, misused>>
        /\ pc[p] \in {"recv", "blocked"}
    BY DEF AcquireCancel, Finish
  <1>t. TypeOK /\ ValuesOK
    BY DEF IndInv, PermitsConserved, TypeOK
  <1>q. ASSUME pc[p] = "recv", UNCHANGED recvq PROVE QueueInv'
    BY <1>a, <1>q, <1>t, QueueKept DEF IndInv, ValuesOK
  <1>r. ASSUME NEW i \in 1..Len(recvq), pc[p] = "blocked", recvq[i] = p,
               recvq' = RemoveAt(recvq, i)
        PROVE  QueueInv' /\ recvq' \in Seq(Procs)
    <2>1. /\ recvq \in Seq(Procs) /\ Len(recvq) \in Nat
          /\ \A j \in 1..Len(recvq) : recvq[j] \in Procs
      BY <1>t, ElementOfSeq DEF ValuesOK
    <2>2. /\ recvq' \in Seq(Procs) /\ Len(recvq') = Len(recvq) - 1
          /\ \A j \in 1..Len(recvq)-1 :
                 recvq'[j] = IF j < i THEN recvq[j] ELSE recvq[j+1]
      BY <1>r, <2>1, RemoveAtProperties, Zenon
    <2>3. ASSUME NEW j \in 1..Len(recvq')
          PROVE  \E k \in 1..Len(recvq) :
                     recvq'[j] = recvq[k] /\ k # i /\ k = IF j < i THEN j ELSE j+1
      BY <2>1, <2>2
    <2>4. ASSUME NEW j \in 1..Len(recvq') PROVE pc'[recvq'[j]] = "blocked"
      <3>1. PICK k \in 1..Len(recvq) : recvq'[j] = recvq[k] /\ k # i
        BY <2>3
      <3>2. recvq[k] # p
        BY <1>r, <3>1 DEF IndInv, QueueInv
      <3> QED BY <1>a, <1>t, <2>1, <3>1, <3>2 DEF IndInv, QueueInv, ValuesOK
    <2>5. ASSUME NEW j \in 1..Len(recvq'), NEW l \in 1..Len(recvq'),
                 recvq'[j] = recvq'[l]
          PROVE  j = l
      <3>1. PICK k \in 1..Len(recvq) :
                recvq'[j] = recvq[k] /\ k = IF j < i THEN j ELSE j+1
        BY <2>3
      <3>2. PICK m \in 1..Len(recvq) :
                recvq'[l] = recvq[m] /\ m = IF l < i THEN l ELSE l+1
        BY <2>3
      <3>3. k = m
        BY <2>5, <3>1, <3>2 DEF IndInv, QueueInv
      <3> QED BY <2>1, <2>2, <3>1, <3>2, <3>3
    <2>6. recvq' # <<>> => wake' = 0
      BY <1>a, <1>r, <2>1 DEF IndInv, QueueInv
    <2> QED BY <2>2, <2>4, <2>5, <2>6 DEF QueueInv
  <1>4. QueueInv' /\ recvq' \in Seq(Procs)
    <2>1. pc[p] = "recv" /\ UNCHANGED recvq => recvq' \in Seq(Procs)
      BY <1>t DEF ValuesOK
    <2> QED BY <1>q, <1>r, <2>1 DEF AcquireCancel
  <1>1. TypeOK'
    <2>1. ValuesOK'
      BY <1>a, <1>t, <1>4, CapAssumption DEF ValuesOK, Kinds
    <2> QED BY <1>a, <1>t, <2>1, Zenon DEF TypeOK
  <1>2. Surplus' = Surplus
    BY <1>a, <1>t, SurplusKept DEF ValuesOK
  <1>3. PermitsConserved'
    BY <1>a, <1>1, <1>2 DEF IndInv, PermitsConserved, Granted
  <1>5. CallInv'
    BY <1>a, <1>t DEF IndInv, CallInv, ValuesOK
  <1>6. WakeInv'
    <2> SUFFICES ASSUME avail = Cap, wake = 0, ~misused,
                        NEW q \in Procs, Waits(q)'
                 PROVE  \E r \in Procs : Covers(r)'
      BY <1>a DEF WakeInv
    <2>1. Waits(q)
      BY <1>a, <1>t DEF Waits, ValuesOK
    <2>2. PICK r \in Procs : Covers(r)
      BY <2>1 DEF IndInv, WakeInv
    <2>3. r # p
      BY <1>a, <2>2 DEF Covers
    <2> QED BY <1>a, <1>t, <2>2, <2>3 DEF Covers, ValuesOK
  <1> QED BY <1>3, <1>4, <1>5, <1>6 DEF IndInv

\* A Release within what its goroutine holds, and one beyond what all hold: the
\* exact count makes the code tell them apart.
LEMMA ReleaseAddStep ==
    ASSUME IndInv, NEW p \in Procs, NEW m \in 1..Cap, ReleaseAdd(p, m)
    PROVE  IndInv'
  <1>t. /\ TypeOK /\ ValuesOK /\ avail + Granted = Cap + Surplus
        /\ Surplus \in Nat /\ Granted \in Nat /\ Cap \in Nat /\ avail \in Int
        /\ Undoing \in [Procs -> Nat] /\ held[p] \in Nat
    BY CountTypes DEF IndInv, PermitsConserved, TypeOK, ValuesOK
  <1>a. /\ pc[p] = "idle" /\ avail' = avail + m /\ n' = [n EXCEPT ![p] = m]
        /\ UNCHANGED <<wake, recvq, kind, old>>
        /\ m <= held[p] \/ m > Granted
    BY DEF ReleaseAdd
  <1>b. Undoing[p] = 0
    BY <1>a DEF Undoing
  <1>5. CASE avail + m > Cap
    <2>a. pc' = [pc EXCEPT ![p] = "undo"] /\ held' = held /\ misused' = TRUE
      BY <1>5 DEF ReleaseAdd
    <2>1. TypeOK'
      <3>1. ValuesOK'
        BY <1>a, <1>t, <2>a DEF ValuesOK
      <3>2. misused' \in BOOLEAN
        BY <2>a
      <3> QED BY <3>1, <3>2 DEF TypeOK
    <2>2. Surplus' = Surplus - 0 + m
      <3>1. pc'[p] = "undo" /\ n'[p] = m
        BY <1>a, <1>t, <2>a DEF ValuesOK
      <3>2. \A q \in Procs \ {p} : pc'[q] = pc[q] /\ n'[q] = n[q]
        BY <1>a, <1>t, <2>a DEF ValuesOK
      <3> QED BY <1>b, <1>t, <3>1, <3>2, SurplusChanged
    <2>3. PermitsConserved'
      BY <1>a, <1>t, <2>a, <2>1, <2>2 DEF PermitsConserved, Granted
    <2>4. QueueInv'
      BY <1>a, <1>t, <2>a, QueueKept DEF IndInv, ValuesOK
    <2>5. CallInv'
      BY <1>a, <1>t, <2>a DEF IndInv, CallInv, ValuesOK
    <2>6. WakeInv'
      BY <2>a DEF WakeInv
    <2> QED BY <2>3, <2>4, <2>5, <2>6 DEF IndInv
  <1>6. CASE ~(avail + m > Cap)
    <2>a. /\ pc' = [pc EXCEPT ![p] = "signal"] /\ misused' = misused
          /\ held' = [held EXCEPT ![p] = held[p] - m]
      <3>1. misused' = (misused \/ avail + m > Cap)
        BY DEF ReleaseAdd
      <3>2. misused' = misused
        BY <1>6, <1>t, <3>1, Zenon DEF TypeOK
      <3> QED BY <1>6, <3>2 DEF ReleaseAdd
    <2>b. m <= held[p]
      BY <1>a, <1>t, <1>6
    <2>1. TypeOK'
      <3>1. ValuesOK'
        BY <1>a, <1>t, <2>a, <2>b DEF ValuesOK
      <3>2. misused' \in BOOLEAN
        BY <1>t, <2>a, Zenon DEF TypeOK
      <3> QED BY <3>1, <3>2 DEF TypeOK
    <2>2. Surplus' = Surplus
      BY <1>a, <1>t, <2>a, SurplusKept DEF ValuesOK
    <2>3. Granted' = Granted - m
      <3>0. held[p] - m \in Nat
        BY <1>t, <2>b
      <3>1. Granted' = Granted - held[p] + (held[p] - m)
        BY <1>t, <2>a, <3>0, GrantedChanged
      <3> QED BY <1>t, <3>1
    <2>4. PermitsConserved'
      BY <1>a, <1>t, <2>1, <2>2, <2>3 DEF PermitsConserved
    <2>5. QueueInv'
      BY <1>a, <1>t, <2>a, QueueKept DEF IndInv, ValuesOK
    <2>6. CallInv'
      BY <1>a, <1>t, <2>a DEF IndInv, CallInv, ValuesOK
    <2>7. WakeInv'
      <3>1. pc'[p] = "signal"
        BY <1>t, <2>a DEF ValuesOK
      <3> QED BY <3>1 DEF WakeInv, Covers
    <2> QED BY <2>4, <2>5, <2>6, <2>7 DEF IndInv
  <1> QED BY <1>5, <1>6

LEMMA ReleaseUndoStep ==
    ASSUME IndInv, NEW p \in Procs, ReleaseUndo(p)
    PROVE  IndInv'
  <1>t. /\ TypeOK /\ ValuesOK /\ avail + Granted = Cap + Surplus
        /\ Surplus \in Nat /\ Granted \in Nat /\ Cap \in Nat /\ avail \in Int
    BY CountTypes DEF IndInv, PermitsConserved, TypeOK
  <1>a. /\ pc[p] = "undo" /\ avail' = avail - n[p]
        /\ pc' = [pc EXCEPT ![p] = "idle"] /\ kind' = [kind EXCEPT ![p] = "try"]
        /\ n' = [n EXCEPT ![p] = 0] /\ old' = [old EXCEPT ![p] = 0]
        /\ UNCHANGED <<wake, recvq, held, misused>>
    BY DEF ReleaseUndo, Finish
  <1>b. misused' /\ misused
    BY <1>a DEF IndInv, CallInv
  <1>1. TypeOK'
    <2>1. ValuesOK'
      BY <1>a, <1>t DEF ValuesOK, Kinds
    <2>2. misused' \in BOOLEAN
      BY <1>a, <1>t, Zenon DEF TypeOK
    <2> QED BY <2>1, <2>2 DEF TypeOK
  <1>2. Surplus' = Surplus - n[p] + 0
    <2>1. Undoing[p] = n[p]
      BY <1>a DEF Undoing
    <2>2. pc'[p] = "idle"
      BY <1>a, <1>t DEF ValuesOK
    <2>3. \A q \in Procs \ {p} : pc'[q] = pc[q] /\ n'[q] = n[q]
      BY <1>a, <1>t DEF ValuesOK
    <2> QED BY <1>t, <2>1, <2>2, <2>3, SurplusChanged
  <1>3. PermitsConserved'
    <2>1. n[p] \in Nat
      BY <1>t DEF ValuesOK
    <2> QED BY <1>a, <1>t, <1>1, <1>2, <2>1 DEF PermitsConserved, Granted
  <1>4. QueueInv'
    BY <1>a, <1>t, QueueKept DEF IndInv, ValuesOK
  <1>5. CallInv'
    BY <1>a, <1>b, <1>t DEF IndInv, CallInv, ValuesOK
  <1>6. WakeInv'
    BY <1>b DEF WakeInv
  <1> QED BY <1>3, <1>4, <1>5, <1>6 DEF IndInv

\* A signal goes to the oldest blocked goroutine, or into the buffer.
LEMMA ReleaseSignalStep ==
    ASSUME IndInv, NEW p \in Procs, ReleaseSignal(p)
    PROVE  IndInv'
  <1>t. TypeOK /\ ValuesOK
    BY DEF IndInv, PermitsConserved, TypeOK
  <1> DEFINE next == IF n[p] = 1 \/ (recvq = <<>> /\ wake = Cap)
                     THEN "idle" ELSE "signal"
  <1>a. /\ pc[p] = "signal"
        /\ n' = [n EXCEPT ![p] = IF next = "idle" THEN 0 ELSE n[p] - 1]
        /\ recvq' = IF recvq # <<>> THEN Tail(recvq) ELSE recvq
        /\ wake' = IF recvq = <<>> /\ wake < Cap THEN wake + 1 ELSE wake
        /\ UNCHANGED <<avail, kind, old, held, misused>>
    BY DEF ReleaseSignal
  <1>b. n[p] \in 1..Cap /\ wake \in 0..Cap /\ Cap \in Nat
    BY <1>a, <1>t, CapAssumption DEF IndInv, CallInv, ValuesOK
  <1>q. /\ recvq \in Seq(Procs) /\ Len(recvq) \in Nat
        /\ \A i \in 1..Len(recvq) : recvq[i] \in Procs /\ pc[recvq[i]] = "blocked"
        /\ recvq # <<>> => Head(recvq) = recvq[1] /\ 1 \in 1..Len(recvq)
    BY <1>t, ElementOfSeq DEF IndInv, QueueInv, ValuesOK
  <1>c. /\ pc' \in [Procs -> {"idle", "load", "cas", "recv", "blocked",
                               "signal", "undo"}]
        /\ pc'[p] = next
        /\ \A q \in Procs \ {p} :
               pc'[q] = IF recvq # <<>> /\ q = Head(recvq) THEN "load" ELSE pc[q]
    <2>1. pc' = [q \in Procs |-> CASE q = p -> next
                                  [] recvq # <<>> /\ q = Head(recvq) -> "load"
                                  [] OTHER -> pc[q]]
      BY DEF ReleaseSignal
    <2>2. recvq # <<>> => Head(recvq) # p
      BY <1>a, <1>q
    <2>3. next \in {"idle", "signal"}
      OBVIOUS
    <2> HIDE DEF next
    <2>4. \A q \in Procs : pc'[q] = IF q = p THEN next
                                   ELSE IF recvq # <<>> /\ q = Head(recvq)
                                        THEN "load" ELSE pc[q]
      BY <2>1, <2>2
    <2>5. pc \in [Procs -> {"idle", "load", "cas", "recv", "blocked",
                               "signal", "undo"}]
      BY <1>t DEF ValuesOK
    <2> QED BY <2>1, <2>3, <2>4, <2>5
  <1>1. TypeOK'
    <2>1. recvq' \in Seq(Procs)
      BY <1>a, <1>q, HeadTailProperties
    <2>2. wake' \in 0..Cap /\ n' \in [Procs -> 0..Cap]
      BY <1>a, <1>b, <1>t DEF ValuesOK
    <2>3. ValuesOK'
      BY <1>a, <1>c, <1>t, <2>1, <2>2 DEF ValuesOK
    <2>4. misused' \in BOOLEAN
      BY <1>a, <1>t, Zenon DEF TypeOK
    <2> QED BY <2>3, <2>4 DEF TypeOK
  <1>2. Surplus' = Surplus
    <2>1. ASSUME NEW q \in Procs
          PROVE  /\ pc'[q] = "undo" <=> pc[q] = "undo"
                 /\ pc[q] = "undo" => n'[q] = n[q]
      <3>1. CASE q = p
        BY <1>a, <1>c, <3>1
      <3>2. CASE q # p
        BY <1>a, <1>c, <1>q, <1>t, <3>2 DEF ValuesOK
      <3> QED BY <3>1, <3>2
    <2> QED BY <2>1, SurplusKept
  <1>3. PermitsConserved'
    BY <1>a, <1>1, <1>2 DEF IndInv, PermitsConserved, Granted
  <1>4. QueueInv'
    <2>1. CASE recvq = <<>>
      BY <1>a, <1>q, <2>1 DEF QueueInv
    <2>2. CASE recvq # <<>>
      <3>1. /\ Len(recvq') = Len(recvq) - 1 /\ wake' = wake /\ wake = 0
            /\ \A i \in 1..Len(recvq)-1 : recvq'[i] = recvq[i+1]
        BY <1>a, <1>q, <2>2, HeadTailProperties DEF IndInv, QueueInv
      <3>2. ASSUME NEW i \in 1..Len(recvq') PROVE pc'[recvq'[i]] = "blocked"
        <4>1. i+1 \in 1..Len(recvq) /\ i+1 # 1
          BY <1>q, <3>1
        <4>2. recvq'[i] = recvq[i+1] /\ recvq[i+1] # recvq[1]
          BY <1>q, <2>2, <3>1, <4>1 DEF IndInv, QueueInv
        <4> HIDE DEF next
        <4> QED BY <1>a, <1>c, <1>q, <2>2, <4>1, <4>2
      <3>3. ASSUME NEW i \in 1..Len(recvq'), NEW j \in 1..Len(recvq'),
                   recvq'[i] = recvq'[j]
            PROVE  i = j
        <4>1. i+1 \in 1..Len(recvq) /\ j+1 \in 1..Len(recvq)
          BY <1>q, <3>1
        <4>2. recvq[i+1] = recvq[j+1]
          BY <3>1, <3>3
        <4>3. i+1 = j+1
          BY <4>1, <4>2 DEF IndInv, QueueInv
        <4> QED BY <4>3
      <3> QED BY <3>1, <3>2, <3>3 DEF QueueInv
    <2> QED BY <2>1, <2>2
  <1>5. CallInv'
    <2> SUFFICES ASSUME NEW q \in Procs
                 PROVE  /\ pc'[q] # "idle" => n'[q] >= 1
                        /\ pc'[q] = "undo" => misused
                        /\ pc'[q] = "cas" /\ ~misused => old[q] <= Cap
      BY <1>a DEF CallInv
    <2>1. CASE q = p
      BY <1>a, <1>b, <1>c, <1>t, <2>1 DEF ValuesOK
    <2>2. CASE q # p
      <3>1. n'[q] = n[q] /\ (pc'[q] = pc[q] \/ (pc'[q] = "load" /\ pc[q] = "blocked"))
        <4>1. n'[q] = n[q]
          BY <1>a, <1>t, <2>2 DEF ValuesOK
        <4>2. recvq # <<>> /\ q = Head(recvq) => pc[q] = "blocked"
          BY <1>q
        <4> HIDE DEF next
        <4> QED BY <1>c, <2>2, <4>1, <4>2
      <3> QED BY <3>1 DEF IndInv, CallInv
    <2> QED BY <2>1, <2>2
  <1>6. WakeInv'
    <2>1. CASE recvq = <<>>
      <3>1. wake' # 0
        BY <1>a, <1>b, <2>1
      <3> QED BY <3>1 DEF WakeInv
    <2>2. CASE recvq # <<>>
      <3>1. Head(recvq) \in Procs \ {p}
        BY <1>a, <1>q, <2>2
      <3>2. pc'[Head(recvq)] = "load"
        BY <1>c, <2>2, <3>1
      <3> QED BY <3>1, <3>2 DEF WakeInv, Covers
    <2> QED BY <2>1, <2>2
  <1> QED BY <1>3, <1>4, <1>5, <1>6 DEF IndInv

LEMMA NextIndInv == IndInv /\ [Next]_vars => IndInv'
  <1> SUFFICES ASSUME IndInv, [Next]_vars PROVE IndInv'
    OBVIOUS
  <1>1. ASSUME NEW p \in Procs, NEW k \in Kinds, NEW m \in 1..Cap,
               AcquireBegin(p, k, m)
        PROVE  IndInv'
    BY <1>1, AcquireBeginStep
  <1>2. ASSUME NEW p \in Procs, Step(p) PROVE IndInv'
    BY <1>2, AcquireLoadStep, AcquireCasStep, AcquireRecvStep, ReleaseUndoStep,
       ReleaseSignalStep DEF Step
  <1>3. ASSUME NEW p \in Procs, AcquireCancel(p) PROVE IndInv'
    BY <1>3, AcquireCancelStep
  <1>4. ASSUME NEW p \in Procs, Release(p) PROVE IndInv'
    BY <1>4, ReleaseAddStep DEF Release
  <1>5. CASE UNCHANGED vars
    BY <1>5 DEF vars, IndInv, PermitsConserved, TypeOK, ValuesOK, Granted, Surplus,
                QueueInv, CallInv, WakeInv, Waits, Covers
  <1> QED BY <1>1, <1>2, <1>3, <1>4, <1>5 DEF Next

-----------------------------------------------------------------------------

\* Counts, wake channel and calls of the semaphore agree in every reachable
\* state.
THEOREM SemaphoreInductive == Spec => []IndInv
  <1> QED BY InitIndInv, NextIndInv, PTL DEF Spec

\* No interleaving of Acquire, TryAcquireN, ReleaseN and of the undo of a Release
\* in excess loses a permit or makes one up.
THEOREM SemaphorePermitsConserved == Spec => []PermitsConserved
  <1>1. IndInv => PermitsConserved
    BY DEF IndInv
  <1> QED BY SemaphoreInductive, <1>1, PTL

\* A goroutine blocked on the wake channel is never forgotten: a permit is
\* granted, whose release will signal, or somebody is on the way to take one.
THEOREM SemaphoreWaiterIsCovered == Spec => []WaiterIsCovered
  <1>1. IndInv => WaiterIsCovered
    <2> SUFFICES ASSUME IndInv, recvq # <<>>, ~misused
                 PROVE  \/ Granted > 0
                        \/ \E p \in Procs : pc[p] \in {"load", "cas", "signal"}
      BY DEF WaiterIsCovered
    <2>1. avail = Cap - Granted /\ Granted \in Nat /\ Cap \in Nat
      BY UnmisusedCount, CountTypes DEF IndInv, PermitsConserved
    <2>2. CASE avail # Cap
      BY <2>1, <2>2
    <2>3. CASE avail = Cap
      <3>1. recvq[1] \in Procs /\ pc[recvq[1]] = "blocked" /\ wake = 0
        <4>1. recvq \in Seq(Procs)
          BY DEF IndInv, PermitsConserved, TypeOK, ValuesOK
        <4>2. 1 \in 1..Len(recvq)
          BY <4>1
        <4> QED BY <4>1, <4>2, ElementOfSeq DEF IndInv, QueueInv
      <3>2. \E p \in Procs : Covers(p)
        BY <2>3, <3>1 DEF IndInv, WakeInv, Waits
      <3> QED BY <3>2 DEF Covers
    <2> QED BY <2>2, <2>3
  <1> QED BY SemaphoreInductive, <1>1, PTL
=============================================================================
