----------------------------- MODULE RingProofs -----------------------------
(***************************************************************************)
(* Proofs about the three components that keep their data in a ring of     *)
(* cells: the queue of one producer and one consumer (Spsc), the timing    *)
(* wheel (Wheel) and the byte buffer (RingBuffer).  All three turn a       *)
(* growing position into an index with a mask, so the proofs share the     *)
(* facts about remainders: positions less than a lap apart have different  *)
(* cells, and a position moved by a lap has the same one.                  *)
(*                                                                         *)
(* The parts do not depend on each other.  Each states the inductive       *)
(* invariant of its component, proves that every step keeps it, and ends   *)
(* with the theorems about the component's specification.                  *)
(***************************************************************************)
EXTENDS Spsc, Wheel, RingBuffer, SharedLemmas, WellFoundedInduction

(***************************************************************************)
(* The queue of one producer and one consumer, for every ring size and     *)
(* every set of values: the type invariant, the safety of the cached       *)
(* counters, the absence of a data race on a slot, the bound on Len, and   *)
(* the refinement of the bounded FIFO queue.                               *)
(***************************************************************************)

\* Where the producer is tells how far its check has got: it writes only into
\* room that its cached head shows, and the slot it publishes holds its value.
ProducerInv ==
    /\ ppc # "idle" => push.st = "busy" /\ tail < MaxSeq
    /\ ppc = "idle" => push.st # "busy"
    /\ ppc \in {"write", "publish"} => tail < cachedHead + Size
    /\ ppc = "publish" => buf[Idx(tail)] = push.val

\* Where the consumer is tells what it knows: it takes only a value that its
\* cached tail shows.
ConsumerInv ==
    /\ cpc # "idle" <=> pop.st = "busy"
    /\ cpc \in {"read", "clear", "publish"} => head < cachedTail
    /\ cpc = "clear" => popVal = buf[Idx(head)]

\* The tail an observer has loaded is not ahead of the ring's.
ObserverInv == lenTail <= tail /\ LenWithinCap

\* The inductive invariant of the ring.
IInv == TypeOK /\ CachedViewsSafe /\ ProducerInv /\ ConsumerInv /\ ObserverInv

\* A slot index computed by Push or Pop is an index of buf.
LEMMA IdxInRange ==
    ASSUME NEW k \in Nat PROVE Idx(k) \in 0..Size-1
  BY IndexInRange, SizeAssumption DEF Idx

\* Two sequence numbers less than one lap apart have different slots.
LEMMA IdxDiffer ==
    ASSUME NEW a \in Nat, NEW c \in Nat, a < c, c - a < Size
    PROVE  Idx(a) # Idx(c)
  <1>1. Size \in Nat \ {0}
    BY SizeAssumption
  <1>2. a % Size # c % Size
    BY <1>1, IndexInjective, Zenon
  <1> QED BY <1>2, Zenon DEF Idx

LEMMA InitIInv == Init => IInv
  BY SizeAssumption, MaxSeqAssumption
     DEF Init, IInv, TypeOK, CachedViewsSafe, ProducerInv, ConsumerInv,
         ObserverInv, LenWithinCap

LEMMA NextIInv == IInv /\ [Next]_vars => IInv'
  <1> SUFFICES ASSUME IInv, [Next]_vars PROVE IInv'
    OBVIOUS
  <1> USE SizeAssumption, MaxSeqAssumption
          DEF IInv, TypeOK, CachedViewsSafe, ProducerInv, ConsumerInv,
              ObserverInv, LenWithinCap, prodVars, consVars, obsVars
  <1>i. Idx(tail) \in 0..Size-1 /\ Idx(head) \in 0..Size-1
    BY IdxInRange
  <1>1. ASSUME NEW v \in Value, PushBegin(v) PROVE IInv'
    BY <1>1 DEF PushBegin
  <1>2. CASE PushCheck
    BY <1>2 DEF PushCheck
  <1>3. CASE PushRefresh
    BY <1>3 DEF PushRefresh
  <1>4. CASE PushWrite
    <2>1. cpc = "clear" => Idx(head) # Idx(tail)
      BY <1>4, IdxDiffer DEF PushWrite
    <2> QED BY <1>4, <1>i, <2>1 DEF PushWrite
  <1>5. CASE PushPublish
    BY <1>5 DEF PushPublish
  <1>6. CASE PopBegin
    BY <1>6 DEF PopBegin
  <1>7. CASE PopCheck
    BY <1>7 DEF PopCheck
  <1>8. CASE PopRefresh
    BY <1>8 DEF PopRefresh
  <1>9. CASE PopRead
    BY <1>9, <1>i DEF PopRead
  <1>10. CASE PopClear
    <2>1. ppc = "publish" => Idx(head) # Idx(tail)
      BY <1>10, IdxDiffer DEF PopClear
    <2> QED BY <1>10, <1>i, <2>1 DEF PopClear
  <1>11. CASE PopPublish
    BY <1>11 DEF PopPublish
  <1>12. CASE LenLoadTail
    BY <1>12 DEF LenLoadTail
  <1>13. CASE LenLoadHead
    BY <1>13 DEF LenLoadHead
  <1>14. CASE UNCHANGED vars
    BY <1>14 DEF vars, Idx
  <1> QED
    BY <1>1, <1>2, <1>3, <1>4, <1>5, <1>6, <1>7, <1>8, <1>9, <1>10, <1>11,
       <1>12, <1>13, <1>14 DEF Next, Push, Pop, LenOp

\* The inductive invariant holds in every reachable state of the ring.
THEOREM SpscInductive == Spec => []IInv
  <1> QED BY InitIInv, NextIInv, PTL DEF Spec

\* Every variable of the ring keeps its type.
THEOREM SpscTypeOK == Spec => []TypeOK
  <1>1. IInv => TypeOK
    BY DEF IInv
  <1> QED BY SpscInductive, <1>1, PTL

\* The cached counters of Push and Pop never promise room or values that are
\* not there.
THEOREM SpscCachedViewsSafe == Spec => []CachedViewsSafe
  <1>1. IInv => CachedViewsSafe
    BY DEF IInv
  <1> QED BY SpscInductive, <1>1, PTL

\* Push and Pop never access the same slot at the same time.
THEOREM SpscNoSlotRace == Spec => []NoSlotRace
  <1>1. IInv => NoSlotRace
    <2> SUFFICES ASSUME IInv, ppc = "write", cpc \in {"read", "clear"}
                 PROVE  Idx(tail) # Idx(head)
      BY DEF NoSlotRace
    <2>1. head \in Nat /\ tail \in Nat /\ head < tail /\ tail - head < Size
      BY SizeAssumption, MaxSeqAssumption
         DEF IInv, TypeOK, CachedViewsSafe, ProducerInv, ConsumerInv
    <2> QED BY <2>1, IdxDiffer
  <1> QED BY SpscInductive, <1>1, PTL

\* Len never reports more than the capacity, whatever happens between its loads.
THEOREM SpscLenWithinCap == Spec => []LenWithinCap
  <1>1. IInv => LenWithinCap
    BY DEF IInv, ObserverInv
  <1> QED BY SpscInductive, <1>1, PTL

-----------------------------------------------------------------------------
(* Popped values are not kept reachable *)

\* While Pop is about to store head, the slot it gives back is zeroed already.
ZeroInv == FreeSlotsZeroed /\ (cpc = "publish" => buf[Idx(head)] = Zero)

LEMMA InitZeroInv == Init => ZeroInv
  BY DEF Init, ZeroInv, FreeSlotsZeroed

\* Steps that leave buf and the counters alone.
LEMMA ZeroKept ==
    ASSUME ZeroInv, UNCHANGED <<buf, head, tail>>,
           ppc = "publish" <=> ppc' = "publish",
           cpc' = "publish" => cpc = "publish"
    PROVE  ZeroInv'
  BY DEF ZeroInv, FreeSlotsZeroed

LEMMA NextZeroInv == IInv /\ ZeroInv /\ [Next]_vars => ZeroInv'
  <1> SUFFICES ASSUME IInv, ZeroInv, [Next]_vars PROVE ZeroInv'
    OBVIOUS
  <1> USE DEF prodVars, consVars, obsVars
  <1>t. /\ buf \in [0..Size-1 -> Value \cup {Zero}]
        /\ head \in Nat /\ tail \in Nat /\ head <= tail
        /\ Idx(tail) \in 0..Size-1 /\ Idx(head) \in 0..Size-1
    BY IdxInRange, MaxSeqAssumption DEF IInv, TypeOK, CachedViewsSafe
  <1>1. CASE \E v \in Value : PushBegin(v)
    BY <1>1, ZeroKept DEF PushBegin
  <1>2. CASE PushCheck
    BY <1>2, ZeroKept DEF PushCheck
  <1>3. CASE PushRefresh
    BY <1>3, ZeroKept DEF PushRefresh
  <1>4. CASE PushWrite
    <2>a. /\ ppc = "write" /\ ppc' = "publish"
          /\ buf' = [buf EXCEPT ![Idx(tail)] = push.val]
          /\ UNCHANGED <<head, tail, cpc>>
      BY <1>4 DEF PushWrite
    <2>1. FreeSlotsZeroed'
      <3> SUFFICES ASSUME NEW i \in 0..Size-1, buf'[i] # Zero
                   PROVE  \E k \in head..tail : i = Idx(k)
        BY <2>a DEF FreeSlotsZeroed
      <3>1. CASE i = Idx(tail)
        BY <1>t, <3>1
      <3>2. CASE i # Idx(tail)
        BY <1>t, <2>a, <3>2 DEF ZeroInv, FreeSlotsZeroed
      <3> QED BY <3>1, <3>2
    <2>2. cpc = "publish" => Idx(head) # Idx(tail)
      <3> SUFFICES ASSUME cpc = "publish" PROVE Idx(head) # Idx(tail)
        OBVIOUS
      <3>1. head < tail /\ tail - head < Size
        BY <1>t, <2>a, SizeAssumption
           DEF IInv, TypeOK, CachedViewsSafe, ProducerInv, ConsumerInv
      <3> QED BY <1>t, <3>1, IdxDiffer
    <2> QED BY <1>t, <2>a, <2>1, <2>2 DEF ZeroInv
  <1>5. CASE PushPublish
    <2>a. tail' = tail + 1 /\ UNCHANGED <<buf, head, cpc>>
      BY <1>5 DEF PushPublish
    <2>1. ASSUME NEW k \in head..tail PROVE k \in head..tail' /\ k < tail'
      BY <1>t, <2>a
    <2> QED BY <2>a, <2>1 DEF ZeroInv, FreeSlotsZeroed
  <1>6. CASE PopBegin
    BY <1>6, ZeroKept DEF PopBegin
  <1>7. CASE PopCheck
    BY <1>7, ZeroKept DEF PopCheck
  <1>8. CASE PopRefresh
    BY <1>8, ZeroKept DEF PopRefresh
  <1>9. CASE PopRead
    BY <1>9, ZeroKept DEF PopRead
  <1>10. CASE PopClear
    BY <1>10, <1>t DEF PopClear, ZeroInv, FreeSlotsZeroed
  <1>11. CASE PopPublish
    <2>a. /\ cpc = "publish" /\ cpc' = "idle" /\ head' = head + 1
          /\ UNCHANGED <<buf, tail, ppc>>
      BY <1>11 DEF PopPublish
    <2>1. ASSUME NEW i \in 0..Size-1, buf[i] # Zero
          PROVE  \E k \in head + 1..tail : i = Idx(k) /\ (k < tail \/ ppc = "publish")
      <3>1. PICK k \in head..tail : i = Idx(k) /\ (k < tail \/ ppc = "publish")
        BY <2>1 DEF ZeroInv, FreeSlotsZeroed
      <3>2. k # head
        BY <2>a, <2>1, <3>1 DEF ZeroInv
      <3>3. k \in head + 1..tail
        BY <1>t, <3>2
      <3> QED BY <3>1, <3>3
    <2> QED BY <2>a, <2>1 DEF ZeroInv, FreeSlotsZeroed
  <1>12. CASE LenOp
    BY <1>12, ZeroKept DEF LenOp, LenLoadTail, LenLoadHead
  <1>13. CASE UNCHANGED vars
    BY <1>13, ZeroKept DEF vars
  <1> QED
    BY <1>1, <1>2, <1>3, <1>4, <1>5, <1>6, <1>7, <1>8, <1>9, <1>10, <1>11,
       <1>12, <1>13 DEF Next, Push, Pop

\* Pop's zeroing of a slot and Push's reuse of it never leave a popped value
\* behind: outside the queue every slot holds the zero value.
THEOREM SpscFreeSlotsZeroed == Spec => []FreeSlotsZeroed
  <1>1. ZeroInv => FreeSlotsZeroed
    BY DEF ZeroInv
  <1> QED BY SpscInductive, InitZeroInv, NextZeroInv, <1>1, PTL DEF Spec

-----------------------------------------------------------------------------
(* Refinement of the bounded FIFO queue *)

\* The queue an observer sees is the same when the counters and every item
\* between them are.
LEMMA QueueUnchanged ==
    ASSUME IInv, tail' = tail, head' = head,
           \A k \in Nat : head <= k /\ k < tail => Item(k)' = Item(k)
    PROVE  Queue' = Queue
  <1>1. head \in Nat /\ tail \in Nat
    BY MaxSeqAssumption DEF IInv, TypeOK
  <1>2. \A i \in 1..(tail - head) : Item(head + i - 1)' = Item(head + i - 1)
    <2> TAKE i \in 1..(tail - head)
    <2>1. head + i - 1 \in Nat /\ head <= head + i - 1 /\ head + i - 1 < tail
      BY <1>1
    <2> QED BY <2>1
  <1> QED BY <1>1, <1>2 DEF Queue

\* The number of values an observer sees.
LEMMA QueueLength ==
    IInv => /\ Queue \in Seq(Value \cup {Zero})
            /\ Len(Queue) = tail - head
            /\ (Queue = <<>>) <=> (tail = head)
  <1> SUFFICES ASSUME IInv
               PROVE  /\ Queue \in Seq(Value \cup {Zero})
                      /\ Len(Queue) = tail - head
                      /\ (Queue = <<>>) <=> (tail = head)
    OBVIOUS
  <1>1. head \in Nat /\ tail \in Nat /\ head <= tail
    BY MaxSeqAssumption DEF IInv, TypeOK, CachedViewsSafe
  <1>2. \A i \in 1..(tail - head) : Item(head + i - 1) \in Value \cup {Zero}
    <2> TAKE i \in 1..(tail - head)
    <2>1. head + i - 1 \in Nat
      BY <1>1
    <2>2. Idx(head + i - 1) \in 0..Size-1
      BY <2>1, IdxInRange
    <2> QED BY <2>2 DEF Item, IInv, TypeOK
  <1>3. tail - head \in Nat
    BY <1>1
  <1> QED BY <1>1, <1>2, <1>3 DEF Queue

LEMMA RefinesInit == Init => Fifo!FifoInit
  BY DEF Init, Fifo!FifoInit, Queue

\* Each step of the ring is a step of the queue or leaves it alone.
LEMMA RefinesNext == IInv /\ [Next]_vars => [Fifo!FifoNext]_(Fifo!fifoVars)
  <1> SUFFICES ASSUME IInv, [Next]_vars PROVE [Fifo!FifoNext]_(Fifo!fifoVars)
    OBVIOUS
  <1> USE DEF prodVars, consVars, obsVars
  <1>t. /\ head \in Nat /\ tail \in Nat /\ head <= tail
        /\ tail <= head + Size /\ Size \in Nat
        /\ Idx(tail) \in 0..Size-1 /\ Idx(head) \in 0..Size-1
        /\ buf \in [0..Size-1 -> Value \cup {Zero}]
    BY IdxInRange, SizeAssumption, MaxSeqAssumption
       DEF IInv, TypeOK, CachedViewsSafe
  <1>q. Queue' \in Seq(Value \cup {Zero}) /\ Len(Queue') = tail' - head'
    <2>1. IInv'
      BY NextIInv
    <2>2. (/\ Queue \in Seq(Value \cup {Zero})
           /\ Len(Queue) = tail - head
           /\ (Queue = <<>>) <=> (tail = head))'
      BY <2>1, QueueLength, PTL
    <2> QED BY <2>2
  <1>1. ASSUME NEW v \in Value, PushBegin(v) PROVE Fifo!FifoNext
    <2>1. Queue' = Queue
      BY <1>1, QueueUnchanged DEF PushBegin, Item
    <2>2. Fifo!PushCall(v)
      BY <1>1, <2>1 DEF PushBegin, Fifo!PushCall, IInv, ProducerInv
    <2> QED BY <2>2 DEF Fifo!FifoNext
  <1>2. CASE PushCheck
    <2>1. Queue' = Queue
      BY <1>2, QueueUnchanged DEF PushCheck, Item
    <2> QED BY <1>2, <2>1 DEF PushCheck, Fifo!fifoVars
  <1>3. CASE PushRefresh
    <2>1. Queue' = Queue
      BY <1>3, QueueUnchanged DEF PushRefresh, Item
    <2>2. CASE tail - head >= Size
      <3>1. Len(Queue) = Size
        BY <1>t, <2>2, QueueLength
      <3>2. Fifo!PushFull
        BY <1>3, <2>1, <2>2, <3>1
           DEF PushRefresh, Fifo!PushFull, IInv, ProducerInv
      <3> QED BY <3>2 DEF Fifo!FifoNext
    <2>3. CASE ~(tail - head >= Size)
      BY <1>3, <2>1, <2>3 DEF PushRefresh, Fifo!fifoVars
    <2> QED BY <2>2, <2>3
  <1>4. CASE PushWrite
    <2>1. tail < head + Size
      BY <1>4, SizeAssumption, MaxSeqAssumption
         DEF PushWrite, IInv, TypeOK, ProducerInv, CachedViewsSafe
    <2>2. ASSUME NEW k \in Nat, head <= k, k < tail PROVE Item(k)' = Item(k)
      <3>1. Idx(k) # Idx(tail)
        BY <1>t, <2>1, <2>2, IdxDiffer
      <3>2. Idx(k) \in 0..Size-1
        BY IdxInRange
      <3>3. buf'[Idx(k)] = buf[Idx(k)]
        BY <1>4, <1>t, <3>1, <3>2 DEF PushWrite
      <3> QED BY <1>4, <3>3 DEF PushWrite, Item
    <2>3. Queue' = Queue
      BY <1>4, <2>2, QueueUnchanged DEF PushWrite
    <2> QED BY <1>4, <2>3 DEF PushWrite, Fifo!fifoVars
  <1>5. CASE PushPublish
    <2>1. tail < head + Size
      BY <1>5, SizeAssumption, MaxSeqAssumption
         DEF PushPublish, IInv, TypeOK, ProducerInv, CachedViewsSafe
    <2>2. Len(Queue) = tail - head /\ Queue \in Seq(Value \cup {Zero})
      BY QueueLength
    <2>3. Item(tail) = push.val
      BY <1>5, MaxSeqAssumption
         DEF PushPublish, Item, IInv, TypeOK, ProducerInv, ConsumerInv,
             CachedViewsSafe
    <2>4. ASSUME NEW i \in 1..(tail - head + 1)
          PROVE  Queue'[i] = Item(head + i - 1)
      <3>1. i \in 1..(tail + 1 - head)
        BY <1>t
      <3>2. /\ head' = head /\ cpc' = cpc /\ popVal' = popVal /\ buf' = buf
            /\ tail' = tail + 1
        BY <1>5 DEF PushPublish
      <3>3. \A k \in Nat : Item(k)' = Item(k)
        BY <3>2 DEF Item
      <3>4. Item(head + i - 1)' = Item(head + i - 1)
        BY <1>t, <3>2, <3>3
      <3>5. Queue'[i] = Item(head + i - 1)'
        <4>1. i \in 1..(tail' - head')
          BY <1>t, <3>1, <3>2
        <4> QED BY <4>1 DEF Queue
      <3> QED BY <3>4, <3>5
    <2>5. Queue' = Append(Queue, push.val)
      <3> DEFINE A == Append(Queue, push.val)
      <3>1. push.val \in Value \cup {Zero}
        BY DEF IInv, TypeOK
      <3>2. /\ A \in Seq(Value \cup {Zero}) /\ Len(A) = tail - head + 1
            /\ \A i \in 1..(tail - head) : A[i] = Queue[i]
            /\ A[tail - head + 1] = push.val
        BY <2>2, <3>1, AppendProperties
      <3>3. Queue' \in Seq(Value \cup {Zero}) /\ Len(Queue') = tail - head + 1
        BY <1>5, <1>q, <1>t DEF PushPublish
      <3>4. ASSUME NEW i \in 1..(tail - head + 1) PROVE Queue'[i] = A[i]
        <4>1. CASE i = tail - head + 1
          <5>1. head + i - 1 = tail
            BY <1>t, <4>1
          <5> QED BY <2>3, <2>4, <3>2, <4>1, <5>1
        <4>2. CASE i # tail - head + 1
          <5>1. i \in 1..(tail - head)
            BY <1>t, <4>2
          <5>2. Queue[i] = Item(head + i - 1)
            BY <5>1 DEF Queue
          <5> QED BY <2>4, <3>2, <5>1, <5>2
        <4> QED BY <4>1, <4>2
      <3> HIDE DEF A
      <3>5. Queue' = A
        BY <3>2, <3>3, <3>4, SeqEqual
      <3> QED BY <3>5 DEF A
    <2>6. Fifo!PushOk
      BY <1>5, <1>t, <2>1, <2>2, <2>5
         DEF PushPublish, Fifo!PushOk, IInv, ProducerInv
    <2> QED BY <2>6 DEF Fifo!FifoNext
  <1>6. CASE PopBegin
    <2>1. Queue' = Queue
      BY <1>6, QueueUnchanged DEF PopBegin, Item
    <2>2. Fifo!PopCall
      BY <1>6, <2>1 DEF PopBegin, Fifo!PopCall, IInv, ConsumerInv
    <2> QED BY <2>2 DEF Fifo!FifoNext
  <1>7. CASE PopCheck
    <2>1. Queue' = Queue
      BY <1>7, QueueUnchanged DEF PopCheck, Item
    <2> QED BY <1>7, <2>1 DEF PopCheck, Fifo!fifoVars
  <1>8. CASE PopRefresh
    <2>1. Queue' = Queue
      BY <1>8, QueueUnchanged DEF PopRefresh, Item
    <2>2. CASE head = tail
      <3>1. Queue = <<>>
        BY <2>2, QueueLength
      <3>2. Fifo!PopEmpty
        BY <1>8, <2>1, <2>2, <3>1
           DEF PopRefresh, Fifo!PopEmpty, IInv, ConsumerInv
      <3> QED BY <3>2 DEF Fifo!FifoNext
    <2>3. CASE head # tail
      BY <1>8, <2>1, <2>3 DEF PopRefresh, Fifo!fifoVars
    <2> QED BY <2>2, <2>3
  <1>9. CASE PopRead
    <2>1. Queue' = Queue
      BY <1>9, QueueUnchanged DEF PopRead, Item
    <2> QED BY <1>9, <2>1 DEF PopRead, Fifo!fifoVars
  <1>10. CASE PopClear
    <2>1. ASSUME NEW k \in Nat, head <= k, k < tail PROVE Item(k)' = Item(k)
      <3>1. CASE k = head
        BY <1>10, <3>1 DEF PopClear, Item, IInv, ConsumerInv
      <3>2. CASE k # head
        <4>1. Idx(head) # Idx(k)
          BY <1>t, <2>1, <3>2, IdxDiffer
        <4>2. buf'[Idx(k)] = buf[Idx(k)]
          BY <1>10, <1>t, <4>1, IdxInRange DEF PopClear
        <4> QED BY <1>10, <3>2, <4>2 DEF PopClear, Item
      <3> QED BY <3>1, <3>2
    <2>2. Queue' = Queue
      BY <1>10, <2>1, QueueUnchanged DEF PopClear
    <2> QED BY <1>10, <2>2 DEF PopClear, Fifo!fifoVars
  <1>11. CASE PopPublish
    <2>1. head < tail
      BY <1>11, MaxSeqAssumption
         DEF PopPublish, IInv, TypeOK, ConsumerInv, CachedViewsSafe
    <2>2. /\ Len(Queue) = tail - head /\ Queue \in Seq(Value \cup {Zero})
          /\ Queue # <<>>
      BY <1>t, <2>1, QueueLength
    <2>3. Head(Queue) = popVal
      <3>1. Queue[1] = Item(head)
        BY <1>t, <2>1 DEF Queue
      <3> QED BY <1>11, <2>2, <3>1 DEF PopPublish, Item
    <2>4. Queue' = Tail(Queue)
      <3>1. ASSUME NEW i \in 1..(tail - head - 1)
            PROVE  Queue'[i] = Queue[i + 1]
        <4>1. i \in 1..(tail - (head + 1)) /\ i + 1 \in 1..(tail - head)
          BY <1>t, <2>1
        <4>2. head + 1 + i - 1 = head + (i + 1) - 1 /\ head + (i + 1) - 1 # head
          BY <1>t, <4>1
        <4>3. Queue'[i] = buf[Idx(head + 1 + i - 1)]
          BY <1>11, <4>1, <4>2 DEF PopPublish, Queue, Item
        <4>4. Queue[i + 1] = buf[Idx(head + (i + 1) - 1)]
          BY <4>1, <4>2 DEF Queue, Item
        <4> QED BY <4>2, <4>3, <4>4
      <3>2. Queue' \in Seq(Value \cup {Zero}) /\ Len(Queue') = tail - head - 1
        BY <1>11, <1>q, <1>t DEF PopPublish
      <3>3. /\ Tail(Queue) \in Seq(Value \cup {Zero})
            /\ Len(Tail(Queue)) = tail - head - 1
            /\ \A i \in 1..(tail - head - 1) : Tail(Queue)[i] = Queue[i + 1]
        BY <2>2, HeadTailProperties
      <3> QED BY <3>1, <3>2, <3>3, SeqEqual
    <2>5. Fifo!PopOk
      BY <1>11, <2>2, <2>3, <2>4
         DEF PopPublish, Fifo!PopOk, IInv, ConsumerInv
    <2> QED BY <2>5 DEF Fifo!FifoNext
  <1>12. CASE LenLoadTail
    <2>1. Queue' = Queue
      BY <1>12, QueueUnchanged DEF LenLoadTail, Item
    <2> QED BY <1>12, <2>1 DEF LenLoadTail, Fifo!fifoVars
  <1>13. CASE LenLoadHead
    <2>1. Queue' = Queue
      BY <1>13, QueueUnchanged DEF LenLoadHead, Item
    <2> QED BY <1>13, <2>1 DEF LenLoadHead, Fifo!fifoVars
  <1>14. CASE UNCHANGED vars
    <2>1. Queue' = Queue
      BY <1>14, QueueUnchanged DEF vars, Item
    <2> QED BY <1>14, <2>1 DEF vars, Fifo!fifoVars
  <1> QED
    BY <1>1, <1>2, <1>3, <1>4, <1>5, <1>6, <1>7, <1>8, <1>9, <1>10, <1>11,
       <1>12, <1>13, <1>14 DEF Next, Push, Pop, LenOp

\* spsc.Ring implements the bounded FIFO queue, for every size of the ring.
THEOREM SpscImplementsFifo == Spec => ImplementsFifo
  <1> QED
    BY SpscInductive, RefinesInit, RefinesNext, PTL
       DEF Spec, ImplementsFifo, Fifo!FifoSpec

(***************************************************************************)
(* The timing wheel, for every number of slots, of callers and of entry    *)
(* objects: each object is in one place, an entry is reached when its      *)
(* rounds and its slot say, and each Add fires its own value at most once. *)
(***************************************************************************)

\* Positions are counted one by one: the ranks in a set of positions are 1, 2,
\* and so on up to its size.
LEMMA RankOfPosition ==
    ASSUME NEW n \in Nat, NEW P \in SUBSET (1..n)
    PROVE  /\ Cardinality(P) \in Nat
           /\ \A i \in P : Rank(P, i) \in 1..Cardinality(P)
           /\ \A i, j \in P : Rank(P, i) = Rank(P, j) => i = j
           /\ \A k \in 1..Cardinality(P) : \E i \in P : Rank(P, i) = k
  <1> DEFINE Upto(i) == {j \in P : j <= i}
  <1>1. IsFiniteSet(P) /\ Cardinality(P) \in Nat
    <2>1. IsFiniteSet(1..n)
      BY FS_Interval
    <2> QED BY <2>1, FS_Subset, FS_CardinalityType
  <1>2. \A i \in P : i \in Nat
    OBVIOUS
  <1>3. ASSUME NEW i \in P
        PROVE  IsFiniteSet(Upto(i)) /\ Rank(P, i) \in 1..Cardinality(P)
    <2>1. /\ IsFiniteSet(Upto(i)) /\ Cardinality(Upto(i)) \in Nat
          /\ Cardinality(Upto(i)) <= Cardinality(P)
      BY <1>1, FS_Subset, FS_CardinalityType
    <2>2. i \in Upto(i)
      BY <1>2
    <2>3. Cardinality(Upto(i)) # 0
      BY <2>1, <2>2, FS_EmptySet
    <2>4. Rank(P, i) = Cardinality(Upto(i))
      BY DEF Rank
    <2> HIDE DEF Upto
    <2> QED BY <1>1, <2>1, <2>3, <2>4
  <1>4. ASSUME NEW i \in P, NEW j \in P, i < j
        PROVE  Rank(P, i) # Rank(P, j)
    <2>1. /\ \A m \in Upto(i) \cup {j} : m \in P /\ m <= j
          /\ j \notin Upto(i)
      BY <1>2, <1>4
    <2>2. Upto(i) \cup {j} \in SUBSET Upto(j)
      BY <2>1
    <2>3. Cardinality(Upto(i) \cup {j}) = Cardinality(Upto(i)) + 1
      BY <1>3, <2>1, FS_AddElement
    <2>4. Cardinality(Upto(i) \cup {j}) <= Cardinality(Upto(j))
      BY <1>3, <2>2, FS_Subset
    <2>5. Rank(P, i) = Cardinality(Upto(i)) /\ Rank(P, j) = Cardinality(Upto(j))
      BY DEF Rank
    <2>6. Rank(P, i) \in 1..Cardinality(P) /\ Rank(P, j) \in 1..Cardinality(P)
      BY <1>3
    <2> HIDE DEF Upto
    <2> QED BY <1>1, <2>3, <2>4, <2>5, <2>6
  <1>5. \A i, j \in P : Rank(P, i) = Rank(P, j) => i = j
    <2>1. \A i, j \in P : i = j \/ i < j \/ j < i
      BY <1>2
    <2> QED BY <1>4, <2>1
  <1> DEFINE R == [i \in P |-> Rank(P, i)]
  <1>6. R \in Injection(P, 1..Cardinality(P))
    <2>1. R \in [P -> 1..Cardinality(P)]
      BY <1>3
    <2>2. \A i, j \in P : R[i] = R[j] => i = j
      BY <1>5
    <2> HIDE DEF R
    <2> QED BY <2>1, <2>2 DEF Injection, IsInjective
  <1>7. IsFiniteSet(1..Cardinality(P)) /\ Cardinality(1..Cardinality(P)) = Cardinality(P)
    BY <1>1, FS_Interval
  <1>8. R \in Surjection(P, 1..Cardinality(P))
    BY <1>6, <1>7, FS_Injection
  <1>9. \A k \in 1..Cardinality(P) : \E i \in P : R[i] = k
    BY <1>8 DEF Surjection
  <1> QED BY <1>1, <1>3, <1>5, <1>9

\* Only keeps the elements in S, all of them, and repeats none.
LEMMA OnlyProperties ==
    ASSUME NEW T, NEW l \in Seq(T), NEW S
    PROVE  /\ Only(l, S) \in Seq(T)
           /\ \A k \in 1..Len(Only(l, S)) :
                  /\ Only(l, S)[k] \in S
                  /\ \E i \in 1..Len(l) : l[i] = Only(l, S)[k]
           /\ \A i \in 1..Len(l) : l[i] \in S =>
                  \E k \in 1..Len(Only(l, S)) : Only(l, S)[k] = l[i]
           /\ (\A i, j \in 1..Len(l) : l[i] = l[j] => i = j) =>
                  \A j, k \in 1..Len(Only(l, S)) :
                      Only(l, S)[j] = Only(l, S)[k] => j = k
  <1>p. PICK P : P = {i \in 1..Len(l) : l[i] \in S}
    OBVIOUS
  <1>c. PICK C : C = Cardinality(P)
    OBVIOUS
  <1>f. PICK f : f = Only(l, S)
    OBVIOUS
  <1>1. Len(l) \in Nat /\ P \in SUBSET (1..Len(l))
    BY <1>p
  <1>2. /\ C \in Nat
        /\ \A i \in P : Rank(P, i) \in 1..C
        /\ \A k \in 1..C : \E i \in P : Rank(P, i) = k
    BY <1>1, <1>c, RankOfPosition
  <1>3. \A i, j \in P : Rank(P, i) = Rank(P, j) => i = j
    BY <1>1, <1>c, RankOfPosition
  <1>a. PICK at : at = [k \in 1..C |-> CHOOSE i \in P : Rank(P, i) = k]
    OBVIOUS
  <1>4. \A k \in 1..C : at[k] \in P /\ Rank(P, at[k]) = k
    BY <1>2, <1>a
  <1>5. \A i \in P : at[Rank(P, i)] = i
    BY <1>2, <1>3, <1>4
  <1>6. \A i \in P : i \in 1..Len(l) /\ l[i] \in S /\ l[i] \in T
    BY <1>1, <1>p, ElementOfSeq
  <1>7. f = [k \in 1..C |-> l[at[k]]]
    BY <1>a, <1>c, <1>f, <1>p DEF Only
  <1>8. f \in [1..C -> T] /\ \A k \in 1..C : f[k] = l[at[k]]
    BY <1>4, <1>6, <1>7
  <1>9. f \in Seq(T) /\ Len(f) = C
    BY <1>2, <1>8, IsASeq, LenProperties
  <1>10. \A i \in P : \E k \in 1..C : f[k] = l[i]
    BY <1>2, <1>5, <1>8
  <1>11. ASSUME \A i, j \in 1..Len(l) : l[i] = l[j] => i = j,
                NEW j \in 1..C, NEW k \in 1..C, f[j] = f[k]
         PROVE  j = k
    <2>1. at[j] = at[k]
      BY <1>4, <1>6, <1>8, <1>11
    <2> QED BY <1>4, <2>1
  <1>12. \A k \in 1..C : f[k] \in S /\ \E i \in 1..Len(l) : l[i] = f[k]
    BY <1>4, <1>6, <1>8
  <1>13. \A i \in 1..Len(l) : l[i] \in S => i \in P
    BY <1>p
  <1> HIDE DEF Only
  <1> QED BY <1>f, <1>9, <1>10, <1>11, <1>12, <1>13

-----------------------------------------------------------------------------
(* Slots and distances.                                                    *)

\* The slot after the current one.
LEMMA NextSlot ==
    ASSUME NEW c \in Slots
    PROVE  (c + 1) % NSlots = IF c = NSlots - 1 THEN 0 ELSE c + 1
  <1>1. NSlots \in Nat \ {0} /\ c \in 0..NSlots-1
    BY WheelAssumption DEF Slots
  <1>2. CASE c = NSlots - 1
    <2>1. c + 1 = NSlots * 1 + 0 /\ 0 \in 0..NSlots-1
      BY <1>1, <1>2
    <2> QED BY <1>1, <1>2, <2>1, ModUnique
  <1>3. CASE c # NSlots - 1
    <2>1. c + 1 = NSlots * 0 + (c + 1) /\ c + 1 \in 0..NSlots-1
      BY <1>1, <1>3
    <2> QED BY <1>1, <1>3, <2>1, ModUnique
  <1> QED BY <1>2, <1>3

\* The slot and the rounds of an entry added with a delay of d ticks.
LEMMA AddedSlot ==
    ASSUME NEW c \in Slots, NEW d \in Nat
    PROVE  /\ (c + d) % NSlots \in Slots /\ d \div NSlots \in Nat
           /\ d + (IF d % NSlots = 0 THEN NSlots ELSE 0)
                = (d \div NSlots) * NSlots
                    + (IF c < (c + d) % NSlots THEN ((c + d) % NSlots) - c
                       ELSE ((c + d) % NSlots) + NSlots - c)
  <1>1. NSlots \in Nat \ {0} /\ c \in 0..NSlots-1
    BY WheelAssumption DEF Slots
  <1>2. d = NSlots * (d \div NSlots) + (d % NSlots) /\ d % NSlots \in 0..NSlots-1
           /\ d \div NSlots \in Nat
    BY <1>1, Z3
  <1>q. PICK q \in Nat : q = d \div NSlots
    BY <1>2
  <1>r. PICK r \in 0..NSlots-1 : r = d % NSlots
    BY <1>2
  <1>x. PICK x \in Int : x = NSlots * q
    BY <1>1
  <1>3. d = x + r /\ NSlots * (q + 1) = x + NSlots /\ q * NSlots = x
    <2>1. NSlots * (q + 1) = NSlots * q + NSlots
      BY <1>1, Z3
    <2>2. q * NSlots = NSlots * q
      BY <1>1, Z3
    <2> QED BY <1>2, <1>q, <1>r, <1>x, <2>1, <2>2
  <1>4. d + (IF d % NSlots = 0 THEN NSlots ELSE 0) = IF r = 0 THEN x + NSlots ELSE x + r
    BY <1>3, <1>r, <1>1
  <1>5. CASE c + r < NSlots
    <2>1. c + d = NSlots * q + (c + r) /\ c + r \in 0..NSlots-1
      BY <1>1, <1>3, <1>5, <1>x
    <2>a. PICK a \in Int, m \in 0..NSlots-1 : a = c + d /\ m = c + r
      BY <1>1, <2>1
    <2>b. a = NSlots * q + m
      BY <2>1, <2>a
    <2>q. q \in Int /\ NSlots \in Nat \ {0}
      BY <1>1
    <2>3. a % NSlots = m
      BY <2>b, <2>q, ModUnique, Zenon
    <2>2. (c + d) % NSlots = c + r
      BY <2>3, <2>a
    <2> QED BY <1>1, <1>3, <1>4, <1>5, <1>q, <2>2 DEF Slots
  <1>6. CASE ~(c + r < NSlots)
    <2>1. c + d = NSlots * (q + 1) + (c + r - NSlots) /\ c + r - NSlots \in 0..NSlots-1
      BY <1>1, <1>3, <1>6, <1>x
    <2>a. PICK a \in Int, m \in 0..NSlots-1, p \in Int :
              a = c + d /\ m = c + r - NSlots /\ p = q + 1
      BY <1>1, <2>1
    <2>b. a = NSlots * p + m
      BY <2>1, <2>a
    <2>q. NSlots \in Nat \ {0}
      BY <1>1
    <2>3. a % NSlots = m
      BY <2>b, <2>q, ModUnique, Zenon
    <2>2. (c + d) % NSlots = c + r - NSlots
      BY <2>3, <2>a
    <2> QED BY <1>1, <1>3, <1>4, <1>6, <1>q, <2>2 DEF Slots
  <1> QED BY <1>5, <1>6

-----------------------------------------------------------------------------
(* Preservation of the invariant.                                          *)

LEMMA InitWheelInv == WheelInit => WheelInv
  <1> SUFFICES ASSUME WheelInit PROVE WheelInv
    OBVIOUS
  <1> USE DEF WheelInit
  <1>1. NSlots \in Nat \ {0} /\ MaxTicks \in Nat /\ MaxID \in Nat /\ NoObj \notin Objs
    BY WheelAssumption
  <1>2. WheelTypeOK
    <2>1. 0 \in Slots
      BY <1>1 DEF Slots
    <2>2. <<>> \in Seq(Objs) /\ <<>> \in Seq(IDs)
      OBVIOUS
    <2> QED BY <1>1, <2>1, <2>2 DEF WheelTypeOK
  <1>3. \A s \in Slots : Len(slots[s]) = 0
    OBVIOUS
  <1>4. \A o, s : s \in Slots => ~Linked(o, s)
    BY <1>3 DEF Linked
  <1>5. PlacesInv
    BY <1>1, <1>3, <1>4 DEF PlacesInv
  <1>6. IndexInv
    BY <1>4 DEF IndexInv
  <1>7. AddInv
    BY DEF AddInv
  <1>8. OutcomeInv
    BY DEF OutcomeInv
  <1> QED BY <1>2, <1>5, <1>6, <1>7, <1>8 DEF WheelInv

\* Steps that leave the slots alone leave every object where it is linked.
LEMMA LinksKept ==
    ASSUME slots' = slots
    PROVE  \A o, s : Linked(o, s)' <=> Linked(o, s)
  BY DEF Linked

\* Add takes an object nobody has, under an id nobody has used.
LEMMA AddBeginStep ==
    ASSUME WheelInv, NEW c \in Clients, NEW d \in 0 .. MaxTicks, AddBegin(c, d)
    PROVE  WheelInv'
  <1>t. WheelTypeOK /\ PlacesInv /\ IndexInv /\ AddInv /\ OutcomeInv
    BY DEF WheelInv
  <1>o. PICK o \in pool :
          /\ pool' = pool \ {o}
          /\ mine' = [mine EXCEPT ![c] = o]
          /\ obj' = [obj EXCEPT ![o].id = nextID', ![o].val = nextID']
    BY DEF AddBegin
  <1>a. /\ stage[c] = "idle" /\ nextID < MaxID /\ nextID' = nextID + 1
        /\ ticks' = [ticks EXCEPT ![c] = IF d <= 0 THEN 1 ELSE d]
        /\ stage' = [stage EXCEPT ![c] = "add"]
        /\ UNCHANGED <<slots, cur, index, expired, left, slack, outcome>>
    BY DEF AddBegin
  <1>1. /\ nextID \in Nat /\ nextID' \in 0..MaxID /\ nextID' \in IDs
        /\ MaxID \in Nat /\ MaxTicks \in Nat \ {0} /\ o \in Objs /\ NoObj \notin Objs
    BY <1>t, <1>a, WheelAssumption DEF WheelTypeOK, IDs
  <1>2. /\ obj[o] \in [id : 0 .. MaxID, val : 0 .. MaxID, rounds : Nat]
        /\ obj'[o].id = nextID' /\ obj'[o].val = nextID'
        /\ \A x \in Objs : x # o => obj'[x] = obj[x]
    BY <1>t, <1>o, <1>1 DEF WheelTypeOK
  <1>3. WheelTypeOK'
    <2>1. obj' \in [Objs -> [id : 0 .. MaxID, val : 0 .. MaxID, rounds : Nat]]
      <3>1. obj \in [Objs -> [id : 0 .. MaxID, val : 0 .. MaxID, rounds : Nat]]
        BY <1>t DEF WheelTypeOK
      <3> QED BY <1>o, <1>1, <3>1
    <2>2. ticks' \in [Clients -> 0..MaxTicks]
      BY <1>t, <1>a, <1>1 DEF WheelTypeOK
    <2>3. mine' \in [Clients -> Objs \cup {NoObj}] /\ pool' \in SUBSET Objs
      BY <1>t, <1>o, <1>1 DEF WheelTypeOK
    <2> QED BY <1>t, <1>a, <1>1, <2>1, <2>2, <2>3 DEF WheelTypeOK
  <1>4. \A x, s : Linked(x, s)' <=> Linked(x, s)
    BY <1>a, LinksKept
  <1>5. \A s \in Slots : ~Linked(o, s)
    BY <1>t DEF PlacesInv
  <1>6. /\ mine'[c] = o /\ stage'[c] = "add"
        /\ \A x \in Clients : x # c => mine'[x] = mine[x] /\ stage'[x] = stage[x]
        /\ \A x \in Clients : mine[x] # o
    BY <1>t, <1>o, <1>a DEF WheelTypeOK, PlacesInv
  <1>7. PlacesInv'
    BY <1>t, <1>o, <1>a, <1>1, <1>4, <1>5, <1>6 DEF PlacesInv
  <1>8. IndexInv'
    <2>1. ASSUME NEW s \in Slots, NEW x \in Objs, Linked(x, s)
          PROVE  obj'[x] = obj[x]
      BY <1>2, <1>5, <2>1
    <2>2. \A i \in IDs : index[i] # NoObj => index[i] \in Objs
      BY <1>t DEF WheelTypeOK
    <2>3. \A s : Distance(s)' = Distance(s)
      BY <1>a DEF Distance
    <2>4. \A i \in IDs : i <= nextID => i <= nextID'
      BY <1>1, <1>a DEF IDs
    <2> QED BY <1>t, <1>a, <1>4, <2>1, <2>2, <2>3, <2>4 DEF IndexInv
  <1>9. AddInv'
    <2>1. \A x \in Clients : stage[x] = "add" =>
             /\ mine[x] \in Objs /\ mine[x] # o /\ x # c
             /\ obj[mine[x]].id \in 1..nextID
      BY <1>t, <1>1, <1>6, <1>a DEF WheelTypeOK, AddInv, PlacesInv
    <2>2. index[nextID'] = NoObj /\ outcome[nextID'] = "none"
      BY <1>t, <1>a, <1>1 DEF OutcomeInv, IDs
    <2>3. \A k \in 1 .. Len(expired) : expired[k] # nextID'
      <3>1. \A k \in 1 .. Len(expired) : expired[k] <= nextID /\ expired[k] \in IDs
        BY <1>t, ElementOfSeq DEF OutcomeInv, WheelTypeOK
      <3> QED BY <3>1, <1>1, <1>a DEF IDs
    <2>4. ticks'[c] >= 1 /\ \A x \in Clients : x # c => ticks'[x] = ticks[x]
      BY <1>t, <1>a, <1>1 DEF WheelTypeOK
    <2>5. nextID' \in 1..nextID' /\ nextID' \notin 1..nextID /\ 1..nextID \subseteq 1..nextID'
      BY <1>1, <1>a
    <2>6. \A x \in Clients : stage'[x] = "add" /\ x # c => stage[x] = "add"
      BY <1>6
    <2>7. ASSUME NEW x \in Clients, stage'[x] = "add"
          PROVE  LET i == obj'[mine'[x]].id
                 IN /\ ticks'[x] >= 1 /\ i \in 1..nextID' /\ obj'[mine'[x]].val = i
                    /\ index'[i] = NoObj /\ outcome'[i] = "none"
                    /\ \A k \in 1 .. Len(expired') : expired'[k] # i
      <3>1. CASE x = c
        BY <1>2, <1>6, <1>a, <2>2, <2>3, <2>4, <2>5, <3>1
      <3>2. CASE x # c
        <4>1. mine'[x] = mine[x] /\ obj'[mine[x]] = obj[mine[x]] /\ stage[x] = "add"
          BY <1>2, <1>6, <2>1, <2>6, <2>7, <3>2
        <4> QED BY <1>t, <1>a, <2>4, <2>5, <3>2, <4>1 DEF AddInv
      <3> QED BY <3>1, <3>2
    <2>8. ASSUME NEW x \in Clients, NEW y \in Clients,
                 stage'[x] = "add", stage'[y] = "add", x # y
          PROVE  obj'[mine'[x]].id # obj'[mine'[y]].id
      <3>1. \A z \in Clients : stage'[z] = "add" /\ z # c =>
               /\ obj'[mine'[z]].id = obj[mine[z]].id /\ stage[z] = "add"
               /\ obj[mine[z]].id \in 1..nextID
        BY <1>2, <1>6, <2>1, <2>6
      <3>2. obj'[mine'[c]].id \notin 1..nextID
        BY <1>2, <1>6, <2>5
      <3>3. CASE x = c \/ y = c
        BY <2>8, <3>1, <3>2, <3>3
      <3>4. CASE x # c /\ y # c
        BY <1>t, <2>8, <3>1, <3>4 DEF AddInv
      <3> QED BY <3>3, <3>4
    <2> QED BY <2>7, <2>8 DEF AddInv
  <1>10. OutcomeInv'
    <2>1. \A i \in IDs : i > nextID' => i > nextID
      BY <1>1, <1>a DEF IDs
    <2>2. \A k \in 1..Len(expired) : expired[k] \in IDs
      BY <1>t, ElementOfSeq DEF WheelTypeOK
    <2>3. \A i \in IDs : i <= nextID => i <= nextID'
      BY <1>1, <1>a DEF IDs
    <2> QED BY <1>t, <1>a, <2>1, <2>2, <2>3 DEF OutcomeInv
  <1> QED BY <1>3, <1>7, <1>8, <1>9, <1>10 DEF WheelInv

\* Add's object gets into one slot, as far from the current one as its rounds
\* and the ticks it is added with say.
LEMMA AddInsertStep ==
    ASSUME WheelInv, NEW c \in Clients, AddInsert(c)
    PROVE  WheelInv'
  <1>t. WheelTypeOK /\ PlacesInv /\ IndexInv /\ AddInv /\ OutcomeInv
    BY DEF WheelInv
  <1>o. PICK o : o = mine[c]
    OBVIOUS
  <1>d. PICK d : d = ticks[c]
    OBVIOUS
  <1>p. PICK pos : pos = (cur + d) % NSlots
    OBVIOUS
  <1>r. PICK q : q = d \div NSlots
    OBVIOUS
  <1>i. PICK id : id = obj[o].id
    OBVIOUS
  <1>k. PICK lap : lap = IF d % NSlots = 0 THEN NSlots ELSE 0
    OBVIOUS
  <1>a. /\ stage[c] = "add"
        /\ obj' = [obj EXCEPT ![o].rounds = q]
        /\ slots' = [slots EXCEPT ![pos] = Append(@, o)]
        /\ index' = [index EXCEPT ![id] = o]
        /\ left' = [left EXCEPT ![id] = d] /\ slack' = [slack EXCEPT ![id] = lap]
        /\ stage' = [stage EXCEPT ![c] = "idle"]
        /\ mine' = [mine EXCEPT ![c] = NoObj] /\ ticks' = [ticks EXCEPT ![c] = 0]
        /\ UNCHANGED <<cur, nextID, pool, expired, outcome>>
    BY <1>o, <1>d, <1>p, <1>r, <1>i, <1>k DEF AddInsert
  <1>1. /\ o \in Objs /\ NoObj \notin Objs /\ MaxTicks \in Nat /\ MaxID \in Nat
        /\ nextID \in Nat /\ nextID <= MaxID /\ d \in Nat /\ cur \in Slots
    BY <1>t, <1>o, <1>d, <1>a, WheelAssumption DEF WheelTypeOK, PlacesInv
  <1>2. /\ id \in 1..nextID /\ id \in IDs /\ obj[o].val = id
        /\ index[id] = NoObj /\ outcome[id] = "none"
        /\ \A k \in 1 .. Len(expired) : expired[k] # id
    BY <1>t, <1>o, <1>a, <1>i, <1>1 DEF AddInv, IDs
  <1>3. /\ pos \in Slots /\ q \in Nat
        /\ d + lap = q * NSlots + (IF cur < pos THEN pos - cur ELSE pos + NSlots - cur)
    BY <1>1, <1>k, <1>p, <1>r, AddedSlot
  <1>4. /\ obj'[o].id = id /\ obj'[o].val = id /\ obj'[o].rounds = q
        /\ \A x \in Objs : x # o => obj'[x] = obj[x]
        /\ obj' \in [Objs -> [id : 0 .. MaxID, val : 0 .. MaxID, rounds : Nat]]
    <2>1. obj \in [Objs -> [id : 0 .. MaxID, val : 0 .. MaxID, rounds : Nat]] /\ q \in Nat
      BY <1>t, <1>3 DEF WheelTypeOK
    <2>2. obj' = [obj EXCEPT ![o].rounds = q] /\ obj[o].id = id /\ obj[o].val = id
      BY <1>a, <1>i, <1>2
    <2> QED BY <1>1, <2>1, <2>2
  <1>5. /\ slots' \in [Slots -> Seq(Objs)]
        /\ slots'[pos] = Append(slots[pos], o)
        /\ \A s \in Slots : s # pos => slots'[s] = slots[s]
    BY <1>t, <1>a, <1>1, <1>3 DEF WheelTypeOK
  <1>6. PICK l \in Seq(Objs) : l = slots[pos]
    BY <1>t, <1>3 DEF WheelTypeOK
  <1>7. /\ Len(Append(l, o)) = Len(l) + 1 /\ Append(l, o)[Len(l) + 1] = o
        /\ \A k \in 1..Len(l) : Append(l, o)[k] = l[k]
        /\ Len(l) \in Nat
    BY <1>1, AppendProperties
  <1>8. \A k \in 1..Len(l) : l[k] # o
    BY <1>t, <1>o, <1>3, <1>6 DEF PlacesInv, Linked
  <1>9. ASSUME NEW s \in Slots, NEW x
        PROVE  Linked(x, s)' <=> Linked(x, s) \/ (x = o /\ s = pos)
    <2>1. CASE s # pos
      BY <1>5, <2>1 DEF Linked
    <2>2. CASE s = pos
      <3>1. Linked(x, s)' <=> \E k \in 1..Len(l) + 1 : Append(l, o)[k] = x
        BY <1>5, <1>6, <1>7, <2>2 DEF Linked
      <3>2. Linked(x, s) <=> \E k \in 1..Len(l) : l[k] = x
        BY <1>6, <2>2 DEF Linked
      <3>3. \A k : k \in 1..Len(l) + 1 <=> k \in 1..Len(l) \/ k = Len(l) + 1
        BY <1>7
      <3> QED BY <1>7, <2>2, <3>1, <3>2, <3>3
    <2> QED BY <2>1, <2>2
  <1>10. \A s \in Slots : ~Linked(o, s)
    BY <1>t, <1>o DEF PlacesInv
  <1>11. /\ mine'[c] = NoObj /\ stage'[c] = "idle"
         /\ \A x \in Clients : x # c => /\ mine'[x] = mine[x] /\ stage'[x] = stage[x]
                                        /\ ticks'[x] = ticks[x] /\ mine[x] # o
    BY <1>t, <1>a, <1>o, <1>1 DEF WheelTypeOK, PlacesInv
  <1>12. /\ index'[id] = o /\ left'[id] = d /\ slack'[id] = lap
         /\ \A i \in IDs : i # id => /\ index'[i] = index[i] /\ left'[i] = left[i]
                                     /\ slack'[i] = slack[i]
    BY <1>t, <1>a, <1>2 DEF WheelTypeOK
  <1>13. WheelTypeOK'
    <2>1. d \in Int /\ lap \in {0, NSlots}
      BY <1>1, <1>k
    <2>2. left' \in [IDs -> Int] /\ slack' \in [IDs -> {0, NSlots}] /\ index' \in [IDs -> Objs \cup {NoObj}]
      BY <1>t, <1>a, <1>1, <2>1 DEF WheelTypeOK
    <2>3. /\ stage' \in [Clients -> {"idle", "add", "clear"}]
          /\ mine' \in [Clients -> Objs \cup {NoObj}]
          /\ ticks' \in [Clients -> 0 .. MaxTicks]
      BY <1>t, <1>a, <1>1 DEF WheelTypeOK
    <2> QED BY <1>t, <1>a, <1>4, <1>5, <2>2, <2>3 DEF WheelTypeOK
  <1>14. PlacesInv'
    <2>1. ASSUME NEW s \in Slots, NEW j \in 1..Len(slots'[s]), NEW k \in 1..Len(slots'[s]),
                 slots'[s][j] = slots'[s][k]
          PROVE  j = k
      <3>1. CASE s # pos
        BY <1>t, <1>5, <2>1, <3>1 DEF PlacesInv
      <3>2. CASE s = pos
        <4>1. \A m, n \in 1..Len(l) : l[m] = l[n] => m = n
          BY <1>t, <1>3, <1>6 DEF PlacesInv
        <4>2. j \in 1..Len(l) + 1 /\ k \in 1..Len(l) + 1
                 /\ Append(l, o)[j] = Append(l, o)[k]
          BY <1>5, <1>6, <1>7, <2>1, <3>2
        <4>3. (j \in 1..Len(l) \/ j = Len(l) + 1) /\ (k \in 1..Len(l) \/ k = Len(l) + 1)
          BY <1>7, <4>2
        <4> QED BY <1>7, <1>8, <4>1, <4>2, <4>3
      <3> QED BY <3>1, <3>2
    <2>2. \A x \in Objs : \A s, t \in Slots : Linked(x, s)' /\ Linked(x, t)' => s = t
      BY <1>t, <1>9, <1>10 DEF PlacesInv
    <2>3. \A x \in pool' : \A s \in Slots : ~Linked(x, s)'
      BY <1>t, <1>a, <1>o, <1>9 DEF PlacesInv
    <2>4. ASSUME NEW x \in Clients
          PROVE  /\ mine'[x] = NoObj <=> stage'[x] = "idle"
                 /\ mine'[x] \notin pool'
                 /\ \A s \in Slots : ~Linked(mine[x], s)'
      <3>1. CASE x = c
        <4>1. NoObj \notin pool /\ NoObj # o
          BY <1>t, <1>1 DEF WheelTypeOK
        <4>2. \A s \in Slots : ~Linked(NoObj, s)
          BY <1>t, <1>1, ElementOfSeq DEF Linked, WheelTypeOK
        <4> QED BY <1>a, <1>9, <1>11, <3>1, <4>1, <4>2
      <3>2. CASE x # c
        BY <1>t, <1>a, <1>9, <1>11, <3>2 DEF PlacesInv
      <3> QED BY <3>1, <3>2
    <2>5. \A x, y \in Clients : mine'[x] = mine'[y] /\ mine'[x] # NoObj => x = y
      BY <1>t, <1>11 DEF PlacesInv
    <2> QED BY <2>1, <2>2, <2>3, <2>4, <2>5 DEF PlacesInv
  <1>15. IndexInv'
    <2>1. ASSUME NEW s \in Slots, NEW x \in Objs, Linked(x, s)'
          PROVE  LET i == obj'[x].id
                 IN /\ i \in IDs /\ index'[i] = x /\ obj'[x].val = i
                    /\ left'[i] + slack'[i] = obj'[x].rounds * NSlots + Distance(s)'
      <3>1. Distance(s)' = Distance(s)
        BY <1>a DEF Distance
      <3>2. CASE x = o /\ s = pos
        BY <1>2, <1>3, <1>4, <1>12, <3>1, <3>2 DEF Distance
      <3>3. CASE Linked(x, s)
        <4>1. x # o
          BY <1>10, <3>3
        <4>2. /\ obj[x].id \in IDs /\ index[obj[x].id] = x /\ obj[x].val = obj[x].id
              /\ left[obj[x].id] + slack[obj[x].id] = obj[x].rounds * NSlots + Distance(s)
          BY <1>t, <3>3 DEF IndexInv
        <4>3. obj[x].id # id
          BY <1>1, <1>2, <4>2
        <4> QED BY <1>4, <1>12, <3>1, <4>1, <4>2, <4>3
      <3> QED BY <1>9, <2>1, <3>2, <3>3
    <2>2. ASSUME NEW i \in IDs, index'[i] # NoObj
          PROVE  /\ \E s \in Slots : Linked(index[i], s)'
                 /\ obj'[index'[i]].id = i /\ i <= nextID' /\ outcome'[i] = "none"
      <3>1. CASE i = id
        BY <1>1, <1>2, <1>3, <1>4, <1>9, <1>12, <1>a, <3>1
      <3>2. CASE i # id
        <4>1. /\ index'[i] = index[i] /\ index[i] \in Objs
              /\ \E s \in Slots : Linked(index[i], s)
              /\ obj[index[i]].id = i /\ i <= nextID /\ outcome[i] = "none"
          BY <1>t, <1>12, <2>2, <3>2 DEF IndexInv, WheelTypeOK
        <4>2. index[i] # o
          BY <1>10, <4>1
        <4> QED BY <1>4, <1>9, <1>a, <4>1, <4>2
      <3> QED BY <3>1, <3>2
    <2> QED BY <2>1, <2>2 DEF IndexInv
  <1>16. AddInv'
    <2>1. \A x \in Clients : stage'[x] = "add" =>
             /\ x # c /\ stage[x] = "add" /\ mine'[x] = mine[x] /\ mine[x] \in Objs
             /\ obj'[mine[x]] = obj[mine[x]] /\ obj[mine[x]].id # id
             /\ obj[mine[x]].id \in 1..nextID
      <3>1. ASSUME NEW x \in Clients, stage'[x] = "add"
            PROVE  x # c /\ stage[x] = "add" /\ mine'[x] = mine[x] /\ mine[x] \in Objs
        BY <1>t, <1>11, <3>1 DEF WheelTypeOK, PlacesInv
      <3> QED BY <1>t, <1>a, <1>i, <1>o, <1>4, <1>11, <3>1 DEF AddInv
    <2>2. 1..nextID \subseteq IDs
      BY <1>1 DEF IDs
    <2> QED BY <1>t, <1>a, <1>11, <1>12, <2>1, <2>2 DEF AddInv
  <1>17. OutcomeInv'
    <2>1. \A i \in IDs : i > nextID => i # id
      BY <1>1, <1>2
    <2>2. \A k \in 1..Len(expired) : expired[k] \in IDs /\ expired[k] # id
      BY <1>t, <1>2, ElementOfSeq DEF WheelTypeOK
    <2>3. \A i \in IDs : outcome[i] = "fired" => i # id
      BY <1>2
    <2> QED BY <1>t, <1>a, <1>12, <2>1, <2>2, <2>3 DEF OutcomeInv
  <1> QED BY <1>13, <1>14, <1>15, <1>16, <1>17 DEF WheelInv

\* A slot of which only the objects in S are kept.
LEMMA SlotKeeps ==
    ASSUME WheelTypeOK, PlacesInv, NEW s \in Slots, NEW S, slots'[s] = Only(slots[s], S)
    PROVE  /\ slots'[s] \in Seq(Objs)
           /\ \A x : Linked(x, s)' <=> Linked(x, s) /\ x \in S
           /\ \A j, k \in 1..Len(slots'[s]) : slots'[s][j] = slots'[s][k] => j = k
  <1>l. PICK l \in Seq(Objs) : l = slots[s]
    BY DEF WheelTypeOK
  <1>f. PICK f : f = Only(l, S)
    OBVIOUS
  <1>1. /\ f \in Seq(Objs)
        /\ \A k \in 1..Len(f) : f[k] \in S /\ \E i \in 1..Len(l) : l[i] = f[k]
        /\ \A i \in 1..Len(l) : l[i] \in S => \E k \in 1..Len(f) : f[k] = l[i]
        /\ (\A i, j \in 1..Len(l) : l[i] = l[j] => i = j) =>
               \A j, k \in 1..Len(f) : f[j] = f[k] => j = k
    <2>1. /\ Only(l, S) \in Seq(Objs)
          /\ \A k \in 1..Len(Only(l, S)) :
                 /\ Only(l, S)[k] \in S
                 /\ \E i \in 1..Len(l) : l[i] = Only(l, S)[k]
          /\ \A i \in 1..Len(l) : l[i] \in S =>
                 \E k \in 1..Len(Only(l, S)) : Only(l, S)[k] = l[i]
          /\ (\A i, j \in 1..Len(l) : l[i] = l[j] => i = j) =>
                 \A j, k \in 1..Len(Only(l, S)) :
                     Only(l, S)[j] = Only(l, S)[k] => j = k
      BY OnlyProperties
    <2> HIDE DEF Only
    <2> QED BY <1>f, <2>1
  <1>2. \A i, j \in 1..Len(l) : l[i] = l[j] => i = j
    BY <1>l DEF PlacesInv
  <1>3. slots'[s] = f
    BY <1>f, <1>l
  <1>4. ASSUME NEW x
        PROVE  Linked(x, s)' <=> Linked(x, s) /\ x \in S
    <2>1. Linked(x, s)' <=> \E k \in 1..Len(f) : f[k] = x
      BY <1>3 DEF Linked
    <2>2. Linked(x, s) <=> \E k \in 1..Len(l) : l[k] = x
      BY <1>l DEF Linked
    <2> QED BY <1>1, <2>1, <2>2
  <1> QED BY <1>1, <1>2, <1>3, <1>4

\* Nothing but objects is linked.
LEMMA LinkedAreObjs ==
    ASSUME WheelTypeOK, NEW s \in Slots, NEW x, Linked(x, s)
    PROVE  x \in Objs
  BY ElementOfSeq DEF Linked, WheelTypeOK

\* Cancel takes the object of its id out of its slot, and out of the index.
LEMMA CancelStep ==
    ASSUME WheelInv, NEW c \in Clients, NEW id \in IDs, Cancel(c, id)
    PROVE  WheelInv'
  <1>t. WheelTypeOK /\ PlacesInv /\ IndexInv /\ AddInv /\ OutcomeInv
    BY DEF WheelInv
  <1>o. PICK o : o = index[id]
    OBVIOUS
  <1>a. /\ stage[c] = "idle" /\ o # NoObj
        /\ index' = [index EXCEPT ![id] = NoObj]
        /\ slots' = [s \in Slots |-> Only(slots[s], Objs \ {o})]
        /\ mine' = [mine EXCEPT ![c] = o]
        /\ outcome' = [outcome EXCEPT ![id] = "cancelled"]
        /\ stage' = [stage EXCEPT ![c] = "clear"]
        /\ left' = [left EXCEPT ![id] = 0] /\ slack' = [slack EXCEPT ![id] = 0]
        /\ UNCHANGED <<cur, nextID, obj, pool, ticks, expired>>
    BY <1>o DEF Cancel
  <1>1. /\ o \in Objs /\ NoObj \notin Objs /\ obj[o].id = id
        /\ id <= nextID /\ outcome[id] = "none"
    BY <1>t, <1>o, <1>a, WheelAssumption DEF WheelTypeOK, IndexInv
  <1>2. PICK so \in Slots : Linked(o, so)
    BY <1>t, <1>o, <1>a DEF IndexInv
  <1>3. \A x \in Clients : mine[x] # o
    BY <1>t, <1>2 DEF PlacesInv
  <1>4. ASSUME NEW s \in Slots
        PROVE  /\ slots'[s] \in Seq(Objs)
               /\ \A x : Linked(x, s)' <=> Linked(x, s) /\ x \in Objs \ {o}
               /\ \A j, k \in 1..Len(slots'[s]) : slots'[s][j] = slots'[s][k] => j = k
    <2>1. slots'[s] = Only(slots[s], Objs \ {o})
      BY <1>a
    <2> QED BY <1>t, <2>1, SlotKeeps
  <1>5. \A s \in Slots : \A x : Linked(x, s)' <=> Linked(x, s) /\ x # o
    BY <1>t, <1>4, LinkedAreObjs
  <1>6. /\ mine'[c] = o /\ stage'[c] = "clear"
        /\ \A x \in Clients : x # c => mine'[x] = mine[x] /\ stage'[x] = stage[x]
    BY <1>t, <1>a DEF WheelTypeOK
  <1>7. /\ index'[id] = NoObj /\ outcome'[id] = "cancelled"
        /\ \A i \in IDs : i # id => /\ index'[i] = index[i] /\ outcome'[i] = outcome[i]
                                    /\ left'[i] = left[i] /\ slack'[i] = slack[i]
    BY <1>t, <1>a DEF WheelTypeOK
  <1>8. WheelTypeOK'
    <2>1. slots' \in [Slots -> Seq(Objs)]
      <3>1. slots' = [s \in Slots |-> slots'[s]]
        BY <1>a
      <3> QED BY <1>4, <3>1
    <2>2. /\ index' \in [IDs -> Objs \cup {NoObj}]
          /\ stage' \in [Clients -> {"idle", "add", "clear"}]
          /\ mine' \in [Clients -> Objs \cup {NoObj}]
          /\ outcome' \in [IDs -> {"none", "cancelled", "fired", "again"}]
          /\ left' \in [IDs -> Int] /\ slack' \in [IDs -> {0, NSlots}]
      BY <1>t, <1>a, <1>1 DEF WheelTypeOK
    <2> QED BY <1>t, <1>a, <2>1, <2>2 DEF WheelTypeOK
  <1>9. PlacesInv'
    <2>1. \A s \in Slots : \A j, k \in 1..Len(slots'[s]) :
             slots'[s][j] = slots'[s][k] => j = k
      BY <1>4
    <2>2. \A x \in Objs : \A s, t \in Slots : Linked(x, s)' /\ Linked(x, t)' => s = t
      BY <1>t, <1>5 DEF PlacesInv
    <2>3. \A x \in pool' : \A s \in Slots : ~Linked(x, s)'
      BY <1>t, <1>a, <1>5 DEF PlacesInv
    <2>4. ASSUME NEW x \in Clients
          PROVE  /\ mine'[x] = NoObj <=> stage'[x] = "idle"
                 /\ mine'[x] \notin pool'
                 /\ \A s \in Slots : ~Linked(mine[x], s)'
      <3>1. CASE x = c
        <4>1. o \notin pool
          BY <1>t, <1>2 DEF PlacesInv
        <4> QED BY <1>a, <1>5, <1>6, <3>1, <4>1
      <3>2. CASE x # c
        BY <1>t, <1>a, <1>5, <1>6, <3>2 DEF PlacesInv
      <3> QED BY <3>1, <3>2
    <2>5. \A x, y \in Clients : mine'[x] = mine'[y] /\ mine'[x] # NoObj => x = y
      BY <1>t, <1>3, <1>6 DEF PlacesInv
    <2> QED BY <2>1, <2>2, <2>3, <2>4, <2>5 DEF PlacesInv
  <1>10. IndexInv'
    <2>1. ASSUME NEW s \in Slots, NEW x \in Objs, Linked(x, s)'
          PROVE  LET i == obj'[x].id
                 IN /\ i \in IDs /\ index'[i] = x /\ obj'[x].val = i
                    /\ left'[i] + slack'[i] = obj'[x].rounds * NSlots + Distance(s)'
      <3>1. Distance(s)' = Distance(s)
        BY <1>a DEF Distance
      <3>2. Linked(x, s) /\ x # o
        BY <1>5, <2>1
      <3>3. /\ obj[x].id \in IDs /\ index[obj[x].id] = x /\ obj[x].val = obj[x].id
            /\ left[obj[x].id] + slack[obj[x].id] = obj[x].rounds * NSlots + Distance(s)
        BY <1>t, <3>2 DEF IndexInv
      <3>4. obj[x].id # id
        BY <1>o, <3>2, <3>3
      <3> QED BY <1>7, <1>a, <3>1, <3>3, <3>4
    <2>2. ASSUME NEW i \in IDs, index'[i] # NoObj
          PROVE  /\ \E s \in Slots : Linked(index[i], s)'
                 /\ obj'[index'[i]].id = i /\ i <= nextID' /\ outcome'[i] = "none"
      <3>1. i # id
        BY <1>7, <2>2
      <3>2. /\ index'[i] = index[i] /\ index[i] \in Objs
            /\ \E s \in Slots : Linked(index[i], s)
            /\ obj[index[i]].id = i /\ i <= nextID /\ outcome[i] = "none"
        BY <1>t, <1>7, <2>2, <3>1 DEF IndexInv, WheelTypeOK
      <3>3. index[i] # o
        BY <1>1, <3>1, <3>2
      <3> QED BY <1>5, <1>7, <1>a, <3>1, <3>2, <3>3
    <2> QED BY <2>1, <2>2 DEF IndexInv
  <1>11. AddInv'
    <2>1. \A x \in Clients : stage'[x] = "add" =>
             /\ x # c /\ stage[x] = "add" /\ mine'[x] = mine[x]
             /\ obj[mine[x]].id # id /\ obj[mine[x]].id \in 1..nextID
      BY <1>t, <1>a, <1>o, <1>6 DEF AddInv
    <2>2. 1..nextID \subseteq IDs
      BY <1>t, WheelAssumption DEF IDs, WheelTypeOK
    <2> QED BY <1>t, <1>a, <1>7, <2>1, <2>2 DEF AddInv
  <1>12. OutcomeInv'
    <2>1. \A k \in 1..Len(expired) : expired[k] \in IDs /\ expired[k] # id
      BY <1>t, <1>a, <1>o, ElementOfSeq DEF WheelTypeOK, OutcomeInv
    <2>2. \A i \in IDs : i > nextID => i # id
      BY <1>t, <1>a, <1>o DEF OutcomeInv
    <2> QED BY <1>t, <1>a, <1>7, <2>1, <2>2 DEF OutcomeInv
  <1> QED BY <1>8, <1>9, <1>10, <1>11, <1>12 DEF WheelInv

\* The object of a cancelled entry goes back to the pool, its value cleared.
LEMMA CancelClearStep ==
    ASSUME WheelInv, NEW c \in Clients, CancelClear(c)
    PROVE  WheelInv'
  <1>t. WheelTypeOK /\ PlacesInv /\ IndexInv /\ AddInv /\ OutcomeInv
    BY DEF WheelInv
  <1>o. PICK o : o = mine[c]
    OBVIOUS
  <1>a. /\ stage[c] = "clear"
        /\ obj' = [obj EXCEPT ![o].val = 0]
        /\ pool' = pool \cup {o}
        /\ mine' = [mine EXCEPT ![c] = NoObj]
        /\ stage' = [stage EXCEPT ![c] = "idle"]
        /\ UNCHANGED <<slots, cur, nextID, index, ticks, expired, left, slack, outcome>>
    BY <1>o DEF CancelClear
  <1>1. o \in Objs /\ NoObj \notin Objs
    BY <1>t, <1>o, <1>a, WheelAssumption DEF WheelTypeOK, PlacesInv
  <1>2. /\ \A x \in Objs : x # o => obj'[x] = obj[x]
        /\ obj' \in [Objs -> [id : 0 .. MaxID, val : 0 .. MaxID, rounds : Nat]]
    <2>1. 0 \in 0..MaxID
      BY WheelAssumption
    <2>2. obj \in [Objs -> [id : 0 .. MaxID, val : 0 .. MaxID, rounds : Nat]]
      BY <1>t DEF WheelTypeOK
    <2>3. \A x \in Objs : x # o => obj'[x] = obj[x]
      BY <1>a, <2>2
    <2>4. [obj[o] EXCEPT !.val = 0] \in [id : 0 .. MaxID, val : 0 .. MaxID, rounds : Nat]
      BY <1>1, <2>1, <2>2
    <2>5. obj' \in [Objs -> [id : 0 .. MaxID, val : 0 .. MaxID, rounds : Nat]]
      BY <1>a, <1>1, <2>2, <2>4
    <2> QED BY <2>3, <2>5
  <1>3. \A s \in Slots : ~Linked(o, s)
    BY <1>t, <1>o DEF PlacesInv
  <1>4. \A x, s : Linked(x, s)' <=> Linked(x, s)
    BY <1>a, LinksKept
  <1>5. /\ mine'[c] = NoObj /\ stage'[c] = "idle"
        /\ \A x \in Clients : x # c => /\ mine'[x] = mine[x] /\ stage'[x] = stage[x]
                                       /\ mine[x] # o
    BY <1>t, <1>a, <1>o, <1>1 DEF WheelTypeOK, PlacesInv
  <1>6. WheelTypeOK'
    <2>1. /\ stage' \in [Clients -> {"idle", "add", "clear"}]
          /\ mine' \in [Clients -> Objs \cup {NoObj}] /\ pool' \in SUBSET Objs
      BY <1>t, <1>a, <1>1 DEF WheelTypeOK
    <2> QED BY <1>t, <1>a, <1>2, <2>1 DEF WheelTypeOK
  <1>7. PlacesInv'
    <2>1. NoObj \notin pool'
      BY <1>t, <1>a, <1>1 DEF WheelTypeOK
    <2>2. \A s \in Slots : ~Linked(NoObj, s)
      BY <1>t, <1>1, LinkedAreObjs
    <2> QED BY <1>t, <1>a, <1>3, <1>4, <1>5, <2>1, <2>2 DEF PlacesInv
  <1>8. IndexInv'
    <2>1. ASSUME NEW s \in Slots, NEW x \in Objs, Linked(x, s)
          PROVE  obj'[x] = obj[x]
      BY <1>2, <1>3, <2>1
    <2>2. \A i \in IDs : index[i] # NoObj => index[i] \in Objs
      BY <1>t DEF WheelTypeOK
    <2>3. \A s : Distance(s)' = Distance(s)
      BY <1>a DEF Distance
    <2>4. ASSUME NEW s \in Slots, NEW x \in Objs, Linked(x, s)'
          PROVE  LET i == obj'[x].id
                 IN /\ i \in IDs /\ index'[i] = x /\ obj'[x].val = i
                    /\ left'[i] + slack'[i] = obj'[x].rounds * NSlots + Distance(s)'
      <3>1. Linked(x, s) /\ obj'[x] = obj[x]
        BY <1>4, <2>1, <2>4
      <3>2. /\ obj[x].id \in IDs /\ index[obj[x].id] = x /\ obj[x].val = obj[x].id
            /\ left[obj[x].id] + slack[obj[x].id] = obj[x].rounds * NSlots + Distance(s)
        BY <1>t, <3>1 DEF IndexInv
      <3> QED BY <1>a, <2>3, <3>1, <3>2
    <2>5. ASSUME NEW i \in IDs, index'[i] # NoObj
          PROVE  /\ \E s \in Slots : Linked(index[i], s)'
                 /\ obj'[index'[i]].id = i /\ i <= nextID' /\ outcome'[i] = "none"
      <3>1. PICK s \in Slots : Linked(index[i], s)
        BY <1>t, <1>a, <2>5 DEF IndexInv
      <3>2. obj'[index[i]] = obj[index[i]]
        BY <1>a, <2>1, <2>2, <2>5, <3>1
      <3>3. obj[index[i]].id = i /\ i <= nextID /\ outcome[i] = "none"
        BY <1>t, <1>a, <2>5 DEF IndexInv
      <3> QED BY <1>a, <1>4, <3>1, <3>2, <3>3
    <2> QED BY <1>a, <2>4, <2>5 DEF IndexInv
  <1>9. AddInv'
    <2>1. \A x \in Clients : stage'[x] = "add" =>
             /\ x # c /\ stage[x] = "add" /\ mine'[x] = mine[x]
             /\ obj'[mine[x]] = obj[mine[x]]
      BY <1>t, <1>2, <1>5 DEF PlacesInv, WheelTypeOK
    <2>2. ASSUME NEW x \in Clients, stage'[x] = "add"
          PROVE  LET i == obj'[mine'[x]].id
                 IN /\ ticks'[x] >= 1 /\ i \in 1..nextID' /\ obj'[mine'[x]].val = i
                    /\ index'[i] = NoObj /\ outcome'[i] = "none"
                    /\ \A k \in 1 .. Len(expired') : expired'[k] # i
      <3>1. stage[x] = "add" /\ mine'[x] = mine[x] /\ obj'[mine[x]] = obj[mine[x]]
        BY <2>1, <2>2
      <3>2. LET i == obj[mine[x]].id
            IN /\ ticks[x] >= 1 /\ i \in 1..nextID /\ obj[mine[x]].val = i
               /\ index[i] = NoObj /\ outcome[i] = "none"
               /\ \A k \in 1 .. Len(expired) : expired[k] # i
        BY <1>t, <3>1 DEF AddInv
      <3> QED BY <1>a, <3>1, <3>2
    <2>3. ASSUME NEW x \in Clients, NEW y \in Clients,
                 stage'[x] = "add", stage'[y] = "add", x # y
          PROVE  obj'[mine'[x]].id # obj'[mine'[y]].id
      <3>1. \A z \in Clients : stage'[z] = "add" =>
               stage[z] = "add" /\ mine'[z] = mine[z] /\ obj'[mine[z]] = obj[mine[z]]
        BY <2>1
      <3> QED BY <1>t, <2>3, <3>1 DEF AddInv
    <2> QED BY <2>2, <2>3 DEF AddInv
  <1>10. OutcomeInv'
    BY <1>t, <1>a DEF OutcomeInv
  <1> QED BY <1>6, <1>7, <1>8, <1>9, <1>10 DEF WheelInv

\* The call of fn for the first of the expired values.
LEMMA FireStep ==
    ASSUME WheelInv, Fire
    PROVE  WheelInv'
  <1>t. WheelTypeOK /\ PlacesInv /\ IndexInv /\ AddInv /\ OutcomeInv
    BY DEF WheelInv
  <1>e. PICK e \in Seq(IDs) : e = expired
    BY <1>t DEF WheelTypeOK
  <1>h. PICK h : h = Head(e)
    OBVIOUS
  <1>a. /\ e # <<>> /\ expired' = Tail(e)
        /\ outcome' = [outcome EXCEPT ![h] = IF @ = "none" THEN "fired" ELSE "again"]
        /\ UNCHANGED <<slots, cur, nextID, index, obj, pool, stage, mine, ticks, left, slack>>
    BY <1>e, <1>h DEF Fire
  <1>1. /\ Len(e) \in Nat \ {0} /\ h = e[1] /\ h \in IDs
        /\ Tail(e) \in Seq(IDs) /\ Len(Tail(e)) = Len(e) - 1
        /\ \A k \in 1..Len(e)-1 : Tail(e)[k] = e[k+1]
    <2>1. Len(e) \in Nat \ {0}
      BY <1>a, EmptySeq
    <2>2. Head(e) = e[1] /\ e[1] \in IDs
      BY <2>1, ElementOfSeq
    <2> QED BY <1>a, <1>h, <2>1, <2>2, HeadTailProperties
  <1>2. \A k \in 1..Len(e)-1 : k + 1 \in 1..Len(e) /\ k + 1 # 1
    BY <1>1
  <1>3. /\ index[h] = NoObj /\ outcome[h] = "none" /\ left[h] + slack[h] = 0 /\ h <= nextID
        /\ \A k \in 1..Len(e)-1 : e[k+1] # h
    <2>1. 1 \in 1..Len(e)
      BY <1>1
    <2> QED BY <1>t, <1>e, <1>1, <1>2, <2>1 DEF OutcomeInv
  <1>4. /\ outcome'[h] = "fired"
        /\ \A i \in IDs : i # h => outcome'[i] = outcome[i]
        /\ outcome' \in [IDs -> {"none", "cancelled", "fired", "again"}]
    BY <1>t, <1>a, <1>1, <1>3 DEF WheelTypeOK
  <1>5. WheelTypeOK'
    BY <1>t, <1>a, <1>1, <1>4 DEF WheelTypeOK
  <1>6. \A x, s : Linked(x, s)' <=> Linked(x, s)
    BY <1>a, LinksKept
  <1>7. PlacesInv'
    BY <1>t, <1>a, <1>6 DEF PlacesInv
  <1>8. IndexInv'
    <2>1. \A s : Distance(s)' = Distance(s)
      BY <1>a DEF Distance
    <2> QED BY <1>t, <1>a, <1>3, <1>4, <1>6, <2>1 DEF IndexInv
  <1>9. Len(expired') = Len(e) - 1 /\ \A k \in 1..Len(expired') : expired'[k] = e[k+1]
    BY <1>a, <1>1
  <1>10. AddInv'
    <2>1. \A x \in Clients : stage[x] = "add" =>
             obj[mine[x]].id # h /\ obj[mine[x]].id \in IDs
      <3>1. 1 \in 1..Len(e)
        BY <1>1
      <3>2. 1..nextID \subseteq IDs
        BY <1>t, WheelAssumption DEF IDs, WheelTypeOK
      <3> QED BY <1>t, <1>e, <1>1, <3>1, <3>2 DEF AddInv
    <2> QED BY <1>t, <1>a, <1>e, <1>2, <1>4, <1>9, <2>1 DEF AddInv
  <1>11. OutcomeInv'
    <2>1. \A i \in IDs : i > nextID => i # h
      BY <1>t, <1>3, WheelAssumption DEF WheelTypeOK, IDs
    <2>2. \A k \in 1..Len(expired') :
             /\ expired'[k] <= nextID /\ outcome'[expired'[k]] = "none"
             /\ index[expired'[k]] = NoObj /\ left[expired'[k]] + slack[expired'[k]] = 0
      <3>1. \A k \in 1..Len(e) : e[k] \in IDs
        BY ElementOfSeq
      <3> QED BY <1>t, <1>e, <1>2, <1>3, <1>4, <1>9, <3>1 DEF OutcomeInv
    <2>3. ASSUME NEW j \in 1..Len(expired'), NEW k \in 1..Len(expired'),
                 expired'[j] = expired'[k]
          PROVE  j = k
      <3>1. j + 1 = k + 1
        BY <1>t, <1>e, <1>2, <1>9, <2>3 DEF OutcomeInv
      <3> QED BY <1>1, <1>9, <3>1
    <2>4. \A i \in IDs : outcome'[i] # "again" /\ (outcome'[i] = "fired" => left[i] + slack[i] = 0)
      BY <1>t, <1>3, <1>4 DEF OutcomeInv
    <2> QED BY <1>t, <1>a, <1>4, <2>1, <2>2, <2>3, <2>4 DEF OutcomeInv
  <1> QED BY <1>5, <1>7, <1>8, <1>10, <1>11 DEF WheelInv

\* The distances after a tick.
LEMMA DistanceStep ==
    ASSUME WheelTypeOK, NEW s \in Slots, s = (cur + 1) % NSlots, cur' = s
    PROVE  /\ Distance(s) = 1 /\ Distance(s)' = NSlots
           /\ \A t \in Slots : t # s => Distance(t)' = Distance(t) - 1
  <1>1. NSlots \in Nat \ {0} /\ cur \in 0..NSlots-1
    BY WheelAssumption DEF Slots, WheelTypeOK
  <1>2. s = IF cur = NSlots - 1 THEN 0 ELSE cur + 1
    BY NextSlot DEF WheelTypeOK
  <1> QED BY <1>1, <1>2 DEF Slots, Distance

\* A tick: the slot's entries lose a round, and those that have none left are
\* out of the wheel, each with the one tick that was left to it.
LEMMA AdvanceStep ==
    ASSUME WheelInv, Advance
    PROVE  WheelInv'
  <1>t. WheelTypeOK /\ PlacesInv /\ IndexInv /\ AddInv /\ OutcomeInv
    BY DEF WheelInv
  <1>s. PICK s : s = (cur + 1) % NSlots
    OBVIOUS
  <1>l. PICK l : l = slots[s]
    OBVIOUS
  <1>d. PICK due : due = {o \in ToSet(l) : obj[o].rounds = 0}
    OBVIOUS
  <1>f. PICK fire : fire = Only(l, due)
    OBVIOUS
  <1>a. /\ expired = <<>> /\ cur' = s
        /\ slots' = [slots EXCEPT ![s] = Only(l, Objs \ due)]
        /\ obj' = [o \in Objs |->
                     IF o \in due THEN [obj[o] EXCEPT !.val = 0]
                     ELSE IF o \in ToSet(l) THEN [obj[o] EXCEPT !.rounds = @ - 1]
                     ELSE obj[o]]
        /\ index' = [i \in IDs |-> IF \E o \in due : obj[o].id = i THEN NoObj ELSE index[i]]
        /\ pool' = pool \cup due
        /\ expired' = [i \in 1 .. Len(fire) |-> obj[fire[i]].val]
        /\ left' = [i \in IDs |-> IF index[i] # NoObj THEN left[i] - 1 ELSE left[i]]
        /\ UNCHANGED <<nextID, stage, mine, ticks, slack, outcome>>
    BY <1>s, <1>l, <1>d, <1>f DEF Advance
  <1>n. NSlots \in Nat \ {0} /\ MaxID \in Nat /\ NoObj \notin Objs
    BY WheelAssumption
  <1>k. slack' = slack /\ \A i \in IDs : left[i] \in Int /\ slack[i] \in Int
    BY <1>t, <1>a, <1>n DEF WheelTypeOK
  <1>1. s \in Slots /\ l \in Seq(Objs)
    <2>1. NSlots \in Nat \ {0} /\ cur \in 0..NSlots-1
      BY <1>t, WheelAssumption DEF Slots, WheelTypeOK
    <2>2. s = IF cur = NSlots - 1 THEN 0 ELSE cur + 1
      BY <1>t, <1>s, NextSlot DEF WheelTypeOK
    <2>3. s \in Slots
      BY <2>1, <2>2 DEF Slots
    <2> QED BY <1>t, <1>l, <2>3 DEF WheelTypeOK
  <1>2. /\ Distance(s) = 1 /\ Distance(s)' = NSlots
        /\ \A t \in Slots : t # s => Distance(t)' = Distance(t) - 1
    BY <1>t, <1>s, <1>1, <1>a, DistanceStep
  <1>3. /\ \A x : x \in ToSet(l) <=> Linked(x, s)
        /\ \A x : x \in ToSet(l) => x \in Objs
    <2>1. \A x : x \in ToSet(l) <=> \E k \in 1..Len(l) : l[k] = x
      BY <1>1, LenProperties DEF ToSet
    <2>2. \A x : Linked(x, s) <=> \E k \in 1..Len(l) : l[k] = x
      BY <1>l DEF Linked
    <2> QED BY <1>t, <1>1, <2>1, <2>2, LinkedAreObjs
  <1>4. \A x : x \in due <=> Linked(x, s) /\ obj[x].rounds = 0
    BY <1>d, <1>3
  <1>5. /\ slots'[s] \in Seq(Objs)
        /\ \A x : Linked(x, s)' <=> Linked(x, s) /\ x \notin due
        /\ \A j, k \in 1..Len(slots'[s]) : slots'[s][j] = slots'[s][k] => j = k
    <2>1. slots'[s] = Only(slots[s], Objs \ due)
      BY <1>t, <1>a, <1>l, <1>1 DEF WheelTypeOK
    <2>2. /\ slots'[s] \in Seq(Objs)
          /\ \A x : Linked(x, s)' <=> Linked(x, s) /\ x \in Objs \ due
          /\ \A j, k \in 1..Len(slots'[s]) : slots'[s][j] = slots'[s][k] => j = k
      BY <1>t, <1>1, <2>1, SlotKeeps
    <2> QED BY <1>3, <2>2
  <1>6. \A t \in Slots : t # s => /\ slots'[t] = slots[t]
                                  /\ \A x : Linked(x, t)' <=> Linked(x, t)
    BY <1>t, <1>a DEF WheelTypeOK, Linked
  <1>7. \A t \in Slots : \A x : Linked(x, t)' <=> Linked(x, t) /\ x \notin due
    <2>1. ASSUME NEW t \in Slots, t # s, NEW x, Linked(x, t)
          PROVE  x \notin due
      <3>1. x \in Objs
        BY <1>t, <2>1, LinkedAreObjs
      <3> QED BY <1>t, <1>1, <1>4, <2>1, <3>1 DEF PlacesInv
    <2> QED BY <1>5, <1>6, <2>1
  \* What the tick does to objects and ids.
  <1>8. ASSUME NEW x \in Objs, Linked(x, s)
        PROVE  /\ obj[x].id \in IDs /\ index[obj[x].id] = x /\ obj[x].val = obj[x].id
               /\ left[obj[x].id] + slack[obj[x].id] = obj[x].rounds * NSlots + 1
    BY <1>t, <1>1, <1>2, <1>8 DEF IndexInv
  <1>9. ASSUME NEW x \in Objs
        PROVE  /\ obj'[x].id = obj[x].id
               /\ x \notin due => obj'[x].val = obj[x].val
               /\ ~Linked(x, s) => obj'[x] = obj[x]
               /\ Linked(x, s) /\ x \notin due =>
                     obj'[x].rounds = obj[x].rounds - 1 /\ obj[x].rounds \in Nat \ {0}
               /\ obj'[x] \in [id : 0 .. MaxID, val : 0 .. MaxID, rounds : Nat]
    <2>1. obj[x] \in [id : 0 .. MaxID, val : 0 .. MaxID, rounds : Nat]
      BY <1>t DEF WheelTypeOK
    <2>2. CASE x \in due
      <3>1. obj'[x] = [obj[x] EXCEPT !.val = 0] /\ Linked(x, s)
        BY <1>a, <1>4, <2>2
      <3>2. 0 \in 0..MaxID
        BY <1>n
      <3> QED BY <2>1, <2>2, <3>1, <3>2
    <2>3. CASE x \notin due /\ Linked(x, s)
      <3>1. obj'[x] = [obj[x] EXCEPT !.rounds = @ - 1] /\ obj[x].rounds # 0
        BY <1>a, <1>3, <1>4, <2>3
      <3>2. obj[x].rounds - 1 \in Nat
        BY <2>1, <3>1
      <3> QED BY <2>1, <2>3, <3>1, <3>2
    <2>4. CASE x \notin due /\ ~Linked(x, s)
      BY <1>a, <1>3, <2>1, <2>4
    <2> QED BY <2>2, <2>3, <2>4
  <1>10. ASSUME NEW i \in IDs
         PROVE  /\ index'[i] # NoObj => index'[i] = index[i] /\ index[i] \notin due
                /\ index[i] # NoObj /\ index[i] \notin due => index'[i] = index[i]
                /\ index[i] # NoObj => left'[i] = left[i] - 1
                /\ index[i] = NoObj => index'[i] = NoObj /\ left'[i] = left[i]
                /\ index[i] \in due => index'[i] = NoObj
    <2>1. \A x \in due : x \in Objs /\ index[obj[x].id] = x /\ x # NoObj
      BY <1>3, <1>4, <1>8, <1>n
    <2>2. index[i] # NoObj => obj[index[i]].id = i
      BY <1>t DEF IndexInv
    <2> QED BY <1>a, <1>n, <2>1, <2>2
  \* The values of the entries that are due.
  <1>11. /\ fire \in Seq(Objs)
         /\ \A k \in 1..Len(fire) : fire[k] \in due
         /\ \A j, k \in 1..Len(fire) : fire[j] = fire[k] => j = k
    <2>1. /\ Only(l, due) \in Seq(Objs)
          /\ \A k \in 1..Len(Only(l, due)) :
                 /\ Only(l, due)[k] \in due
                 /\ \E i \in 1..Len(l) : l[i] = Only(l, due)[k]
          /\ \A i \in 1..Len(l) : l[i] \in due =>
                 \E k \in 1..Len(Only(l, due)) : Only(l, due)[k] = l[i]
          /\ (\A i, j \in 1..Len(l) : l[i] = l[j] => i = j) =>
                 \A j, k \in 1..Len(Only(l, due)) :
                     Only(l, due)[j] = Only(l, due)[k] => j = k
      BY <1>1, OnlyProperties
    <2>2. \A i, j \in 1..Len(l) : l[i] = l[j] => i = j
      BY <1>t, <1>l, <1>1 DEF PlacesInv
    <2> HIDE DEF Only
    <2> QED BY <1>f, <2>1, <2>2
  <1>12. ASSUME NEW x \in due
         PROVE  /\ x \in Objs /\ obj[x].id \in IDs /\ obj[x].val = obj[x].id
                /\ index[obj[x].id] = x /\ left[obj[x].id] + slack[obj[x].id] = 1
    BY <1>3, <1>4, <1>8, <1>n
  <1>13. /\ expired' \in Seq(IDs) /\ Len(expired') = Len(fire)
         /\ \A k \in 1..Len(fire) : expired'[k] = obj[fire[k]].id
    <2>1. Len(fire) \in Nat
      BY <1>11
    <2>2. expired' \in [1..Len(fire) -> IDs]
      BY <1>a, <1>11, <1>12
    <2> QED BY <1>a, <1>11, <1>12, <2>1, <2>2, IsASeq, LenProperties
  <1>14. ASSUME NEW k \in 1..Len(fire)
         PROVE  /\ expired'[k] \in IDs /\ index[expired'[k]] = fire[k]
                /\ index[expired'[k]] \in due /\ index[expired'[k]] # NoObj
                /\ left[expired'[k]] + slack[expired'[k]] = 1
    BY <1>11, <1>12, <1>13, <1>n
  <1>15. WheelTypeOK'
    <2>1. slots' \in [Slots -> Seq(Objs)]
      BY <1>t, <1>a, <1>5 DEF WheelTypeOK
    <2>2. index' \in [IDs -> Objs \cup {NoObj}]
      BY <1>t, <1>a DEF WheelTypeOK
    <2>3. obj' \in [Objs -> [id : 0 .. MaxID, val : 0 .. MaxID, rounds : Nat]]
      <3>1. obj' = [x \in Objs |-> obj'[x]]
        BY <1>a
      <3> QED BY <1>9, <3>1
    <2>4. left' \in [IDs -> Int]
      BY <1>t, <1>a DEF WheelTypeOK
    <2>5. pool' \in SUBSET Objs
      BY <1>t, <1>a, <1>12 DEF WheelTypeOK
    <2> QED BY <1>t, <1>a, <1>1, <1>13, <2>1, <2>2, <2>3, <2>4, <2>5 DEF WheelTypeOK
  <1>16. PlacesInv'
    <2>1. \A t \in Slots : \A j, k \in 1..Len(slots'[t]) :
             slots'[t][j] = slots'[t][k] => j = k
      BY <1>t, <1>5, <1>6 DEF PlacesInv
    <2>2. \A x \in Objs : \A t, u \in Slots : Linked(x, t)' /\ Linked(x, u)' => t = u
      BY <1>t, <1>7 DEF PlacesInv
    <2>3. \A x \in pool' : \A t \in Slots : ~Linked(x, t)'
      BY <1>t, <1>a, <1>7 DEF PlacesInv
    <2>4. ASSUME NEW x \in Clients
          PROVE  mine[x] \notin pool' /\ \A t \in Slots : ~Linked(mine[x], t)'
      BY <1>t, <1>a, <1>1, <1>4, <1>7 DEF PlacesInv
    <2> QED BY <1>t, <1>a, <2>1, <2>2, <2>3, <2>4 DEF PlacesInv
  <1>17. IndexInv'
    <2>1. ASSUME NEW t \in Slots, NEW x \in Objs, Linked(x, t)'
          PROVE  LET i == obj'[x].id
                 IN /\ i \in IDs /\ index'[i] = x /\ obj'[x].val = i
                    /\ left'[i] + slack'[i] = obj'[x].rounds * NSlots + Distance(t)'
      <3>1. Linked(x, t) /\ x \notin due
        BY <1>7, <2>1
      <3>2. /\ obj[x].id \in IDs /\ index[obj[x].id] = x /\ obj[x].val = obj[x].id
            /\ left[obj[x].id] + slack[obj[x].id] = obj[x].rounds * NSlots + Distance(t)
        BY <1>t, <3>1 DEF IndexInv
      <3>3. index'[obj[x].id] = x /\ left'[obj[x].id] = left[obj[x].id] - 1
        BY <1>10, <1>n, <3>1, <3>2
      <3>4. CASE t = s
        <4>1. obj'[x].rounds = obj[x].rounds - 1 /\ obj[x].rounds \in Nat \ {0}
          BY <1>9, <3>1, <3>4
        <4>2. left'[obj[x].id] + slack'[obj[x].id] = obj[x].rounds * NSlots
          <5>1. left[obj[x].id] + slack[obj[x].id] = obj[x].rounds * NSlots + 1
            BY <1>2, <3>2, <3>4
          <5>2. obj[x].rounds * NSlots \in Int
            BY <1>n, <4>1
          <5> QED BY <1>k, <3>2, <3>3, <5>1, <5>2
        <4>3. obj[x].rounds * NSlots = (obj[x].rounds - 1) * NSlots + NSlots
          BY <1>n, <4>1, Z3
        <4> QED BY <1>2, <1>9, <3>1, <3>2, <3>3, <3>4, <4>1, <4>2, <4>3
      <3>5. CASE t # s
        <4>1. ~Linked(x, s)
          BY <1>t, <1>1, <3>1, <3>5 DEF PlacesInv
        <4>2. obj'[x] = obj[x]
          BY <1>9, <4>1
        <4>3. left'[obj[x].id] + slack'[obj[x].id] = obj[x].rounds * NSlots + Distance(t)'
          <5>1. Distance(t)' = Distance(t) - 1
            BY <1>2, <3>5
          <5>2. obj[x].rounds * NSlots \in Int /\ Distance(t) \in Int
            BY <1>t, <1>n DEF WheelTypeOK, Distance, Slots
          <5>3. PICK a, e, f, g \in Int :
                  /\ a = left[obj[x].id] /\ e = slack[obj[x].id]
                  /\ f = obj[x].rounds * NSlots /\ g = Distance(t)
            BY <1>k, <3>2, <5>2
          <5>4. a + e = f + g /\ (a - 1) + e = f + (g - 1)
            BY <3>2, <5>3
          <5>5. left'[obj[x].id] = a - 1 /\ slack'[obj[x].id] = e /\ Distance(t)' = g - 1
            BY <1>k, <3>3, <5>1, <5>3
          <5> QED BY <5>3, <5>4, <5>5
        <4> QED BY <3>2, <3>3, <4>2, <4>3
      <3> QED BY <3>4, <3>5
    <2>2. ASSUME NEW i \in IDs, index'[i] # NoObj
          PROVE  /\ \E t \in Slots : Linked(index[i], t)'
                 /\ obj'[index'[i]].id = i /\ i <= nextID' /\ outcome'[i] = "none"
      <3>1. index'[i] = index[i] /\ index[i] \notin due
        BY <1>10, <2>2
      <3>2. /\ index[i] \in Objs /\ \E t \in Slots : Linked(index[i], t)
            /\ obj[index[i]].id = i /\ i <= nextID /\ outcome[i] = "none"
        BY <1>t, <2>2, <3>1 DEF IndexInv, WheelTypeOK
      <3> QED BY <1>7, <1>9, <1>a, <3>1, <3>2
    <2>3. \A i \in IDs : index'[i] # NoObj => index'[i] = index[i]
      BY <1>10
    <2> QED BY <2>1, <2>2, <2>3 DEF IndexInv
  <1>18. AddInv'
    <2>1. ASSUME NEW x \in Clients, stage[x] = "add"
          PROVE  /\ obj'[mine[x]] = obj[mine[x]] /\ obj[mine[x]].id \in IDs
                 /\ obj[mine[x]].id \in 1..nextID
                 /\ index[obj[mine[x]].id] = NoObj
      <3>1. mine[x] \in Objs /\ ~Linked(mine[x], s)
        BY <1>t, <1>1, <2>1 DEF PlacesInv, WheelTypeOK
      <3>2. obj[mine[x]].id \in 1..nextID /\ index[obj[mine[x]].id] = NoObj
        BY <1>t, <2>1 DEF AddInv
      <3>3. 1..nextID \subseteq IDs
        BY <1>t, <1>n DEF IDs, WheelTypeOK
      <3> QED BY <1>9, <3>1, <3>2, <3>3
    <2>2. ASSUME NEW x \in Clients, stage[x] = "add"
          PROVE  LET i == obj'[mine[x]].id
                 IN /\ ticks[x] >= 1 /\ i \in 1..nextID /\ obj'[mine[x]].val = i
                    /\ index'[i] = NoObj /\ outcome[i] = "none"
                    /\ \A k \in 1 .. Len(expired') : expired'[k] # i
      <3>1. LET i == obj[mine[x]].id
            IN /\ ticks[x] >= 1 /\ i \in 1..nextID /\ obj[mine[x]].val = i
               /\ outcome[i] = "none"
        BY <1>t, <2>2 DEF AddInv
      <3>2. index'[obj[mine[x]].id] = NoObj
        BY <1>10, <2>1, <2>2
      <3>3. \A k \in 1 .. Len(expired') : expired'[k] # obj[mine[x]].id
        BY <1>13, <1>14, <2>1, <2>2
      <3> QED BY <2>1, <2>2, <3>1, <3>2, <3>3
    <2>3. ASSUME NEW x \in Clients, NEW y \in Clients, stage[x] = "add", stage[y] = "add", x # y
          PROVE  obj'[mine[x]].id # obj'[mine[y]].id
      <3>1. obj[mine[x]].id # obj[mine[y]].id
        BY <1>t, <2>3 DEF AddInv
      <3> QED BY <2>1, <2>3, <3>1
    <2>4. /\ stage' = stage /\ mine' = mine /\ ticks' = ticks /\ nextID' = nextID
          /\ outcome' = outcome
      BY <1>a
    <2>5. /\ \A x \in Clients : stage'[x] = "add" =>
               LET i == obj'[mine'[x]].id
               IN /\ ticks'[x] >= 1 /\ i \in 1..nextID' /\ obj'[mine'[x]].val = i
                  /\ index'[i] = NoObj /\ outcome'[i] = "none"
                  /\ \A k \in 1 .. Len(expired') : expired'[k] # i
          /\ \A x, y \in Clients : stage'[x] = "add" /\ stage'[y] = "add" /\ x # y
                                     => obj'[mine'[x]].id # obj'[mine'[y]].id
      BY <2>2, <2>3, <2>4
    <2> QED BY <2>5 DEF AddInv
  <1>19. OutcomeInv'
    <2>1. \A i \in IDs : i > nextID => index'[i] = NoObj /\ outcome[i] = "none"
      BY <1>t, <1>10 DEF OutcomeInv
    <2>2. ASSUME NEW k \in 1..Len(expired')
          PROVE  /\ expired'[k] <= nextID /\ outcome[expired'[k]] = "none"
                 /\ index'[expired'[k]] = NoObj /\ left'[expired'[k]] + slack[expired'[k]] = 0
      <3>1. /\ expired'[k] \in IDs /\ index[expired'[k]] \in due
            /\ index[expired'[k]] # NoObj /\ left[expired'[k]] + slack[expired'[k]] = 1
        BY <1>13, <1>14
      <3>2. expired'[k] <= nextID /\ outcome[expired'[k]] = "none"
        BY <1>t, <3>1 DEF IndexInv
      <3>3. left'[expired'[k]] = left[expired'[k]] - 1 /\ index'[expired'[k]] = NoObj
        BY <1>10, <3>1
      <3> QED BY <1>k, <3>1, <3>2, <3>3
    <2>3. ASSUME NEW j \in 1..Len(expired'), NEW k \in 1..Len(expired'),
                 expired'[j] = expired'[k]
          PROVE  j = k
      <3>1. fire[j] = fire[k]
        BY <1>13, <1>14, <2>3
      <3> QED BY <1>11, <1>13, <3>1
    <2>4. ASSUME NEW i \in IDs
          PROVE  outcome[i] # "again" /\ (outcome[i] = "fired" => left'[i] + slack[i] = 0)
      <3>1. index[i] # NoObj => outcome[i] = "none"
        BY <1>t DEF IndexInv
      <3> QED BY <1>t, <1>10, <3>1 DEF OutcomeInv
    <2> QED BY <1>a, <1>k, <2>1, <2>2, <2>3, <2>4 DEF OutcomeInv
  <1> QED BY <1>15, <1>16, <1>17, <1>18, <1>19 DEF WheelInv

LEMMA WheelStutter ==
    ASSUME WheelInv, UNCHANGED wheelVars
    PROVE  WheelInv'
  <1>1. WheelTypeOK' <=> WheelTypeOK
    BY DEF wheelVars, WheelTypeOK
  <1>2. PlacesInv' <=> PlacesInv
    BY DEF wheelVars, PlacesInv, Linked
  <1>3. IndexInv' <=> IndexInv
    BY DEF wheelVars, IndexInv, Linked, Distance
  <1>4. AddInv' <=> AddInv
    BY DEF wheelVars, AddInv
  <1>5. OutcomeInv' <=> OutcomeInv
    BY DEF wheelVars, OutcomeInv
  <1> QED BY <1>1, <1>2, <1>3, <1>4, <1>5 DEF WheelInv

\* In every reachable state each entry object is in one place, the index names
\* exactly the linked ones, and slot and rounds of each agree with the ticks
\* its entry has left (Add, Cancel and Advance of wheel.go).
THEOREM WheelInductive == WheelSpec => []WheelInv
  <1>1. WheelInv /\ [WheelNext]_wheelVars => WheelInv'
    <2> SUFFICES ASSUME WheelInv, [WheelNext]_wheelVars PROVE WheelInv'
      OBVIOUS
    <2>1. ASSUME NEW c \in Clients, NEW d \in 0..MaxTicks, AddBegin(c, d)
          PROVE  WheelInv'
      BY <2>1, AddBeginStep
    <2>2. ASSUME NEW c \in Clients, AddInsert(c)
          PROVE  WheelInv'
      BY <2>2, AddInsertStep
    <2>3. ASSUME NEW c \in Clients, NEW id \in IDs, Cancel(c, id)
          PROVE  WheelInv'
      BY <2>3, CancelStep
    <2>4. ASSUME NEW c \in Clients, CancelClear(c)
          PROVE  WheelInv'
      BY <2>4, CancelClearStep
    <2>5. CASE Advance
      BY <2>5, AdvanceStep
    <2>6. CASE Fire
      BY <2>6, FireStep
    <2>7. CASE UNCHANGED wheelVars
      BY <2>7, WheelStutter
    <2> QED BY <2>1, <2>2, <2>3, <2>4, <2>5, <2>6, <2>7 DEF WheelNext
  <1> QED BY <1>1, InitWheelInv, PTL DEF WheelSpec

\* fn gets each entry's own value, at most once and never after a Cancel that
\* returned true, although entry objects are cleared and reused meanwhile.
THEOREM WheelFiresOwnValueOnce == WheelSpec => []FiresOwnValueOnce
  <1>1. WheelInv => FiresOwnValueOnce
    <2> SUFFICES ASSUME WheelInv PROVE FiresOwnValueOnce
      OBVIOUS
    <2>1. \A i \in IDs : outcome[i] # "again"
      BY DEF WheelInv, OutcomeInv
    <2>2. \A k \in DOMAIN expired : expired[k] \in IDs /\ outcome[expired[k]] = "none"
      <3>1. expired \in Seq(IDs)
        BY DEF WheelInv, WheelTypeOK
      <3> QED BY <3>1, ElementOfSeq, LenProperties DEF WheelInv, OutcomeInv
    <2>3. ASSUME NEW i \in IDs, index[i] # NoObj
          PROVE  obj[index[i]].id = i /\ obj[index[i]].val = i
      <3>1. PICK s \in Slots : Linked(index[i], s)
        BY <2>3 DEF WheelInv, IndexInv
      <3>2. index[i] \in Objs /\ obj[index[i]].id = i
        BY <2>3 DEF WheelInv, IndexInv, WheelTypeOK
      <3> QED BY <3>1, <3>2 DEF WheelInv, IndexInv
    <2> QED BY <2>1, <2>2, <2>3 DEF FiresOwnValueOnce
  <1> QED BY <1>1, WheelInductive, PTL

\* An entry whose delay is no whole number of laps leaves the wheel at the very
\* tick its delay says, and any other is not early and at most a lap late,
\* whatever Add and Cancel do between two ticks of Run.
THEOREM WheelFiresWhenDue == WheelSpec => []FiresWhenDue
  <1>1. WheelInv => FiresWhenDue
    <2> SUFFICES ASSUME WheelInv, NEW i \in IDs
                 PROVE  /\ index[i] # NoObj => left[i] + slack[i] > 0
                        /\ (\E k \in DOMAIN expired : expired[k] = i) => left[i] \in -slack[i] .. 0
                        /\ outcome[i] = "fired" => left[i] \in -slack[i] .. 0
      BY DEF FiresWhenDue
    <2>1. ASSUME index[i] # NoObj
          PROVE  left[i] + slack[i] > 0
      <3>1. PICK s \in Slots : Linked(index[i], s)
        BY <2>1 DEF WheelInv, IndexInv
      <3>2. PICK o \in Objs : o = index[i] /\ obj[o].id = i
        BY <2>1 DEF WheelInv, IndexInv, WheelTypeOK
      <3>3. left[i] + slack[i] = obj[o].rounds * NSlots + Distance(s)
        BY <3>1, <3>2 DEF WheelInv, IndexInv
      <3>4. obj[o].rounds \in Nat /\ NSlots \in Nat \ {0}
        BY WheelAssumption DEF WheelInv, WheelTypeOK
      <3>5. obj[o].rounds * NSlots \in Nat
        BY <3>4
      <3>6. Distance(s) \in Nat \ {0}
        BY <3>4 DEF WheelInv, WheelTypeOK, Distance, Slots
      <3> QED BY <3>3, <3>5, <3>6
    <2>2. ASSUME left[i] + slack[i] = 0
          PROVE  left[i] \in -slack[i] .. 0
      <3>1. left[i] \in Int /\ slack[i] \in {0, NSlots}
        BY DEF WheelInv, WheelTypeOK
      <3>2. slack[i] \in Nat
        BY <3>1, WheelAssumption
      <3> QED BY <2>2, <3>1, <3>2
    <2>3. \A k \in DOMAIN expired : left[expired[k]] + slack[expired[k]] = 0
      <3>1. expired \in Seq(IDs)
        BY DEF WheelInv, WheelTypeOK
      <3> QED BY <3>1, LenProperties DEF WheelInv, OutcomeInv
    <2>4. outcome[i] = "fired" => left[i] + slack[i] = 0
      BY DEF WheelInv, OutcomeInv
    <2> QED BY <2>1, <2>2, <2>3, <2>4
  <1> QED BY <1>1, WheelInductive, PTL

(***************************************************************************)
(* The byte buffer, for every set of capacities that its assumption        *)
(* allows: the readable cells hold the bytes written and not yet read, in  *)
(* order, through wrapping and growing, and each view shows those cells.   *)
(***************************************************************************)

\* A set of natural numbers has a least one.
LEMMA LeastExists ==
    ASSUME NEW S \in SUBSET Nat, S # {}
    PROVE  Min(S) \in S /\ \A y \in S : Min(S) <= y
  <1>1. \E x \in S : \A y \in S : ~(<<y, x>> \in OpToRel(<, Nat))
    BY NatLessThanWellFounded, WFMin
  <1>2. PICK x \in S : \A y \in S : ~(<<y, x>> \in OpToRel(<, Nat))
    BY <1>1
  <1>3. \A y \in S : y < x => <<y, x>> \in OpToRel(<, Nat)
    BY DEF OpToRel
  <1>4. \A y \in S : ~(y < x)
    BY <1>2, <1>3
  <1>5. \A y \in S : y \in Nat /\ x \in Nat
    OBVIOUS
  <1>6. \A y \in S : x <= y
    BY <1>4, <1>5
  <1> QED BY <1>6 DEF Min

-----------------------------------------------------------------------------
(* Offsets, which wrap at the word, and cells, which wrap at the capacity.  *)

LEMMA CapacityFacts ==
    /\ WordMod \in Nat \ {0} /\ 0 \in Word
    /\ \A N \in Capacities : N \in Nat \ {0} /\ N < WordMod /\ WordMod % N = 0
  BY CapacityAssumption DEF Word

\* The value of an offset that is less than a word off.
LEMMA WrapCases ==
    ASSUME NEW x \in Int
    PROVE  /\ x \in 0..WordMod-1 => Wrap(x) = x
           /\ x \in WordMod..2*WordMod-1 => Wrap(x) = x - WordMod
           /\ x \in -WordMod..-1 => Wrap(x) = x + WordMod
  <1>n. WordMod \in Nat \ {0}
    BY CapacityFacts
  <1>1. ASSUME NEW q \in Int, NEW r \in 0..WordMod-1, x = WordMod * q + r
        PROVE  Wrap(x) = r
    BY <1>n, <1>1, ModUnique DEF Wrap
  <1>2. CASE x \in 0..WordMod-1
    <2>1. x = WordMod * 0 + x
      BY <1>n
    <2>2. 0 \in Int
      OBVIOUS
    <2> QED BY <1>n, <1>1, <1>2, <2>1, <2>2
  <1>3. CASE x \in WordMod..2*WordMod-1
    <2>1. x = WordMod * 1 + (x - WordMod) /\ x - WordMod \in 0..WordMod-1
      BY <1>n, <1>3
    <2>2. 1 \in Int
      OBVIOUS
    <2> QED BY <1>n, <1>1, <1>3, <2>1, <2>2
  <1>4. CASE x \in -WordMod..-1
    <2>1. x = WordMod * (-1) + (x + WordMod) /\ x + WordMod \in 0..WordMod-1
      BY <1>n, <1>4
    <2>2. -1 \in Int
      OBVIOUS
    <2> QED BY <1>n, <1>1, <1>4, <2>1, <2>2
  <1> QED BY <1>n, <1>2, <1>3, <1>4

LEMMA WrapUnique ==
    ASSUME NEW v \in 0..WordMod-1, NEW x \in Int,
           x = v \/ x = v + WordMod \/ x = v - WordMod
    PROVE  Wrap(x) = v
  <1>n. WordMod \in Nat \ {0}
    BY CapacityFacts
  <1>1. /\ x = v => x \in 0..WordMod-1
        /\ x = v + WordMod => x \in WordMod..2*WordMod-1 /\ v = x - WordMod
        /\ x = v - WordMod => x \in -WordMod..-1 /\ v = x + WordMod
    BY <1>n
  <1> QED BY <1>1, WrapCases

\* An offset that moves on moves its cell as far, around the end of buf, also
\* when the offset wraps: the capacity divides the word.
LEMMA CellOfSum ==
    ASSUME NEW N \in Capacities, NEW x \in Word, NEW k \in 0..N
    PROVE  /\ x % N \in 0..N-1
           /\ Wrap(x + k) \in Word
           /\ Wrap(x + k) % N = IF (x % N) + k < N THEN (x % N) + k ELSE (x % N) + k - N
  <1>n. N \in Nat \ {0} /\ WordMod \in Nat \ {0} /\ N < WordMod /\ x \in 0..WordMod-1
        /\ WordMod % N = 0
    BY CapacityFacts DEF Word
  <1>m. PICK m \in Int : WordMod = N * m
    <2>1. WordMod = N * (WordMod \div N) + (WordMod % N) /\ WordMod \div N \in Int
      BY <1>n, Z3
    <2>2. WordMod = N * (WordMod \div N)
      BY <1>n, <2>1
    <2> QED BY <2>1, <2>2
  <1>q. PICK q \in Int, a \in 0..N-1 : x = N * q + a /\ a = x % N
    <2>1. x = N * (x \div N) + (x % N) /\ x \div N \in Int /\ x % N \in 0..N-1
      BY <1>n, Z3
    <2> QED BY <2>1
  <1>y. PICK y : y = Wrap(x + k)
    OBVIOUS
  <1>1. y \in 0..WordMod-1 /\ (y = x + k \/ y = x + k - WordMod)
    <2>1. x + k \in 0..WordMod-1 \/ x + k \in WordMod..2*WordMod-1
      BY <1>n
    <2>2. x + k \in Int
      BY <1>n
    <2> QED BY <1>n, <1>y, <2>1, <2>2, WrapCases
  <1>2. PICK t \in Int : y = N * t + a + k
    <2>1. CASE y = x + k
      BY <1>n, <1>q, <2>1
    <2>2. CASE y = x + k - WordMod
      <3>1. N * (q - m) = N * q - N * m
        BY <1>n, Z3
      <3>p. PICK nq \in Int, p \in Int : nq = N * q /\ p = N * (q - m)
        BY <1>n
      <3>2. p = nq - WordMod /\ y = nq + a + k - WordMod
        BY <1>m, <1>q, <2>2, <3>1, <3>p
      <3>3. y = p + a + k
        BY <1>n, <3>2
      <3> QED BY <3>3, <3>p
    <2> QED BY <1>1, <2>1, <2>2
  <1>3. CASE a + k < N
    <2>r. PICK r \in 0..N-1, u \in Int : r = a + k /\ u = t
      BY <1>n, <1>3
    <2>1. y = N * u + r
      <3>1. N * t \in Int
        BY <1>n
      <3> QED BY <1>n, <1>2, <2>r, <3>1
    <2>2. y \in Int /\ u \in Int /\ r \in 0..N-1 /\ N \in Nat \ {0}
      BY <1>1, <1>n
    <2>3. y % N = r
      BY <2>1, <2>2, ModUnique, Zenon
    <2> QED BY <1>1, <1>3, <1>q, <1>y, <2>3, <2>r DEF Word
  <1>4. CASE ~(a + k < N)
    <2>r. PICK r \in 0..N-1, u \in Int : r = a + k - N /\ u = t + 1
      BY <1>n, <1>4
    <2>1. y = N * u + r
      <3>1. N * t \in Int /\ N * (t + 1) = N * t + N
        BY <1>n, Z3
      <3> QED BY <1>n, <1>2, <2>r, <3>1
    <2>2. y \in Int /\ u \in Int /\ r \in 0..N-1 /\ N \in Nat \ {0}
      BY <1>1, <1>n
    <2>3. y % N = r
      BY <2>1, <2>2, ModUnique, Zenon
    <2> QED BY <1>1, <1>4, <1>q, <1>y, <2>3, <2>r DEF Word
  <1> QED BY <1>3, <1>4, <1>q

\* The cells of a buffer's two offsets, and of the bytes from r on.
LEMMA Offsets ==
    ASSUME NEW s \in Buffers, Cap(s) \in Capacities \cup {0}, Length(s) <= Cap(s)
    PROVE  /\ Cap(s) \in Nat /\ Cap(s) < WordMod /\ s.r \in Word /\ s.w \in Word
           /\ Length(s) \in Nat /\ (Length(s) = 0 <=> s.r = s.w)
           /\ s.w = s.r + Length(s) \/ s.w = s.r + Length(s) - WordMod
           /\ Cap(s) # 0 => /\ Cell(s, s.r) \in 1..Cap(s)
                            /\ Cell(s, s.w) = IF Cell(s, s.r) + Length(s) <= Cap(s)
                                              THEN Cell(s, s.r) + Length(s)
                                              ELSE Cell(s, s.r) + Length(s) - Cap(s)
           /\ Cap(s) = 0 => Cell(s, s.r) = 1 /\ Cell(s, s.w) = 1
           /\ \A i \in 1..Cap(s) : Place(s, i) \in 1..Cap(s)
           /\ \A i, j \in 1..Cap(s) : Place(s, i) = Place(s, j) => i = j
  <1>n. PICK N : N = Cap(s)
    OBVIOUS
  <1>l. PICK n : n = Length(s)
    OBVIOUS
  <1>1. /\ N \in Nat /\ N < WordMod /\ WordMod \in Nat \ {0}
        /\ s.buf \in Seq(Bytes \cup {0})
        /\ s.r \in 0..WordMod-1 /\ s.w \in 0..WordMod-1
    BY <1>n, CapacityFacts DEF Buffers, Word
  <1>2. /\ n \in Nat /\ (n = 0 <=> s.r = s.w)
        /\ s.w = s.r + n \/ s.w = s.r + n - WordMod
    <2>x. PICK x \in Int : x = s.w - s.r
      BY <1>1
    <2>1. /\ (x \in 0..WordMod-1 /\ s.w >= s.r) \/ (x \in -WordMod..-1 /\ s.w < s.r)
          /\ n = Wrap(x)
      BY <1>1, <1>l, <2>x DEF Length
    <2>2. (n = x /\ s.w >= s.r) \/ (n = x + WordMod /\ s.w < s.r)
      BY <2>1, WrapCases
    <2>3. (n = s.w - s.r /\ s.w >= s.r) \/ (n = s.w - s.r + WordMod /\ s.w < s.r)
      BY <2>2, <2>x
    <2> QED BY <1>1, <2>3
  <1>3. s.w = Wrap(s.r + n)
    <2>1. s.r + n \in 0..WordMod-1 \/ s.r + n \in WordMod..2*WordMod-1
      BY <1>1, <1>2, <1>l, <1>n
    <2>2. s.r + n \in Int
      BY <1>1, <1>2
    <2> QED BY <1>1, <1>2, <2>1, <2>2, WrapCases
  <1>4. N # 0 => /\ Cell(s, s.r) \in 1..N
                 /\ Cell(s, s.w) = IF Cell(s, s.r) + n <= N
                                   THEN Cell(s, s.r) + n ELSE Cell(s, s.r) + n - N
    <2> SUFFICES ASSUME N # 0
                 PROVE  /\ Cell(s, s.r) \in 1..N
                        /\ Cell(s, s.w) = IF Cell(s, s.r) + n <= N
                                          THEN Cell(s, s.r) + n ELSE Cell(s, s.r) + n - N
      OBVIOUS
    <2>1. N \in Capacities /\ n \in 0..N /\ s.r \in Word
      BY <1>1, <1>2, <1>l, <1>n DEF Word
    <2>2. /\ s.r % N \in 0..N-1
          /\ s.w % N = IF (s.r % N) + n < N THEN (s.r % N) + n ELSE (s.r % N) + n - N
      BY <1>3, <2>1, CellOfSum
    <2>3. s.buf # <<>>
      BY <1>n DEF Cap
    <2>4. Cell(s, s.r) = (s.r % N) + 1 /\ Cell(s, s.w) = (s.w % N) + 1
      BY <1>n, <2>3 DEF Cell
    <2>a. PICK a \in 0..N-1, e \in Int : a = s.r % N /\ e = s.w % N
      BY <1>1, <1>2, <2>2
    <2>5. e = IF a + n < N THEN a + n ELSE a + n - N
      BY <2>2, <2>a
    <2>6. Cell(s, s.r) = a + 1 /\ Cell(s, s.w) = e + 1
      BY <2>4, <2>a
    <2> QED BY <1>1, <1>2, <2>5, <2>6
  <1>5. N = 0 => Cell(s, s.r) = 1 /\ Cell(s, s.w) = 1
    BY <1>1, <1>n, EmptySeq DEF Cell, Cap
  <1>6. ASSUME NEW i \in 1..N
        PROVE  Place(s, i) \in 1..N
    BY <1>1, <1>4, <1>n DEF Place
  <1>7. ASSUME NEW i \in 1..N, NEW j \in 1..N, Place(s, i) = Place(s, j)
        PROVE  i = j
    BY <1>1, <1>4, <1>7, <1>n DEF Place
  <1> QED BY <1>1, <1>2, <1>4, <1>5, <1>6, <1>7, <1>l, <1>n DEF Word

-----------------------------------------------------------------------------
(* Runs of cells and what they hold.                                       *)

LEMMA CellsProperties ==
    ASSUME NEW c \in Int, NEW n \in Nat, NEW T, \A i \in 1..n : c + i - 1 \in T
    PROVE  /\ Cells(c, n) \in Seq(T) /\ Len(Cells(c, n)) = n
           /\ \A i \in 1..n : Cells(c, n)[i] = c + i - 1
  <1>1. Cells(c, n) \in [1..n -> T] /\ \A i \in 1..n : Cells(c, n)[i] = c + i - 1
    BY DEF Cells
  <1> QED BY <1>1, IsASeq, LenProperties

LEMMA AtProperties ==
    ASSUME NEW s \in Buffers, NEW cells \in Seq(1..Cap(s))
    PROVE  /\ At(s, cells) \in Seq(Bytes \cup {0}) /\ Len(At(s, cells)) = Len(cells)
           /\ \A i \in 1..Len(cells) : At(s, cells)[i] = s.buf[cells[i]]
  <1>1. Len(cells) \in Nat /\ s.buf \in Seq(Bytes \cup {0})
    BY DEF Buffers
  <1>2. ASSUME NEW i \in 1..Len(cells)
        PROVE  s.buf[cells[i]] \in Bytes \cup {0}
    <2>1. cells[i] \in 1..Len(s.buf)
      BY ElementOfSeq DEF Cap
    <2> QED BY <1>1, <2>1, ElementOfSeq
  <1>3. /\ At(s, cells) \in [1..Len(cells) -> Bytes \cup {0}]
        /\ \A i \in 1..Len(cells) : At(s, cells)[i] = s.buf[cells[i]]
    BY <1>2 DEF At
  <1> QED BY <1>1, <1>3, IsASeq, LenProperties

\* The bytes of a run that goes around the end of buf.
LEMMA SegmentsProperties ==
    ASSUME NEW s \in Buffers, Cap(s) \in Capacities, NEW c \in 1..Cap(s),
           NEW k \in 0..Cap(s)-c+1, NEW m \in 0..Cap(s), m = 0 \/ k = Cap(s) - c + 1
    PROVE  LET both == At(s, Cells(c, k)) \o At(s, Cells(1, m))
           IN /\ both \in Seq(Bytes \cup {0}) /\ Len(both) = k + m
              /\ \A i \in 1..k+m :
                   both[i] = s.buf[IF c + i - 1 <= Cap(s) THEN c + i - 1
                                   ELSE c + i - 1 - Cap(s)]
  <1>n. PICK N \in Nat : N = Cap(s)
    BY CapacityFacts
  <1>1. c \in 1..N /\ k \in 0..N-c+1 /\ m \in 0..N /\ (m = 0 \/ k = N - c + 1)
    BY <1>n
  <1>a. PICK ca : ca = Cells(c, k)
    OBVIOUS
  <1>b. PICK cb : cb = Cells(1, m)
    OBVIOUS
  <1>2. /\ ca \in Seq(1..N) /\ Len(ca) = k /\ \A i \in 1..k : ca[i] = c + i - 1
    <2>1. c \in Int /\ k \in Nat /\ \A i \in 1..k : c + i - 1 \in 1..N
      BY <1>1
    <2> QED BY <1>a, <2>1, CellsProperties
  <1>3. /\ cb \in Seq(1..N) /\ Len(cb) = m /\ \A i \in 1..m : cb[i] = 1 + i - 1
    <2>1. 1 \in Int /\ m \in Nat /\ \A i \in 1..m : 1 + i - 1 \in 1..N
      BY <1>1
    <2> QED BY <1>b, <2>1, CellsProperties
  <1>x. PICK x : x = At(s, ca)
    OBVIOUS
  <1>y. PICK y : y = At(s, cb)
    OBVIOUS
  <1>4. x \in Seq(Bytes \cup {0}) /\ Len(x) = k /\ \A i \in 1..k : x[i] = s.buf[c + i - 1]
    <2>1. /\ At(s, ca) \in Seq(Bytes \cup {0}) /\ Len(At(s, ca)) = Len(ca)
          /\ \A i \in 1..Len(ca) : At(s, ca)[i] = s.buf[ca[i]]
      BY <1>2, <1>n, AtProperties
    <2> QED BY <1>2, <1>x, <2>1
  <1>5. y \in Seq(Bytes \cup {0}) /\ Len(y) = m /\ \A i \in 1..m : y[i] = s.buf[i]
    <2>1. /\ At(s, cb) \in Seq(Bytes \cup {0}) /\ Len(At(s, cb)) = Len(cb)
          /\ \A i \in 1..Len(cb) : At(s, cb)[i] = s.buf[cb[i]]
      BY <1>3, <1>n, AtProperties
    <2>2. \A i \in 1..m : cb[i] = i
      BY <1>1, <1>3
    <2> QED BY <1>3, <1>y, <2>1, <2>2
  <1>6. /\ x \o y \in Seq(Bytes \cup {0}) /\ Len(x \o y) = k + m
        /\ \A i \in 1..k+m : (x \o y)[i] = IF i <= k THEN x[i] ELSE y[i - k]
    BY <1>4, <1>5, ConcatProperties
  <1>7. ASSUME NEW i \in 1..k+m
        PROVE  (x \o y)[i] = s.buf[IF c + i - 1 <= N THEN c + i - 1 ELSE c + i - 1 - N]
    <2>1. CASE i <= k
      <3>1. i \in 1..k /\ c + i - 1 <= N
        BY <1>1, <2>1
      <3> QED BY <1>4, <1>6, <2>1, <3>1
    <2>2. CASE ~(i <= k)
      <3>1. i - k \in 1..m /\ c + i - 1 - N = i - k /\ ~(c + i - 1 <= N)
        BY <1>1, <2>2
      <3> QED BY <1>5, <1>6, <2>2, <3>1
    <2> QED BY <2>1, <2>2
  <1> QED BY <1>6, <1>7, <1>a, <1>b, <1>n, <1>x, <1>y

LEMMA CopyOutProperties ==
    ASSUME NEW s \in Buffers, Cap(s) \in Capacities \cup {0}, Length(s) <= Cap(s),
           NEW n \in 0..Length(s)
    PROVE  /\ CopyOut(s, n) \in Seq(Bytes \cup {0}) /\ Len(CopyOut(s, n)) = n
           /\ \A i \in 1..n : CopyOut(s, n)[i] = s.buf[Place(s, i)]
  <1>n. PICK N : N = Cap(s)
    OBVIOUS
  <1>c. PICK c : c = Cell(s, s.r)
    OBVIOUS
  <1>1. N \in Nat /\ n \in 0..N /\ (N # 0 => c \in 1..N) /\ (N = 0 => c = 1)
    BY <1>c, <1>n, Offsets
  <1>k. PICK k : k = IF c - 1 + n <= N THEN n ELSE N - c + 1
    OBVIOUS
  <1>2. CopyOut(s, n) = At(s, Cells(c, k)) \o At(s, Cells(1, n - k))
    BY <1>c, <1>k, <1>n DEF CopyOut
  <1>3. CASE N = 0
    <2>1. k = 0 /\ n = 0
      BY <1>1, <1>k, <1>3
    <2>2. Cells(c, 0) = <<>> /\ Cells(1, 0) = <<>>
      <3>1. 0 \in Nat /\ c \in Int /\ 1 \in Int /\ 1..0 = {}
        BY <1>1, <1>3
      <3>2. /\ Cells(c, 0) \in Seq(Int) /\ Len(Cells(c, 0)) = 0
            /\ Cells(1, 0) \in Seq(Int) /\ Len(Cells(1, 0)) = 0
        BY <3>1, CellsProperties
      <3> QED BY <3>2, EmptySeq
    <2>3. At(s, <<>>) = <<>>
      BY AtProperties, EmptySeq
    <2>4. CopyOut(s, n) = <<>>
      BY <1>2, <2>1, <2>2, <2>3, ConcatEmptySeq, EmptySeq
    <2>5. <<>> \in Seq(Bytes \cup {0}) /\ Len(<<>>) = 0 /\ 1..0 = {}
      BY EmptySeq
    <2> QED BY <2>1, <2>4, <2>5
  <1>4. CASE N # 0
    <2>m. PICK m : m = n - k
      OBVIOUS
    <2>1. /\ c \in 1..N /\ k \in 0..N-c+1 /\ m \in 0..N /\ (m = 0 \/ k = N - c + 1)
          /\ k + m = n
      BY <1>1, <1>k, <1>4, <2>m
    <2>2. N \in Capacities
      BY <1>4, <1>n
    <2>3. LET both == At(s, Cells(c, k)) \o At(s, Cells(1, m))
          IN /\ both \in Seq(Bytes \cup {0}) /\ Len(both) = k + m
             /\ \A i \in 1..k+m :
                  both[i] = s.buf[IF c + i - 1 <= N THEN c + i - 1 ELSE c + i - 1 - N]
      <3>1. /\ c \in 1..Cap(s) /\ k \in 0..Cap(s)-c+1 /\ m \in 0..Cap(s)
            /\ m = 0 \/ k = Cap(s) - c + 1
            /\ Cap(s) \in Capacities
        BY <1>n, <2>1, <2>2
      <3>2. LET both == At(s, Cells(c, k)) \o At(s, Cells(1, m))
            IN /\ both \in Seq(Bytes \cup {0}) /\ Len(both) = k + m
               /\ \A i \in 1..k+m :
                    both[i] = s.buf[IF c + i - 1 <= Cap(s) THEN c + i - 1
                                    ELSE c + i - 1 - Cap(s)]
        BY <3>1, SegmentsProperties
      <3> QED BY <1>n, <3>2
    <2>4. \A i \in 1..n : Place(s, i) = IF c + i - 1 <= N THEN c + i - 1 ELSE c + i - 1 - N
      <3>1. \A i \in 1..n : Place(s, i) = IF c + i - 1 <= N THEN c + i - 1
                                           ELSE (c + i - 1) - N
        BY <1>c, <1>n DEF Place
      <3>2. N \in Int /\ c \in Int /\ \A i \in 1..n : i \in Int
        BY <1>1, <2>1
      <3> QED BY <3>1, <3>2
    <2> QED BY <1>2, <2>1, <2>3, <2>4, <2>m
  <1> QED BY <1>3, <1>4

\* What a view of the first n bytes must give.
LEMMA FrontOfData ==
    ASSUME NEW s \in Buffers, NEW d \in Seq(Bytes \cup {0}), Holds(s, d),
           NEW n \in 0..Len(d), NEW v \in Seq(Bytes \cup {0}), Len(v) = n,
           \A i \in 1..n : v[i] = s.buf[Place(s, i)]
    PROVE  v = SubSeq(d, 1, n)
  <1>1. /\ SubSeq(d, 1, n) \in Seq(Bytes \cup {0}) /\ Len(SubSeq(d, 1, n)) = n
        /\ \A i \in 1..n : SubSeq(d, 1, n)[i] = d[i]
    BY CutProperties
  <1>2. Len(d) \in Nat
    OBVIOUS
  <1>3. \A i \in 1..n : v[i] = d[i]
    BY <1>2 DEF Holds
  <1> QED BY <1>1, <1>3, SeqEqual

-----------------------------------------------------------------------------
(* What the operations do to the bytes held.                               *)

LEMMA TakeProperties ==
    ASSUME NEW T, NEW d \in Seq(T), NEW k \in 0..Len(d)
    PROVE  /\ Take(d, k) \in Seq(T) /\ Len(Take(d, k)) = Len(d) - k
           /\ \A i \in 1..Len(d)-k : Take(d, k)[i] = d[k+i]
  BY CutProperties DEF Take

\* Only buf and the two offsets matter.
LEMMA HoldsSame ==
    ASSUME NEW s, NEW t, NEW d, t.buf = s.buf, t.r = s.r, t.w = s.w
    PROVE  Holds(t, d) <=> Holds(s, d)
  <1>1. Cap(t) = Cap(s) /\ Length(t) = Length(s) /\ Cell(t, t.r) = Cell(s, s.r)
    BY DEF Cap, Length, Cell
  <1>2. \A i : Place(t, i) = Place(s, i)
    BY <1>1 DEF Place
  <1> QED BY <1>1, <1>2 DEF Holds

\* r moves on by k bytes.
LEMMA HoldsRead ==
    ASSUME NEW s \in Buffers, NEW t \in Buffers, Cap(s) \in Capacities \cup {0},
           NEW d \in Seq(Bytes \cup {0}), Holds(s, d), NEW k \in 0..Length(s),
           t.buf = s.buf, t.w = s.w, t.r = Wrap(s.r + k)
    PROVE  Holds(t, Take(d, k)) /\ Length(t) = Length(s) - k
  <1>n. PICK N : N = Cap(s)
    OBVIOUS
  <1>l. PICK n : n = Length(s)
    OBVIOUS
  <1>1. /\ N \in Nat /\ n \in 0..N /\ k \in 0..n /\ N < WordMod /\ WordMod \in Nat \ {0}
        /\ s.r \in 0..WordMod-1 /\ s.w \in 0..WordMod-1
        /\ s.w = s.r + n \/ s.w = s.r + n - WordMod
        /\ Len(d) = n
    BY <1>l, <1>n, Offsets, CapacityFacts DEF Holds, Word
  <1>2. t.r \in 0..WordMod-1 /\ (t.r = s.r + k \/ t.r = s.r + k - WordMod)
    <2>x. PICK x \in Int : x = s.r + k
      BY <1>1
    <2>1. x \in 0..WordMod-1 \/ x \in WordMod..2*WordMod-1
      BY <1>1, <2>x
    <2> QED BY <1>1, <2>1, <2>x, WrapCases
  <1>3. Length(t) = n - k
    <2>x. PICK x \in Int, v \in 0..WordMod-1 : x = t.w - t.r /\ v = n - k
      BY <1>1, <1>2
    <2>1. x = v \/ x = v + WordMod \/ x = v - WordMod
      BY <1>1, <1>2, <2>x
    <2>2. Wrap(x) = v
      BY <2>1, WrapUnique
    <2> QED BY <2>2, <2>x DEF Length
  <1>4. Cap(t) = N
    BY <1>n DEF Cap
  <1>5. ASSUME NEW i \in 1..n-k
        PROVE  Place(t, i) = Place(s, k + i)
    <2>1. N \in Capacities /\ s.r \in Word /\ k \in 0..N
      BY <1>1, <1>n DEF Word
    <2>2. /\ s.r % N \in 0..N-1
          /\ t.r % N = IF (s.r % N) + k < N THEN (s.r % N) + k ELSE (s.r % N) + k - N
      BY <2>1, CellOfSum
    <2>a. PICK a \in 0..N-1, e \in Int : a = s.r % N /\ e = t.r % N
      BY <1>1, <2>2
    <2>3. e = IF a + k < N THEN a + k ELSE a + k - N
      BY <2>2, <2>a
    <2>4. s.buf # <<>>
      BY <1>1, <1>n DEF Cap
    <2>5. Cell(s, s.r) = a + 1 /\ Cell(t, t.r) = e + 1
      BY <1>n, <1>4, <2>4, <2>a DEF Cell
    <2>6. /\ Place(s, k + i) = IF a + 1 + (k + i) - 1 <= N THEN a + 1 + (k + i) - 1
                               ELSE (a + 1 + (k + i) - 1) - N
          /\ Place(t, i) = IF e + 1 + i - 1 <= N THEN e + 1 + i - 1
                           ELSE (e + 1 + i - 1) - N
      BY <1>n, <1>4, <2>5 DEF Place
    <2> HIDE DEF Place
    <2> QED BY <1>1, <2>3, <2>6
  <1>6. /\ Len(Take(d, k)) = n - k
        /\ \A i \in 1..n-k : Take(d, k)[i] = d[k+i]
    BY <1>1, TakeProperties
  <1>7. ASSUME NEW i \in 1..n-k
        PROVE  t.buf[Place(t, i)] = Take(d, k)[i]
    <2>1. k + i \in 1..n
      BY <1>1
    <2>2. s.buf[Place(s, k + i)] = d[k + i]
      BY <1>1, <2>1 DEF Holds
    <2> QED BY <1>5, <1>6, <2>2
  <1>8. Length(t) <= Cap(t)
    BY <1>1, <1>3, <1>4
  <1> HIDE DEF Take
  <1> QED BY <1>3, <1>6, <1>7, <1>8, <1>l DEF Holds

\* Moving both offsets of an empty buffer back to 0 changes nothing.
LEMMA HoldsNormalised ==
    ASSUME NEW s \in Buffers, Cap(s) \in Capacities \cup {0}, NEW d, Holds(s, d)
    PROVE  Normalise(s) \in Buffers /\ Holds(Normalise(s), d)
           /\ Normalise(s).buf = s.buf
  <1>1. CASE s.r # s.w
    BY <1>1 DEF Normalise
  <1>2. CASE s.r = s.w
    <2>1. /\ Normalise(s) \in Buffers /\ Normalise(s).buf = s.buf
          /\ Normalise(s).r = 0 /\ Normalise(s).w = 0
      BY <1>2, CapacityFacts DEF Normalise, Buffers
    <2>2. Length(s) = 0 /\ Len(d) = 0 /\ Cap(s) \in Nat
      BY <1>2, Offsets DEF Holds
    <2>3. Length(Normalise(s)) = 0
      <3>1. 0 \in 0..WordMod-1 /\ 0 \in Int /\ 0 - 0 = 0
        BY CapacityFacts
      <3>2. Wrap(0) = 0
        BY <3>1, WrapCases
      <3> QED BY <2>1, <3>1, <3>2 DEF Length
    <2>4. Cap(Normalise(s)) = Cap(s)
      BY <2>1 DEF Cap
    <2> HIDE DEF Normalise
    <2> QED BY <2>1, <2>2, <2>3, <2>4 DEF Holds
  <1> QED BY <1>1, <1>2

\* Whatever cells are filled, with bytes, the result is a buffer.
LEMMA FilledIsBuffer ==
    ASSUME NEW s \in Buffers, NEW p \in Seq(Bytes), NEW cells
    PROVE  /\ Fill(s, cells, p) \in Buffers /\ Cap(Fill(s, cells, p)) = Cap(s)
           /\ Fill(s, cells, p).r = s.r /\ Fill(s, cells, p).w = Wrap(s.w + Len(p))
           /\ \A c \in 1..Cap(s) :
                Fill(s, cells, p).buf[c] =
                  IF \E i \in 1..Len(p) : cells[i] = c
                  THEN p[CHOOSE i \in 1..Len(p) : cells[i] = c] ELSE s.buf[c]
  <1>f. PICK f : f = [c \in 1..Cap(s) |->
                       IF \E i \in 1..Len(p) : cells[i] = c
                       THEN p[CHOOSE i \in 1..Len(p) : cells[i] = c] ELSE s.buf[c]]
    OBVIOUS
  <1>w. PICK w : w = Wrap(s.w + Len(p))
    OBVIOUS
  <1>1. Cap(s) \in Nat /\ s.buf \in Seq(Bytes \cup {0}) /\ Len(p) \in Nat
        /\ s.w \in 0..WordMod-1 /\ WordMod \in Nat \ {0}
    BY CapacityFacts DEF Buffers, Cap, Word
  <1>2. f \in [1..Cap(s) -> Bytes \cup {0}]
    <2>1. ASSUME NEW c \in 1..Cap(s), \E i \in 1..Len(p) : cells[i] = c
          PROVE  p[CHOOSE i \in 1..Len(p) : cells[i] = c] \in Bytes
      BY <2>1, ElementOfSeq
    <2>2. \A c \in 1..Cap(s) : s.buf[c] \in Bytes \cup {0}
      BY <1>1, ElementOfSeq DEF Cap
    <2> QED BY <1>f, <2>1, <2>2
  <1>3. f \in Seq(Bytes \cup {0}) /\ Len(f) = Cap(s)
    BY <1>1, <1>2, IsASeq, LenProperties
  <1>4. w \in Word
    <2>1. s.w + Len(p) \in Nat
      BY <1>1
    <2> QED BY <1>1, <1>w, <2>1, IndexInRange DEF Wrap, Word
  <1>5. Fill(s, cells, p) = [s EXCEPT !.buf = f, !.w = w]
    BY <1>f, <1>w DEF Fill
  <1>6. /\ [s EXCEPT !.buf = f, !.w = w] \in Buffers
        /\ [s EXCEPT !.buf = f, !.w = w].buf = f
        /\ [s EXCEPT !.buf = f, !.w = w].r = s.r
        /\ [s EXCEPT !.buf = f, !.w = w].w = w
    BY <1>3, <1>4 DEF Buffers
  <1> HIDE DEF Fill
  <1> QED BY <1>3, <1>5, <1>6, <1>f, <1>w DEF Cap

\* The bytes of p go where the bytes after those held belong.
LEMMA HoldsFilled ==
    ASSUME NEW s \in Buffers, Cap(s) \in Capacities \cup {0},
           NEW d \in Seq(Bytes \cup {0}), Holds(s, d),
           NEW p \in Seq(Bytes), Len(p) <= Free(s), NEW cells,
           \A i \in 1..Len(p) : cells[i] = Place(s, Length(s) + i)
    PROVE  Holds(Fill(s, cells, p), d \o p)
  <1>t. PICK t : t = Fill(s, cells, p)
    OBVIOUS
  <1>n. PICK N : N = Cap(s)
    OBVIOUS
  <1>l. PICK n : n = Length(s)
    OBVIOUS
  <1>m. PICK m : m = Len(p)
    OBVIOUS
  <1>1. /\ N \in Nat /\ n \in 0..N /\ N < WordMod /\ WordMod \in Nat \ {0}
        /\ s.r \in 0..WordMod-1 /\ s.w \in 0..WordMod-1
        /\ s.w = s.r + n \/ s.w = s.r + n - WordMod
        /\ Len(d) = n /\ m \in 0..N-n
    <2>1. Len(p) \in Nat
      OBVIOUS
    <2> QED BY <1>l, <1>m, <1>n, <2>1, Offsets, CapacityFacts DEF Holds, Word, Free
  <1>2. /\ t \in Buffers /\ Cap(t) = N /\ t.r = s.r /\ t.w = Wrap(s.w + m)
        /\ \A c \in 1..N : t.buf[c] = IF \E i \in 1..m : cells[i] = c
                                      THEN p[CHOOSE i \in 1..m : cells[i] = c] ELSE s.buf[c]
    BY <1>t, <1>n, <1>m, FilledIsBuffer
  <1>3. /\ \A i \in 1..N : Place(s, i) \in 1..N
        /\ \A i, j \in 1..N : Place(s, i) = Place(s, j) => i = j
    BY <1>n, Offsets DEF Holds
  <1>4. \A i : Place(t, i) = Place(s, i)
    <2>1. Cell(t, t.r) = Cell(s, s.r)
      <3>1. t.buf = <<>> <=> s.buf = <<>>
        BY <1>2, <1>n, EmptySeq DEF Buffers, Cap
      <3> QED BY <1>2, <1>n, <3>1 DEF Cell
    <2> QED BY <1>2, <1>n, <2>1 DEF Place
  <1>5. Length(t) = n + m
    <2>1. t.w \in 0..WordMod-1 /\ (t.w = s.w + m \/ t.w = s.w + m - WordMod)
      <3>x. PICK x \in Int : x = s.w + m
        BY <1>1
      <3>1. x \in 0..WordMod-1 \/ x \in WordMod..2*WordMod-1
        BY <1>1, <3>x
      <3> QED BY <1>1, <1>2, <3>1, <3>x, WrapCases
    <2>x. PICK x \in Int, v \in 0..WordMod-1 : x = t.w - t.r /\ v = n + m
      BY <1>1, <1>2, <2>1
    <2>a. PICK rr \in 0..WordMod-1, ww \in Int, tw \in 0..WordMod-1 :
              rr = s.r /\ ww = s.w /\ tw = t.w
      BY <1>1, <2>1
    <2>b. /\ ww = rr + n \/ ww = rr + n - WordMod
          /\ tw = ww + m \/ tw = ww + m - WordMod
          /\ x = tw - rr
      BY <1>1, <1>2, <2>1, <2>a, <2>x
    <2>2. x = v \/ x = v + WordMod \/ x = v - WordMod
      <3>1. v = n + m /\ v < WordMod /\ n \in Int /\ m \in Int /\ WordMod \in Int
        BY <1>1, <2>x
      <3>0. /\ rr \in Int /\ ww \in Int /\ tw \in Int /\ x = tw - rr
            /\ 0 <= tw /\ rr < WordMod
        BY <1>1, <2>b
      <3>5. ww = rr + n \/ ww = rr + n - WordMod
        BY <2>b
      <3>6. tw = ww + m \/ tw = ww + m - WordMod
        BY <2>b
      <3>2. x = v \/ x = v - WordMod \/ x = v - 2 * WordMod
        BY <3>0, <3>1, <3>5, <3>6
      <3>3. x > -WordMod
        BY <3>0, <3>1
      <3>4. x # v - 2 * WordMod
        BY <3>1, <3>3
      <3> QED BY <3>2, <3>4
    <2>3. Wrap(x) = v
      BY <2>2, WrapUnique
    <2> QED BY <2>3, <2>x DEF Length
  <1>6. /\ Len(d \o p) = n + m
        /\ \A i \in 1..n+m : (d \o p)[i] = IF i <= n THEN d[i] ELSE p[i - n]
    <2>1. p \in Seq(Bytes \cup {0})
      BY SeqMonotonic
    <2> QED BY <1>1, <1>m, <2>1, ConcatProperties
  <1>7. \A i \in 1..m : cells[i] = Place(s, n + i) /\ n + i \in 1..N
    BY <1>1, <1>l, <1>m
  <1>8. ASSUME NEW i \in 1..n+m
        PROVE  t.buf[Place(t, i)] = (d \o p)[i]
    <2>1. Place(t, i) = Place(s, i) /\ Place(s, i) \in 1..N /\ i \in 1..N
      BY <1>1, <1>3, <1>4
    <2>2. CASE i <= n
      <3>1. \A j \in 1..m : cells[j] # Place(s, i)
        <4>1. \A j \in 1..m : n + j # i
          BY <1>1, <2>2
        <4> QED BY <1>3, <1>7, <2>1, <4>1
      <3>2. t.buf[Place(s, i)] = s.buf[Place(s, i)]
        BY <1>2, <2>1, <3>1
      <3>3. i \in 1..n
        BY <1>1, <2>2
      <3> QED BY <1>1, <1>6, <2>1, <2>2, <3>2, <3>3 DEF Holds
    <2>3. CASE ~(i <= n)
      <3>j. PICK j \in 1..m : j = i - n
        BY <1>1, <2>3
      <3>1. n + j = i
        BY <1>1, <3>j
      <3>2. cells[j] = Place(s, i)
        BY <1>7, <3>1
      <3>3. \A k \in 1..m : cells[k] = Place(s, i) => k = j
        <4>1. \A k \in 1..m : n + k = i => k = j
          BY <1>1, <3>1
        <4> QED BY <1>3, <1>7, <2>1, <4>1
      <3>4. (CHOOSE k \in 1..m : cells[k] = Place(s, i)) = j
        BY <3>2, <3>3
      <3>5. t.buf[Place(s, i)] = p[j]
        BY <1>2, <2>1, <3>2, <3>4
      <3> QED BY <1>6, <2>1, <2>3, <3>5, <3>j
    <2> QED BY <2>2, <2>3
  <1>9. Length(t) <= Cap(t)
    BY <1>1, <1>2, <1>5
  <1> QED BY <1>5, <1>6, <1>8, <1>9, <1>t DEF Holds

\* A growth keeps the bytes and leaves room for need more.
LEMMA HoldsGrown ==
    ASSUME NEW s \in Buffers, Cap(s) \in Capacities \cup {0},
           NEW d \in Seq(Bytes \cup {0}), Holds(s, d),
           NEW need \in Nat, Fits(s, need)
    PROVE  /\ Grow(s, need) \in Buffers /\ Cap(Grow(s, need)) \in Capacities \cup {0}
           /\ Holds(Grow(s, need), d) /\ need <= Free(Grow(s, need))
  <1>n. PICK n : n = Length(s)
    OBVIOUS
  <1>1. n \in Nat /\ Len(d) = n /\ Cap(s) \in Nat /\ n <= Cap(s)
    BY <1>n, Offsets DEF Holds
  <1>2. CASE Free(s) >= need
    <2>1. Grow(s, need) = s
      BY <1>2 DEF Grow
    <2>2. need <= Free(s)
      BY <1>1, <1>2, <1>n DEF Free
    <2> HIDE DEF Grow
    <2> QED BY <2>1, <2>2
  <1>3. CASE ~(Free(s) >= need)
    <2>c. PICK c : c = Min(Fitting(s, need))
      OBVIOUS
    <2>1. c \in Capacities /\ c - n >= need /\ c \in Nat /\ c < WordMod
      <3>1. Fitting(s, need) \in SUBSET Nat
        BY CapacityFacts DEF Fitting
      <3>2. c \in Fitting(s, need)
        BY <2>c, <3>1, LeastExists DEF Fits
      <3> QED BY <1>n, <3>2, CapacityFacts DEF Fitting
    <2>2. n <= c /\ n \in 0..WordMod-1 /\ WordMod \in Nat \ {0} /\ c # 0
      BY <1>1, <2>1, CapacityFacts
    <2>o. PICK old : old = CopyOut(s, n)
      OBVIOUS
    <2>z. PICK zeros : zeros = [i \in 1..c-n |-> 0]
      OBVIOUS
    <2>3. /\ old \in Seq(Bytes \cup {0}) /\ Len(old) = n
          /\ \A i \in 1..n : old[i] = d[i]
      <3>1. n \in 0..Length(s) /\ Length(s) <= Cap(s)
        BY <1>1, <1>n
      <3>2. /\ old \in Seq(Bytes \cup {0}) /\ Len(old) = n
            /\ \A i \in 1..n : old[i] = s.buf[Place(s, i)]
        BY <2>o, <3>1, CopyOutProperties
      <3> QED BY <1>1, <3>2 DEF Holds
    <2>4. zeros \in Seq(Bytes \cup {0}) /\ Len(zeros) = c - n
      <3>1. zeros \in [1..c-n -> Bytes \cup {0}] /\ c - n \in Nat
        BY <1>1, <2>1, <2>2, <2>z
      <3> QED BY <3>1, IsASeq, LenProperties
    <2>f. PICK f : f = old \o zeros
      OBVIOUS
    <2>5. /\ f \in Seq(Bytes \cup {0}) /\ Len(f) = c
          /\ \A i \in 1..n : f[i] = d[i]
      <3>1. /\ f \in Seq(Bytes \cup {0}) /\ Len(f) = n + (c - n)
            /\ \A i \in 1..n + (c - n) : f[i] = IF i <= n THEN old[i] ELSE zeros[i - n]
        <4>1. /\ old \o zeros \in Seq(Bytes \cup {0})
              /\ Len(old \o zeros) = Len(old) + Len(zeros)
              /\ \A i \in 1..Len(old) + Len(zeros) :
                   (old \o zeros)[i] = IF i <= Len(old) THEN old[i] ELSE zeros[i - Len(old)]
          BY <2>3, <2>4, ConcatProperties
        <4>2. Len(old) = n /\ Len(zeros) = c - n
          BY <2>3, <2>4
        <4> QED BY <2>f, <4>1, <4>2
      <3>2. n + (c - n) = c /\ \A i \in 1..n : i \in 1..c /\ i <= n
        BY <1>1, <2>1, <2>2
      <3> QED BY <2>3, <3>1, <3>2
    <2>t. PICK t : t = [s EXCEPT !.buf = f, !.r = 0, !.w = n]
      OBVIOUS
    <2>6. Grow(s, need) = t
      BY <1>3, <1>n, <2>c, <2>f, <2>o, <2>t, <2>z DEF Grow
    <2>7. t \in Buffers /\ t.buf = f /\ t.r = 0 /\ t.w = n /\ Cap(t) = c
      BY <2>2, <2>5, <2>t, CapacityFacts DEF Buffers, Word, Cap
    <2>8. Length(t) = n
      <3>1. n - 0 = n /\ n \in Int
        BY <1>1
      <3>2. Wrap(n) = n
        BY <2>2, <3>1, WrapCases
      <3> QED BY <2>7, <3>1, <3>2 DEF Length
    <2>9. ASSUME NEW i \in 1..n
          PROVE  t.buf[Place(t, i)] = d[i]
      <3>1. t.buf # <<>>
        BY <2>2, <2>5, <2>7, EmptySeq
      <3>2. 0 % c = 0
        BY <2>1, <2>2, Z3
      <3>3. Cell(t, t.r) = 1
        BY <2>7, <3>1, <3>2 DEF Cell
      <3>4. Place(t, i) = i
        BY <1>1, <2>1, <2>2, <2>7, <3>3 DEF Place
      <3> QED BY <2>5, <2>7, <3>4
    <2>10. Free(t) = c - n
      BY <2>7, <2>8 DEF Free
    <2>11. need <= Free(t)
      BY <1>1, <2>1, <2>10
    <2> HIDE DEF Grow
    <2> QED BY <1>1, <2>1, <2>2, <2>6, <2>7, <2>8, <2>9, <2>11 DEF Holds
  <1> QED BY <1>2, <1>3

-----------------------------------------------------------------------------
(* Where bytes are written, and what the views show.                       *)

LEMMA IntCells ==
    ASSUME NEW c \in Int, NEW n \in Nat
    PROVE  /\ Cells(c, n) \in Seq(Int) /\ Len(Cells(c, n)) = n
           /\ \A i \in 1..n : Cells(c, n)[i] = c + i - 1
  <1>1. \A i \in 1..n : c + i - 1 \in Int
    OBVIOUS
  <1> QED BY <1>1, CellsProperties

\* One run of cells and then one from the start of buf.
LEMMA TwoRuns ==
    ASSUME NEW c \in Int, NEW k \in Nat, NEW m \in Nat
    PROVE  LET both == Cells(c, k) \o Cells(1, m)
           IN /\ both \in Seq(Int) /\ Len(both) = k + m
              /\ \A i \in 1..k+m : both[i] = IF i <= k THEN c + i - 1 ELSE i - k
  <1>x. PICK x : x = Cells(c, k)
    OBVIOUS
  <1>y. PICK y : y = Cells(1, m)
    OBVIOUS
  <1>1. x \in Seq(Int) /\ Len(x) = k /\ \A i \in 1..k : x[i] = c + i - 1
    BY <1>x, IntCells
  <1>2. y \in Seq(Int) /\ Len(y) = m /\ \A i \in 1..m : y[i] = i
    <2>1. y \in Seq(Int) /\ Len(y) = m /\ \A i \in 1..m : y[i] = 1 + i - 1
      <3>1. 1 \in Int /\ \A i \in 1..m : 1 + i - 1 \in Int
        OBVIOUS
      <3> QED BY <1>y, <3>1, CellsProperties
    <2>2. \A i \in 1..m : 1 + i - 1 = i
      OBVIOUS
    <2> QED BY <2>1, <2>2
  <1>3. /\ x \o y \in Seq(Int) /\ Len(x \o y) = k + m
        /\ \A i \in 1..k+m : (x \o y)[i] = IF i <= k THEN x[i] ELSE y[i - k]
    BY <1>1, <1>2, ConcatProperties
  <1>4. \A i \in 1..k+m : (i <= k => i \in 1..k) /\ (~(i <= k) => i - k \in 1..m)
    OBVIOUS
  <1>5. \A i \in 1..k+m : (x \o y)[i] = IF i <= k THEN c + i - 1 ELSE i - k
    BY <1>1, <1>2, <1>3, <1>4
  <1> QED BY <1>3, <1>5, <1>x, <1>y

\* The cells that Write fills are those after the bytes held.
LEMMA WriteCellsPlace ==
    ASSUME NEW s \in Buffers, Cap(s) \in Capacities \cup {0}, Length(s) <= Cap(s),
           NEW n \in 0..Free(s)
    PROVE  /\ WriteCells(s, n) \in Seq(Int) /\ Len(WriteCells(s, n)) = n
           /\ \A i \in 1..n : WriteCells(s, n)[i] = Place(s, Length(s) + i)
  <1>n. PICK N : N = Cap(s)
    OBVIOUS
  <1>l. PICK l : l = Length(s)
    OBVIOUS
  <1>c. PICK a : a = Cell(s, s.r)
    OBVIOUS
  <1>e. PICK e : e = Cell(s, s.w)
    OBVIOUS
  <1>1. /\ N \in Nat /\ l \in 0..N /\ n \in 0..N-l
        /\ N = 0 => a = 1 /\ e = 1
        /\ N # 0 => a \in 1..N /\ e = IF a + l <= N THEN a + l ELSE a + l - N
    BY <1>c, <1>e, <1>l, <1>n, Offsets DEF Free
  <1>k. PICK k : k = IF e - 1 + n <= N THEN n ELSE N - e + 1
    OBVIOUS
  <1>m. PICK m : m = n - k
    OBVIOUS
  <1>2. e \in Int /\ a \in Int /\ k \in Nat /\ m \in Nat /\ k + m = n
    BY <1>1, <1>k, <1>m
  <1>3. WriteCells(s, n) = Cells(e, k) \o Cells(1, m)
    BY <1>e, <1>k, <1>m, <1>n DEF WriteCells
  <1>4. /\ Cells(e, k) \o Cells(1, m) \in Seq(Int)
        /\ Len(Cells(e, k) \o Cells(1, m)) = k + m
        /\ \A i \in 1..k+m :
             (Cells(e, k) \o Cells(1, m))[i] = IF i <= k THEN e + i - 1 ELSE i - k
    BY <1>2, TwoRuns
  <1>5. ASSUME NEW i \in 1..n
        PROVE  (IF i <= k THEN e + i - 1 ELSE i - k) = Place(s, l + i)
    <2>1. Place(s, l + i) = IF a + (l + i) - 1 <= N THEN a + (l + i) - 1
                            ELSE (a + (l + i) - 1) - N
      BY <1>c, <1>n DEF Place
    <2>2. N # 0
      BY <1>1
    <2>3. CASE i <= k
      BY <1>1, <1>k, <2>1, <2>2, <2>3
    <2>4. CASE ~(i <= k)
      BY <1>1, <1>k, <2>1, <2>2, <2>4
    <2> QED BY <2>3, <2>4
  <1> QED BY <1>2, <1>3, <1>4, <1>5, <1>l

\* The first segment of ReadFrom.
LEMMA StraightCellsPlace ==
    ASSUME NEW s \in Buffers, Cap(s) \in Capacities \cup {0}, Length(s) <= Cap(s),
           NEW n \in 0..Free(s), Cell(s, s.w) - 1 + n <= Cap(s)
    PROVE  \A i \in 1..n : Cells(Cell(s, s.w), n)[i] = Place(s, Length(s) + i)
  <1>e. PICK e : e = Cell(s, s.w)
    OBVIOUS
  <1>1. e \in Int /\ n \in Nat
    BY <1>e, Offsets DEF Free
  <1>2. WriteCells(s, n) = Cells(e, n) \o Cells(1, n - n)
    BY <1>e DEF WriteCells
  <1>3. n - n = 0 /\ n + 0 = n /\ 0 \in Nat /\ \A i \in 1..n : i <= n
    BY <1>1
  <1>z. PICK z : z = Cells(1, 0)
    OBVIOUS
  <1>y. PICK y : y = Cells(e, n)
    OBVIOUS
  <1>4. /\ y \in Seq(Int) /\ Len(y) = n /\ \A i \in 1..n : y[i] = e + i - 1
        /\ z = <<>>
    <2>1. z \in Seq(Int) /\ Len(z) = 0
      BY <1>3, <1>z, IntCells
    <2> QED BY <1>1, <1>y, <2>1, IntCells, EmptySeq
  <1>5. \A i \in 1..n : WriteCells(s, n)[i] = e + i - 1
    <2>1. y \o z = y
      BY <1>4, ConcatEmptySeq
    <2> QED BY <1>2, <1>3, <1>4, <1>y, <1>z, <2>1
  <1>6. \A i \in 1..n : Cells(e, n)[i] = e + i - 1
    BY <1>1, IntCells
  <1>7. \A i \in 1..n : WriteCells(s, n)[i] = Place(s, Length(s) + i)
    BY WriteCellsPlace
  <1> QED BY <1>5, <1>6, <1>7, <1>e

\* The writable segments are all the free cells, in the order Write fills them.
LEMMA WritableAreFree ==
    ASSUME NEW s \in Buffers, Cap(s) \in Capacities \cup {0}, Length(s) <= Cap(s),
           s.r # s.w \/ Cell(s, s.w) = 1
    PROVE  WritableCells(s) = WriteCells(s, Free(s))
  <1>n. PICK N : N = Cap(s)
    OBVIOUS
  <1>l. PICK l : l = Length(s)
    OBVIOUS
  <1>c. PICK a : a = Cell(s, s.r)
    OBVIOUS
  <1>e. PICK e : e = Cell(s, s.w)
    OBVIOUS
  <1>f. PICK f : f = Free(s)
    OBVIOUS
  <1>1. /\ N \in Nat /\ l \in 0..N /\ f = N - l /\ f \in Nat
        /\ l = 0 <=> s.r = s.w
        /\ N = 0 => a = 1 /\ e = 1
        /\ N # 0 => a \in 1..N /\ e = IF a + l <= N THEN a + l ELSE a + l - N
    BY <1>c, <1>e, <1>f, <1>l, <1>n, Offsets DEF Free
  <1>k. PICK k : k = IF e - 1 + f <= N THEN f ELSE N - e + 1
    OBVIOUS
  <1>2. WriteCells(s, f) = Cells(e, k) \o Cells(1, f - k)
    BY <1>e, <1>k, <1>n DEF WriteCells
  <1>3. ASSUME NEW c \in Int, NEW j \in Nat
        PROVE  Cells(c, j) \o Cells(1, 0) = Cells(c, j) /\ Cells(1, 0) = <<>>
    <2>1. Cells(c, j) \in Seq(Int) /\ Cells(1, 0) \in Seq(Int) /\ Len(Cells(1, 0)) = 0
      BY IntCells
    <2> QED BY <2>1, EmptySeq, ConcatEmptySeq
  <1>4. CASE f = 0
    <2>1. WritableCells(s) = <<>>
      BY <1>4, <1>f DEF WritableCells
    <2>0. e \in Int /\ e - 1 + 0 <= N
      BY <1>1, <1>4
    <2>2. k = 0 /\ f - k = 0 /\ e \in Int
      BY <1>4, <1>k, <2>0
    <2>3. Cells(e, 0) = <<>>
      BY <2>2, IntCells, EmptySeq
    <2> QED BY <1>2, <1>3, <1>f, <2>1, <2>2, <2>3
  <1>5. CASE f # 0 /\ s.r = s.w
    <2>1. WritableCells(s) = Cells(1, f)
      BY <1>1, <1>5, <1>f DEF WritableCells
    <2>2. e = 1 /\ k = f /\ f - k = 0
      BY <1>1, <1>5, <1>e, <1>k
    <2>3. f \in Nat /\ 1 \in Int
      BY <1>1
    <2>4. Cells(1, f) \o Cells(1, 0) = Cells(1, f)
      BY <1>3, <2>3
    <2> QED BY <1>2, <1>f, <2>1, <2>2, <2>4
  <1>6. CASE f # 0 /\ s.r # s.w /\ e < a
    <2>1. WritableCells(s) = Cells(e, a - e)
      BY <1>1, <1>6, <1>c, <1>e, <1>f DEF WritableCells
    <2>2. k = f /\ f - k = 0 /\ a - e = f /\ e \in Int
      BY <1>1, <1>6, <1>k
    <2> QED BY <1>1, <1>2, <1>3, <1>f, <2>1, <2>2
  <1>7. CASE f # 0 /\ s.r # s.w /\ ~(e < a)
    <2>1. WritableCells(s) = Cells(e, N - e + 1) \o Cells(1, a - 1)
      <3>1. f > 0
        BY <1>1, <1>7
      <3> QED BY <1>7, <1>c, <1>e, <1>f, <1>n, <3>1 DEF WritableCells
    <2>2. k = N - e + 1 /\ f - k = a - 1
      BY <1>1, <1>7, <1>k
    <2> QED BY <1>2, <1>f, <2>1, <2>2
  <1> QED BY <1>4, <1>5, <1>6, <1>7

\* The bytes of one run of cells.
LEMMA StraightRun ==
    ASSUME NEW s \in Buffers, NEW c \in Int, NEW k \in Nat,
           \A i \in 1..k : c + i - 1 \in 1..Cap(s)
    PROVE  /\ At(s, Cells(c, k)) \in Seq(Bytes \cup {0}) /\ Len(At(s, Cells(c, k))) = k
           /\ \A i \in 1..k : At(s, Cells(c, k))[i] = s.buf[c + i - 1]
  <1>x. PICK x : x = Cells(c, k)
    OBVIOUS
  <1>1. x \in Seq(1..Cap(s)) /\ Len(x) = k /\ \A i \in 1..k : x[i] = c + i - 1
    BY <1>x, CellsProperties
  <1>2. /\ At(s, x) \in Seq(Bytes \cup {0}) /\ Len(At(s, x)) = Len(x)
        /\ \A i \in 1..Len(x) : At(s, x)[i] = s.buf[x[i]]
    BY <1>1, AtProperties
  <1> QED BY <1>1, <1>2, <1>x

LEMMA CopyOutShows ==
    ASSUME NEW s \in Buffers, Cap(s) \in Capacities \cup {0},
           NEW d \in Seq(Bytes \cup {0}), Holds(s, d), NEW n \in 0..Len(d)
    PROVE  CopyOut(s, n) = SubSeq(d, 1, n)
  <1>1. n \in 0..Length(s) /\ Length(s) <= Cap(s)
    BY DEF Holds
  <1>v. PICK v : v = CopyOut(s, n)
    OBVIOUS
  <1>2. /\ v \in Seq(Bytes \cup {0}) /\ Len(v) = n
        /\ \A i \in 1..n : v[i] = s.buf[Place(s, i)]
    BY <1>1, <1>v, CopyOutProperties
  <1> QED BY <1>2, <1>v, FrontOfData

\* The first n bytes, when they do not go around the end of buf.
LEMMA StraightShows ==
    ASSUME NEW s \in Buffers, Cap(s) \in Capacities \cup {0},
           NEW d \in Seq(Bytes \cup {0}), Holds(s, d), NEW n \in 0..Len(d),
           Cell(s, s.r) - 1 + n <= Cap(s)
    PROVE  At(s, Cells(Cell(s, s.r), n)) = SubSeq(d, 1, n)
  <1>n. PICK N : N = Cap(s)
    OBVIOUS
  <1>c. PICK c : c = Cell(s, s.r)
    OBVIOUS
  <1>1. /\ N \in Nat /\ n \in Nat /\ n <= N /\ c \in Int /\ c >= 1 /\ c - 1 + n <= N
    BY <1>c, <1>n, Offsets DEF Holds
  <1>2. \A i \in 1..n : c + i - 1 \in 1..N
    BY <1>1
  <1>v. PICK v : v = At(s, Cells(c, n))
    OBVIOUS
  <1>3. /\ v \in Seq(Bytes \cup {0}) /\ Len(v) = n
        /\ \A i \in 1..n : v[i] = s.buf[c + i - 1]
    BY <1>1, <1>2, <1>n, <1>v, StraightRun
  <1>4. \A i \in 1..n : Place(s, i) = c + i - 1
    BY <1>2, <1>c, <1>n DEF Place
  <1> QED BY <1>3, <1>4, <1>c, <1>v, FrontOfData

\* The first n bytes, when they do.
LEMMA BothShow ==
    ASSUME NEW s \in Buffers, Cap(s) \in Capacities,
           NEW d \in Seq(Bytes \cup {0}), Holds(s, d), NEW n \in 0..Len(d),
           NEW c, c = Cell(s, s.r), NEW m \in Nat, n = Cap(s) - c + 1 + m
    PROVE  At(s, Cells(c, Cap(s) - c + 1)) \o At(s, Cells(1, m)) = SubSeq(d, 1, n)
  <1>n. PICK N : N = Cap(s)
    OBVIOUS
  <1>k. PICK k : k = N - c + 1
    OBVIOUS
  <1>1. N \in Nat /\ N # 0 /\ c \in 1..N /\ n \in 0..N /\ n = N - c + 1 + m
    <2>1. N \in Nat /\ N # 0
      BY <1>n, CapacityFacts
    <2> QED BY <1>n, <2>1, Offsets DEF Holds
  <1>2. c \in 1..N /\ k \in 0..N-c+1 /\ m \in 0..N /\ (m = 0 \/ k = N - c + 1)
        /\ k + m = n
    BY <1>1, <1>k
  <1>v. PICK v : v = At(s, Cells(c, k)) \o At(s, Cells(1, m))
    OBVIOUS
  <1>3. /\ v \in Seq(Bytes \cup {0}) /\ Len(v) = k + m
        /\ \A i \in 1..k+m :
             v[i] = s.buf[IF c + i - 1 <= N THEN c + i - 1 ELSE c + i - 1 - N]
    <2>1. /\ c \in 1..Cap(s) /\ k \in 0..Cap(s)-c+1 /\ m \in 0..Cap(s)
          /\ m = 0 \/ k = Cap(s) - c + 1
      BY <1>2, <1>n
    <2>2. LET both == At(s, Cells(c, k)) \o At(s, Cells(1, m))
          IN /\ both \in Seq(Bytes \cup {0}) /\ Len(both) = k + m
             /\ \A i \in 1..k+m :
                  both[i] = s.buf[IF c + i - 1 <= Cap(s) THEN c + i - 1
                                  ELSE c + i - 1 - Cap(s)]
      BY <2>1, SegmentsProperties
    <2> QED BY <1>n, <1>v, <2>2
  <1>4. \A i \in 1..n : Place(s, i) = IF c + i - 1 <= N THEN c + i - 1 ELSE c + i - 1 - N
    <2>1. \A i \in 1..n : Place(s, i) = IF c + i - 1 <= N THEN c + i - 1
                                       ELSE (c + i - 1) - N
      BY <1>n DEF Place
    <2>2. N \in Int /\ c \in Int /\ \A i \in 1..n : i \in Int
      BY <1>1
    <2> QED BY <2>1, <2>2
  <1>5. \A i \in 1..n : v[i] = s.buf[Place(s, i)]
    BY <1>2, <1>3, <1>4
  <1>6. v = SubSeq(d, 1, n)
    <2>1. v \in Seq(Bytes \cup {0}) /\ Len(v) = n
      BY <1>2, <1>3
    <2> QED BY <1>5, <2>1, FrontOfData
  <1> QED BY <1>6, <1>k, <1>n, <1>v

LEMMA PeekShows ==
    ASSUME NEW s \in Buffers, Cap(s) \in Capacities \cup {0},
           NEW d \in Seq(Bytes \cup {0}), Holds(s, d), NEW n \in Nat
    PROVE  Peek(s, n) = SubSeq(d, 1, IF n > Len(d) THEN Len(d) ELSE n)
  <1>k. PICK k : k = IF n > Len(d) THEN Len(d) ELSE n
    OBVIOUS
  <1>1. k \in 0..Len(d) /\ Len(d) = Length(s)
    BY <1>k DEF Holds
  <1>2. CASE Cell(s, s.r) - 1 + k <= Cap(s)
    <2>1. At(s, Cells(Cell(s, s.r), k)) = SubSeq(d, 1, k)
      BY <1>1, <1>2, StraightShows
    <2> QED BY <1>1, <1>2, <1>k, <2>1 DEF Peek
  <1>3. CASE ~(Cell(s, s.r) - 1 + k <= Cap(s))
    <2>1. CopyOut(s, k) = SubSeq(d, 1, k)
      BY <1>1, CopyOutShows
    <2> QED BY <1>1, <1>3, <1>k, <2>1 DEF Peek
  <1> QED BY <1>2, <1>3

LEMMA PeekSegmentsShow ==
    ASSUME NEW s \in Buffers, Cap(s) \in Capacities \cup {0},
           NEW d \in Seq(Bytes \cup {0}), Holds(s, d)
    PROVE  PeekSegments(s) = d
  <1>n. PICK N : N = Cap(s)
    OBVIOUS
  <1>l. PICK l : l = Length(s)
    OBVIOUS
  <1>c. PICK a : a = Cell(s, s.r)
    OBVIOUS
  <1>e. PICK e : e = Cell(s, s.w)
    OBVIOUS
  <1>1. /\ N \in Nat /\ l \in 0..N /\ Len(d) = l /\ (l = 0 <=> s.r = s.w)
        /\ N # 0 => a \in 1..N /\ e = IF a + l <= N THEN a + l ELSE a + l - N
    BY <1>c, <1>e, <1>l, <1>n, Offsets DEF Holds
  <1>2. SubSeq(d, 1, l) = d
    BY <1>1, SubSeqFull
  <1>3. CASE s.r = s.w
    <2>1. d = <<>>
      BY <1>1, <1>3, EmptySeq
    <2> QED BY <1>3, <2>1 DEF PeekSegments
  <1>4. CASE s.r # s.w /\ a < e
    <2>1. e - a = l /\ a - 1 + l <= N /\ l \in 0..Len(d)
      BY <1>1, <1>4
    <2>2. At(s, Cells(a, l)) = d
      BY <1>2, <1>c, <1>n, <2>1, StraightShows
    <2>3. PeekSegments(s) = At(s, Cells(a, e - a))
      BY <1>4, <1>c, <1>e DEF PeekSegments
    <2> QED BY <2>1, <2>2, <2>3
  <1>5. CASE s.r # s.w /\ ~(a < e)
    <2>0. e - 1 \in Nat /\ l = N - a + 1 + (e - 1)
      BY <1>1, <1>5
    <2>m. PICK m \in Nat : m = e - 1 /\ l = N - a + 1 + m
      BY <2>0
    <2>1. l \in 0..Len(d) /\ Cap(s) \in Capacities /\ l = Cap(s) - a + 1 + m
      BY <1>1, <1>5, <1>n, <2>m
    <2>2. At(s, Cells(a, Cap(s) - a + 1)) \o At(s, Cells(1, m)) = d
      BY <1>2, <1>c, <2>1, BothShow
    <2>3. PeekSegments(s) = At(s, Cells(a, Cap(s) - a + 1)) \o At(s, Cells(1, e - 1))
      BY <1>5, <1>c, <1>e DEF PeekSegments
    <2> QED BY <2>2, <2>3, <2>m
  <1> QED BY <1>3, <1>4, <1>5

LEMMA ReadableSegmentsShow ==
    ASSUME NEW s \in Buffers, Cap(s) \in Capacities \cup {0},
           NEW d \in Seq(Bytes \cup {0}), Holds(s, d), NEW n \in Nat
    PROVE  ReadableSegments(s, n) = SubSeq(d, 1, IF n > Len(d) THEN Len(d) ELSE n)
  <1>k. PICK k : k = IF n > Len(d) THEN Len(d) ELSE n
    OBVIOUS
  <1>n. PICK N : N = Cap(s)
    OBVIOUS
  <1>l. PICK l : l = Length(s)
    OBVIOUS
  <1>c. PICK a : a = Cell(s, s.r)
    OBVIOUS
  <1>e. PICK e : e = Cell(s, s.w)
    OBVIOUS
  <1>1. /\ N \in Nat /\ l \in 0..N /\ Len(d) = l /\ k \in 0..l
        /\ k = IF n > Length(s) THEN Length(s) ELSE n
        /\ N # 0 => a \in 1..N /\ e = IF a + l <= N THEN a + l ELSE a + l - N
    BY <1>c, <1>e, <1>k, <1>l, <1>n, Offsets DEF Holds
  <1>2. CASE k = 0
    <2>1. ReadableSegments(s, n) = <<>>
      BY <1>1, <1>2 DEF ReadableSegments
    <2>2. SubSeq(d, 1, 0) = <<>>
      BY SubSeqEmpty
    <2> QED BY <1>2, <1>k, <2>1, <2>2
  <1>3. CASE k > 0 /\ (a < e \/ k <= N - a + 1)
    <2>1. a - 1 + k <= N /\ k \in 0..Len(d)
      BY <1>1, <1>3
    <2>2. At(s, Cells(a, k)) = SubSeq(d, 1, k)
      BY <1>c, <1>n, <2>1, StraightShows
    <2>3. ~(k <= 0)
      BY <1>1, <1>3
    <2>4. ReadableSegments(s, n) = At(s, Cells(a, k))
      BY <1>1, <1>3, <1>c, <1>e, <1>n, <2>3 DEF ReadableSegments
    <2> QED BY <1>k, <2>2, <2>4
  <1>4. CASE k > 0 /\ ~(a < e \/ k <= N - a + 1)
    <2>0. /\ k - (N - a + 1) \in Nat /\ k - (N - a + 1) <= e - 1
          /\ k = N - a + 1 + (k - (N - a + 1))
      BY <1>1, <1>4
    <2>m. PICK m \in Nat : m = k - (N - a + 1) /\ m <= e - 1 /\ k = N - a + 1 + m
      BY <2>0
    <2>1. k \in 0..Len(d) /\ Cap(s) \in Capacities /\ k = Cap(s) - a + 1 + m
      BY <1>1, <1>4, <1>n, <2>m
    <2>2. At(s, Cells(a, Cap(s) - a + 1)) \o At(s, Cells(1, m)) = SubSeq(d, 1, k)
      BY <1>c, <2>1, BothShow
    <2>3. ~(k <= 0)
      BY <1>1, <1>4
    <2>4. (IF k - (N - a + 1) > e - 1 THEN e - 1 ELSE k - (N - a + 1)) = m
      BY <1>1, <1>4, <2>m
    <2>5. ReadableSegments(s, n)
            = At(s, Cells(a, Cap(s) - a + 1)) \o
              At(s, Cells(1, IF k - (N - a + 1) > e - 1 THEN e - 1 ELSE k - (N - a + 1)))
      BY <1>1, <1>4, <1>c, <1>e, <1>n, <2>3 DEF ReadableSegments
    <2> QED BY <1>k, <2>2, <2>4, <2>5
  <1> QED BY <1>1, <1>2, <1>3, <1>4

-----------------------------------------------------------------------------
(* Preservation of the invariant.                                          *)

LEMMA WrapType ==
    ASSUME NEW x \in Nat
    PROVE  Wrap(x) \in Word
  BY CapacityFacts, IndexInRange DEF Wrap, Word

LEMMA ChunksAreBytes ==
    ASSUME NEW p \in Chunks
    PROVE  p \in Seq(Bytes) /\ p \in Seq(Bytes \cup {0}) /\ Len(p) \in Nat
  <1>1. PICK n \in 1..MaxIO \cup {0} : p \in [1..n -> Bytes]
    BY SizesAssumption DEF Chunks
  <1>2. n \in Nat
    BY SizesAssumption
  <1>3. p \in Seq(Bytes)
    BY <1>1, <1>2, IsASeq
  <1> QED BY <1>3, SeqMonotonic

\* r moves on by k bytes, with or without the move back to 0.
LEMMA ReadState ==
    ASSUME NEW s \in Buffers, Cap(s) \in Capacities \cup {0},
           NEW d \in Seq(Bytes \cup {0}), Holds(s, d), NEW k \in 0..Length(s)
    PROVE  LET t == [s EXCEPT !.r = Wrap(@ + k)]
           IN /\ t \in Buffers /\ t.buf = s.buf /\ Cap(t) = Cap(s) /\ t.hasUnread = s.hasUnread
              /\ t.r = Wrap(s.r + k) /\ t.w = s.w /\ t.readPrev = s.readPrev
              /\ Holds(t, Take(d, k))
              /\ Consume(s, k) = Normalise(t)
              /\ Consume(s, k) \in Buffers /\ Cap(Consume(s, k)) = Cap(s)
              /\ Holds(Consume(s, k), Take(d, k))
  <1>t. PICK t : t = [s EXCEPT !.r = Wrap(@ + k)]
    OBVIOUS
  <1>1. s.r + k \in Nat
    BY Offsets, CapacityFacts DEF Holds, Word
  <1>2. Wrap(s.r + k) \in Word
    BY <1>1, WrapType
  <1>3. /\ t \in Buffers /\ t.buf = s.buf /\ t.w = s.w /\ t.r = Wrap(s.r + k)
        /\ t.hasUnread = s.hasUnread /\ t.readPrev = s.readPrev
    BY <1>2, <1>t DEF Buffers
  <1>4. Cap(t) = Cap(s)
    BY <1>3 DEF Cap
  <1>5. Holds(t, Take(d, k))
    BY <1>3, HoldsRead
  <1>6. Consume(s, k) = Normalise(t)
    BY <1>t DEF Consume
  <1>7. Normalise(t) \in Buffers /\ Holds(Normalise(t), Take(d, k)) /\ Normalise(t).buf = t.buf
    BY <1>3, <1>4, <1>5, HoldsNormalised
  <1>8. Cap(Normalise(t)) = Cap(s)
    BY <1>3, <1>7 DEF Cap
  <1> HIDE DEF Normalise, Take, Holds, Consume
  <1> QED BY <1>3, <1>4, <1>5, <1>6, <1>7, <1>8, <1>t

\* The buffer without the byte that UnreadByte could put back.
LEMMA ForgetState ==
    ASSUME NEW s \in Buffers, Cap(s) \in Capacities \cup {0}, NEW d, Holds(s, d),
           NEW h \in BOOLEAN
    PROVE  LET t == [s EXCEPT !.hasUnread = h]
           IN /\ t \in Buffers /\ t.buf = s.buf /\ t.r = s.r /\ t.w = s.w
              /\ Cap(t) = Cap(s) /\ Length(t) = Length(s) /\ Holds(t, d)
  <1>t. PICK t : t = [s EXCEPT !.hasUnread = h]
    OBVIOUS
  <1>1. t \in Buffers /\ t.buf = s.buf /\ t.r = s.r /\ t.w = s.w
    BY <1>t DEF Buffers
  <1>2. Cap(t) = Cap(s) /\ Length(t) = Length(s)
    BY <1>1 DEF Cap, Length
  <1>3. Holds(t, d)
    BY <1>1, HoldsSame
  <1> HIDE DEF Holds, Cap, Length
  <1> QED BY <1>1, <1>2, <1>3, <1>t

\* An operation after which UnreadByte is not the caller's to call.
LEMMA BecomesStep ==
    ASSUME BufferInv, ~astray, NEW s \in Buffers, Cap(s) \in Capacities \cup {0},
           NEW d \in Seq(Bytes \cup {0}), Holds(s, d), Becomes(s, d)
    PROVE  BufferInv'
  <1>1. b' = s /\ data' = d /\ back' = None /\ astray' = astray
    BY DEF Becomes
  <1>2. BufferTypeOK'
    BY <1>1 DEF BufferInv, BufferTypeOK
  <1>3. Holds(b', data')
    BY <1>1
  <1> QED BY <1>1, <1>2, <1>3 DEF BufferInv

LEMMA InitBufferInv == BufferInit => BufferInv
  <1> SUFFICES ASSUME BufferInit PROVE BufferInv
    OBVIOUS
  <1>c. PICK c \in Capacities \cup {0} :
          b = [buf |-> [i \in 1..c |-> 0], r |-> 0, w |-> 0,
               readPrev |-> 0, hasUnread |-> FALSE]
    BY DEF BufferInit
  <1>1. c \in Nat /\ 0 \in Word /\ WordMod \in Nat \ {0}
    BY CapacityFacts
  <1>2. [i \in 1..c |-> 0] \in Seq(Bytes \cup {0}) /\ Len([i \in 1..c |-> 0]) = c
    <2>1. [i \in 1..c |-> 0] \in [1..c -> Bytes \cup {0}]
      OBVIOUS
    <2> QED BY <1>1, <2>1, IsASeq, LenProperties
  <1>3. b \in Buffers /\ b.r = 0 /\ b.w = 0 /\ Cap(b) = c
    BY <1>1, <1>2, <1>c DEF Buffers, Cap
  <1>4. data = <<>> /\ back = None /\ astray = FALSE
    BY DEF BufferInit
  <1>5. BufferTypeOK
    BY <1>3, <1>4, EmptySeq DEF BufferTypeOK
  <1>6. Length(b) = 0
    <2>1. 0 \in 0..WordMod-1 /\ 0 \in Int /\ 0 - 0 = 0
      BY <1>1
    <2>2. Wrap(0) = 0
      BY <2>1, WrapCases
    <2> QED BY <1>3, <2>1, <2>2 DEF Length
  <1>7. Holds(b, data)
    BY <1>1, <1>3, <1>4, <1>6, EmptySeq DEF Holds
  <1> QED BY <1>4, <1>5, <1>7 DEF BufferInv

LEMMA ResetStep ==
    ASSUME BufferInv, ~astray, Reset
    PROVE  BufferInv'
  <1>s. PICK s : s = [b EXCEPT !.r = 0, !.w = 0]
    OBVIOUS
  <1>1. b \in Buffers /\ Cap(b) \in Capacities \cup {0} /\ Cap(b) \in Nat
    BY Offsets DEF BufferInv, BufferTypeOK, Holds
  <1>2. s \in Buffers /\ s.r = 0 /\ s.w = 0 /\ Cap(s) = Cap(b)
    BY <1>1, <1>s, CapacityFacts DEF Buffers, Cap
  <1>3. Length(s) = 0
    <2>1. 0 \in 0..WordMod-1 /\ 0 \in Int /\ 0 - 0 = 0
      BY CapacityFacts
    <2>2. Wrap(0) = 0
      BY <2>1, WrapCases
    <2> QED BY <1>2, <2>1, <2>2 DEF Length
  <1>4. Holds(s, <<>>)
    BY <1>1, <1>2, <1>3, EmptySeq DEF Holds
  <1>5. Becomes(s, <<>>)
    BY <1>s DEF Reset
  <1>6. <<>> \in Seq(Bytes \cup {0})
    OBVIOUS
  <1> HIDE DEF Holds, Becomes, Cap
  <1> QED BY <1>1, <1>2, <1>4, <1>5, <1>6, BecomesStep

\* What a buffer that holds bytes gives when p is written in its free cells.
LEMMA FillState ==
    ASSUME NEW s \in Buffers, Cap(s) \in Capacities \cup {0},
           NEW d \in Seq(Bytes \cup {0}), Holds(s, d),
           NEW p \in Chunks, Len(p) <= Free(s), NEW cells,
           \A i \in 1..Len(p) : cells[i] = Place(s, Length(s) + i)
    PROVE  /\ Fill(s, cells, p) \in Buffers
           /\ Cap(Fill(s, cells, p)) \in Capacities \cup {0}
           /\ d \o p \in Seq(Bytes \cup {0}) /\ Holds(Fill(s, cells, p), d \o p)
  <1>1. p \in Seq(Bytes) /\ p \in Seq(Bytes \cup {0})
    BY ChunksAreBytes
  <1>2. Fill(s, cells, p) \in Buffers /\ Cap(Fill(s, cells, p)) = Cap(s)
    BY <1>1, FilledIsBuffer
  <1>3. Holds(Fill(s, cells, p), d \o p)
    BY <1>1, HoldsFilled
  <1>4. d \o p \in Seq(Bytes \cup {0})
    BY <1>1, ConcatProperties
  <1> HIDE DEF Fill, Holds, Cap
  <1> QED BY <1>2, <1>3, <1>4

LEMMA WriteStep ==
    ASSUME BufferInv, ~astray, NEW p \in Chunks, Write(p)
    PROVE  BufferInv'
  <1>m. PICK m \in Nat : m = Len(p)
    BY ChunksAreBytes
  <1>o. PICK o : o = [b EXCEPT !.hasUnread = FALSE]
    OBVIOUS
  <1>s. PICK s : s = Grow(o, m)
    OBVIOUS
  <1>c. PICK cells : cells = WriteCells(s, m)
    OBVIOUS
  <1>1. /\ b \in Buffers /\ Cap(b) \in Capacities \cup {0}
        /\ data \in Seq(Bytes \cup {0}) /\ Holds(b, data)
    BY DEF BufferInv, BufferTypeOK
  <1>2. Fits(b, m) /\ Becomes(Fill(s, cells, p), data \o p)
    BY <1>c, <1>m, <1>o, <1>s DEF Write
  <1>3. /\ o \in Buffers /\ Cap(o) = Cap(b) /\ Length(o) = Length(b) /\ Holds(o, data)
    BY <1>1, <1>o, ForgetState
  <1>4. Fits(o, m)
    BY <1>2, <1>3 DEF Fits, Fitting
  <1>5. /\ s \in Buffers /\ Cap(s) \in Capacities \cup {0}
        /\ Holds(s, data) /\ m <= Free(s)
    BY <1>1, <1>3, <1>4, <1>s, HoldsGrown
  <1>6. \A i \in 1..m : cells[i] = Place(s, Length(s) + i)
    <2>1. Length(s) <= Cap(s) /\ m \in 0..Free(s)
      BY <1>5, Offsets DEF Holds, Free
    <2> QED BY <1>5, <1>c, <2>1, WriteCellsPlace
  <1>7. /\ Fill(s, cells, p) \in Buffers /\ Cap(Fill(s, cells, p)) \in Capacities \cup {0}
        /\ data \o p \in Seq(Bytes \cup {0}) /\ Holds(Fill(s, cells, p), data \o p)
    BY <1>1, <1>5, <1>6, <1>m, FillState
  <1> QED BY <1>2, <1>7, BecomesStep

LEMMA ReadFromStep ==
    ASSUME BufferInv, ~astray, NEW p \in Chunks, ReadFrom(p)
    PROVE  BufferInv'
  <1>m. PICK m \in Nat : m = Len(p)
    BY ChunksAreBytes
  <1>s. PICK s : s = IF Free(b) = 0 THEN Grow(b, GrowBy) ELSE b
    OBVIOUS
  <1>c. PICK cells : cells = Cells(Cell(s, s.w), m)
    OBVIOUS
  <1>1. /\ b \in Buffers /\ Cap(b) \in Capacities \cup {0}
        /\ data \in Seq(Bytes \cup {0}) /\ Holds(b, data)
    BY DEF BufferInv, BufferTypeOK
  <1>2. /\ Free(b) = 0 => Fits(b, GrowBy)
        /\ m <= Free(s) /\ Cell(s, s.w) - 1 + m <= Cap(s)
        /\ Becomes(Fill(s, cells, p), data \o p)
    BY <1>c, <1>m, <1>s DEF ReadFrom
  <1>3. s \in Buffers /\ Cap(s) \in Capacities \cup {0} /\ Holds(s, data)
    <2>1. CASE Free(b) = 0
      BY <1>1, <1>2, <1>s, <2>1, HoldsGrown, SizesAssumption
    <2>2. CASE Free(b) # 0
      BY <1>1, <1>s, <2>2
    <2> QED BY <2>1, <2>2
  <1>4. \A i \in 1..m : cells[i] = Place(s, Length(s) + i)
    <2>1. Length(s) <= Cap(s) /\ m \in 0..Free(s)
      BY <1>2, <1>3, Offsets DEF Holds, Free
    <2> QED BY <1>2, <1>3, <1>c, <2>1, StraightCellsPlace
  <1>5. /\ Fill(s, cells, p) \in Buffers /\ Cap(Fill(s, cells, p)) \in Capacities \cup {0}
        /\ data \o p \in Seq(Bytes \cup {0}) /\ Holds(Fill(s, cells, p), data \o p)
    BY <1>1, <1>2, <1>3, <1>4, <1>m, FillState
  <1> QED BY <1>2, <1>5, BecomesStep

LEMMA WriteSegmentsStep ==
    ASSUME BufferInv, ~astray, NEW p \in Chunks, NEW need \in Nat, WriteSegments(need, p)
    PROVE  BufferInv'
  <1>m. PICK m \in Nat : m = Len(p)
    BY ChunksAreBytes
  <1>s. PICK s : s = Grow(b, need)
    OBVIOUS
  <1>c. PICK cells : cells = WritableCells(s)
    OBVIOUS
  <1>t. PICK t : t = Fill(s, cells, p)
    OBVIOUS
  <1>1. /\ b \in Buffers /\ Cap(b) \in Capacities \cup {0}
        /\ data \in Seq(Bytes \cup {0}) /\ Holds(b, data)
    BY DEF BufferInv, BufferTypeOK
  <1>2. /\ Fits(b, need) /\ m <= Len(cells)
        /\ b' = t /\ data' = data \o p /\ back' = None
        /\ astray' = (s.r = s.w /\ Cell(s, s.w) # 1)
    BY <1>c, <1>m, <1>s, <1>t DEF WriteSegments
  <1>3. s \in Buffers /\ Cap(s) \in Capacities \cup {0} /\ Holds(s, data)
    BY <1>1, <1>2, <1>s, HoldsGrown
  <1>4. p \in Seq(Bytes) /\ p \in Seq(Bytes \cup {0})
    BY ChunksAreBytes
  <1>5. BufferTypeOK'
    <2>1. t \in Buffers /\ Cap(t) = Cap(s)
      BY <1>3, <1>4, <1>t, FilledIsBuffer
    <2>2. data \o p \in Seq(Bytes \cup {0})
      BY <1>1, <1>4, ConcatProperties
    <2>3. astray' \in BOOLEAN
      BY <1>2
    <2> QED BY <1>2, <1>3, <2>1, <2>2, <2>3 DEF BufferTypeOK
  <1>6. ASSUME ~astray'
        PROVE  Holds(t, data \o p)
    <2>1. Length(s) <= Cap(s) /\ Free(s) \in Nat
      BY <1>3, Offsets DEF Holds, Free
    <2>2. cells = WriteCells(s, Free(s))
      BY <1>2, <1>3, <1>6, <1>c, <2>1, WritableAreFree
    <2>3. Free(s) \in 0..Free(s)
      BY <2>1
    <2>4. /\ Len(cells) = Free(s)
          /\ \A i \in 1..Free(s) : cells[i] = Place(s, Length(s) + i)
      BY <1>3, <2>1, <2>2, <2>3, WriteCellsPlace
    <2>5. m <= Free(s) /\ \A i \in 1..m : cells[i] = Place(s, Length(s) + i)
      BY <1>2, <2>1, <2>4
    <2> QED BY <1>1, <1>3, <1>m, <1>t, <2>5, FillState
  <1> QED BY <1>2, <1>5, <1>6 DEF BufferInv

LEMMA ReadStep ==
    ASSUME BufferInv, ~astray, NEW n \in Nat, Read(n)
    PROVE  BufferInv'
  <1>k. PICK k : k = IF n > Length(b) THEN Length(b) ELSE n
    OBVIOUS
  <1>o. PICK o : o = [b EXCEPT !.hasUnread = FALSE]
    OBVIOUS
  <1>1. /\ b \in Buffers /\ Cap(b) \in Capacities \cup {0}
        /\ data \in Seq(Bytes \cup {0}) /\ Holds(b, data)
    BY DEF BufferInv, BufferTypeOK
  <1>2. k \in 0..Length(b) /\ Len(data) = Length(b)
    BY <1>1, <1>k, Offsets DEF Holds
  <1>3. /\ o \in Buffers /\ Cap(o) = Cap(b) /\ Length(o) = Length(b) /\ Holds(o, data)
    BY <1>1, <1>o, ForgetState
  <1>4. /\ Consume(o, k) \in Buffers /\ Cap(Consume(o, k)) = Cap(o)
        /\ Holds(Consume(o, k), Take(data, k))
    BY <1>1, <1>2, <1>3, ReadState
  <1>5. Take(data, k) \in Seq(Bytes \cup {0})
    BY <1>1, <1>2, TakeProperties
  <1>6. Becomes(Consume(o, k), Take(data, k))
    BY <1>k, <1>o DEF Read
  <1> QED BY <1>1, <1>3, <1>4, <1>5, <1>6, BecomesStep

LEMMA DiscardStep ==
    ASSUME BufferInv, ~astray, NEW n \in Nat, Discard(n)
    PROVE  BufferInv'
  <1>k. PICK k : k = IF n > Length(b) THEN Length(b) ELSE n
    OBVIOUS
  <1>1. /\ b \in Buffers /\ Cap(b) \in Capacities \cup {0}
        /\ data \in Seq(Bytes \cup {0}) /\ Holds(b, data)
    BY DEF BufferInv, BufferTypeOK
  <1>h. PICK h \in BOOLEAN : h = IF k > 0 THEN FALSE ELSE b.hasUnread
    BY <1>1 DEF Buffers
  <1>o. PICK o : o = [b EXCEPT !.hasUnread = h]
    OBVIOUS
  <1>2. k \in 0..Length(b) /\ Len(data) = Length(b)
    BY <1>1, <1>k, Offsets DEF Holds
  <1>3. /\ o \in Buffers /\ Cap(o) = Cap(b) /\ Length(o) = Length(b) /\ Holds(o, data)
    BY <1>1, <1>o, ForgetState
  <1>4. /\ Consume(o, k) \in Buffers /\ Cap(Consume(o, k)) = Cap(o)
        /\ Holds(Consume(o, k), Take(data, k))
    BY <1>1, <1>2, <1>3, ReadState
  <1>5. Take(data, k) \in Seq(Bytes \cup {0})
    BY <1>1, <1>2, TakeProperties
  <1>6. Becomes(Consume(o, k), Take(data, k))
    BY <1>h, <1>k, <1>o DEF Discard
  <1> QED BY <1>1, <1>3, <1>4, <1>5, <1>6, BecomesStep

LEMMA CommitReadStep ==
    ASSUME BufferInv, ~astray, NEW n \in Nat, CommitRead(n)
    PROVE  BufferInv'
  <1>1. /\ b \in Buffers /\ Cap(b) \in Capacities \cup {0}
        /\ data \in Seq(Bytes \cup {0}) /\ Holds(b, data)
    BY DEF BufferInv, BufferTypeOK
  <1>2. n \in 0..Length(b) /\ Len(data) = Length(b)
    BY <1>1, Offsets DEF Holds, CommitRead
  <1>3. /\ Consume(b, n) \in Buffers /\ Cap(Consume(b, n)) = Cap(b)
        /\ Holds(Consume(b, n), Take(data, n))
    BY <1>1, <1>2, ReadState
  <1>4. Take(data, n) \in Seq(Bytes \cup {0})
    BY <1>1, <1>2, TakeProperties
  <1>5. Becomes(Consume(b, n), Take(data, n))
    BY DEF CommitRead
  <1> QED BY <1>1, <1>3, <1>4, <1>5, BecomesStep

LEMMA WriteToStep ==
    ASSUME BufferInv, ~astray, NEW n \in Nat, WriteTo(n)
    PROVE  BufferInv'
  <1>1. /\ b \in Buffers /\ Cap(b) \in Capacities \cup {0}
        /\ data \in Seq(Bytes \cup {0}) /\ Holds(b, data)
    BY DEF BufferInv, BufferTypeOK
  <1>2. n \in 0..Length(b) /\ Len(data) = Length(b)
    BY <1>1, Offsets DEF Holds, WriteTo
  <1>t. PICK t : t = [b EXCEPT !.r = Wrap(@ + n)]
    OBVIOUS
  <1>3. t \in Buffers /\ Cap(t) = Cap(b) /\ Holds(t, Take(data, n))
    BY <1>1, <1>2, <1>t, ReadState
  <1>4. Take(data, n) \in Seq(Bytes \cup {0})
    BY <1>1, <1>2, TakeProperties
  <1>5. Becomes(t, Take(data, n))
    BY <1>t DEF WriteTo
  <1> QED BY <1>1, <1>3, <1>4, <1>5, BecomesStep

\* A byte that was read is the one UnreadByte would put back: the buffer with r
\* back, and w too if both had moved to 0, holds what it held before.
LEMMA ReadByteStep ==
    ASSUME BufferInv, ~astray, ReadByte
    PROVE  BufferInv'
  <1>1. /\ b \in Buffers /\ Cap(b) \in Capacities \cup {0}
        /\ data \in Seq(Bytes \cup {0}) /\ Holds(b, data)
    BY DEF BufferInv, BufferTypeOK
  <1>2. CASE b.r = b.w
    <2>o. PICK o : o = [b EXCEPT !.hasUnread = FALSE]
      OBVIOUS
    <2>1. o \in Buffers /\ Cap(o) = Cap(b) /\ Holds(o, data)
      BY <1>1, <2>o, ForgetState
    <2>2. Becomes(o, data)
      BY <1>2, <2>o DEF ReadByte
    <2> QED BY <1>1, <2>1, <2>2, BecomesStep
  <1>3. CASE b.r # b.w
    <2>t. PICK t : t = [b EXCEPT !.readPrev = b.r, !.r = Wrap(@ + 1), !.hasUnread = TRUE]
      OBVIOUS
    <2>d. PICK d : d = Take(data, 1)
      OBVIOUS
    <2>1. /\ b' = Normalise(t) /\ data' = d /\ back' = b.buf[Cell(b, b.r)]
          /\ astray' = astray
      BY <1>3, <2>d, <2>t DEF ReadByte
    <2>2. /\ 1 \in 0..Length(b) /\ Len(data) = Length(b) /\ Length(b) \in Nat \ {0}
          /\ b.r \in Word /\ b.w \in Word /\ Cap(b) # 0 /\ Cap(b) \in Nat
          /\ Cell(b, b.r) \in 1..Cap(b)
      BY <1>1, <1>3, Offsets DEF Holds
    <2>3. /\ t \in Buffers /\ t.buf = b.buf /\ t.w = b.w /\ t.r = Wrap(b.r + 1)
          /\ t.readPrev = b.r /\ t.hasUnread = TRUE
      <3>1. Wrap(b.r + 1) \in Word
        <4>1. b.r + 1 \in Nat
          BY <2>2, CapacityFacts DEF Word
        <4> QED BY <4>1, WrapType
      <3> QED BY <1>1, <2>2, <2>t, <3>1 DEF Buffers
    <2>4. Holds(t, d) /\ Cap(t) = Cap(b)
      BY <1>1, <2>2, <2>3, <2>d, HoldsRead DEF Cap
    <2>5. /\ Normalise(t) \in Buffers /\ Holds(Normalise(t), d)
          /\ Normalise(t).buf = b.buf
      BY <1>1, <2>3, <2>4, HoldsNormalised
    <2>6. Cap(Normalise(t)) = Cap(b)
      BY <2>5 DEF Cap
    <2>7. /\ d \in Seq(Bytes \cup {0}) /\ Len(d) = Len(data) - 1
          /\ \A i \in 1..Len(data)-1 : d[i] = data[1+i]
      <3>1. 1 \in 0..Len(data)
        BY <2>2
      <3>2. /\ Take(data, 1) \in Seq(Bytes \cup {0}) /\ Len(Take(data, 1)) = Len(data) - 1
            /\ \A i \in 1..Len(data)-1 : Take(data, 1)[i] = data[1+i]
        BY <1>1, <3>1, TakeProperties
      <3> QED BY <2>d, <3>2
    <2>x. PICK x : x = back'
      OBVIOUS
    <2>8. x = data[1] /\ x \in Bytes \cup {0}
      <3>1. 1 \in 1..Len(data)
        BY <2>2
      <3>2. Place(b, 1) = Cell(b, b.r)
        BY <2>2 DEF Place
      <3>3. b.buf[Place(b, 1)] = data[1]
        BY <1>1, <3>1 DEF Holds
      <3> QED BY <1>1, <2>1, <2>x, <3>1, <3>2, <3>3, ElementOfSeq
    <2>9. <<x>> \o d = data
      <3>1. <<x>> \in Seq(Bytes \cup {0}) /\ Len(<<x>>) = 1 /\ <<x>>[1] = x
        BY <2>8
      <3>2. /\ <<x>> \o d \in Seq(Bytes \cup {0}) /\ Len(<<x>> \o d) = 1 + Len(d)
            /\ \A i \in 1..1+Len(d) : (<<x>> \o d)[i] = IF i <= 1 THEN <<x>>[i] ELSE d[i - 1]
        BY <2>7, <3>1, ConcatProperties
      <3>3. 1 + Len(d) = Len(data)
        BY <2>2, <2>7
      <3>4. ASSUME NEW i \in 1..Len(data)
            PROVE  (<<x>> \o d)[i] = data[i]
        <4>1. CASE i <= 1
          <5>1. i = 1
            BY <2>2, <4>1
          <5> QED BY <2>8, <3>1, <3>2, <3>3, <5>1
        <4>2. CASE ~(i <= 1)
          <5>1. i - 1 \in 1..Len(data)-1 /\ 1 + (i - 1) = i
            BY <2>2, <4>2
          <5> QED BY <2>7, <3>2, <3>3, <4>2, <5>1
        <4> QED BY <4>1, <4>2
      <3> QED BY <1>1, <3>2, <3>3, <3>4, SeqEqual
    <2>u. PICK u : u = Normalise(t)
      OBVIOUS
    <2>10. /\ Unread(u).buf = b.buf /\ Unread(u).r = b.r /\ Unread(u).w = b.w
           /\ u.hasUnread = TRUE
      <3>1. CASE t.r = t.w
        <4>1. /\ u \in Buffers /\ u.buf = b.buf /\ u.r = 0 /\ u.w = 0 /\ u.readPrev = b.r
              /\ u.hasUnread = TRUE
          BY <2>3, <2>u, <3>1, CapacityFacts DEF Normalise, Buffers
        <4>2. Wrap(u.readPrev + 1) = b.w
          BY <2>3, <3>1, <4>1
        <4> QED BY <4>1, <4>2 DEF Unread, Buffers
      <3>2. CASE t.r # t.w
        <4>1. u = t
          BY <2>u, <3>2 DEF Normalise
        <4> QED BY <2>3, <3>2, <4>1 DEF Unread, Buffers
      <3> QED BY <3>1, <3>2
    <2>11. Holds(Unread(u), <<x>> \o d)
      BY <1>1, <2>9, <2>10, HoldsSame
    <2>12. BufferTypeOK'
      BY <1>1, <2>1, <2>5, <2>6, <2>7, <2>8, <2>x DEF BufferTypeOK, BufferInv
    <2>13. Holds(b', data')
      BY <2>1, <2>5
    <2>14. b'.hasUnread /\ Holds(Unread(b'), <<back'>> \o data')
      BY <2>1, <2>10, <2>11, <2>u, <2>x
    <2> QED BY <2>12, <2>13, <2>14 DEF BufferInv
  <1> QED BY <1>2, <1>3

LEMMA UnreadByteStep ==
    ASSUME BufferInv, ~astray, UnreadByte
    PROVE  BufferInv'
  <1>1. /\ b \in Buffers /\ Cap(b) \in Capacities \cup {0}
        /\ data \in Seq(Bytes \cup {0}) /\ back \in Bytes \cup {0, None}
    BY DEF BufferInv, BufferTypeOK
  <1>u. PICK u : u = Unread(b)
    OBVIOUS
  <1>2. /\ b' = u /\ back' = None /\ astray' = (back = None)
        /\ data' = IF back = None THEN data ELSE <<back>> \o data
    BY <1>u DEF UnreadByte
  <1>3. u \in Buffers /\ Cap(u) = Cap(b)
    <2>1. Wrap(b.readPrev + 1) \in Word
      <3>1. b.readPrev + 1 \in Nat
        BY <1>1, CapacityFacts DEF Buffers, Word
      <3> QED BY <3>1, WrapType
    <2> QED BY <1>1, <1>u, <2>1 DEF Unread, Buffers, Cap
  <1>4. data' \in Seq(Bytes \cup {0})
    <2>1. CASE back = None
      BY <1>1, <1>2, <2>1
    <2>2. CASE back # None
      <3>1. <<back>> \in Seq(Bytes \cup {0})
        BY <1>1, <2>2
      <3> QED BY <1>1, <1>2, <2>2, <3>1, ConcatProperties
    <2> QED BY <2>1, <2>2
  <1>5. BufferTypeOK'
    <2>1. astray' \in BOOLEAN
      BY <1>2
    <2> QED BY <1>1, <1>2, <1>3, <1>4, <2>1 DEF BufferTypeOK
  <1>6. ~astray' => Holds(b', data')
    BY <1>2, <1>u DEF BufferInv
  <1> QED BY <1>2, <1>5, <1>6 DEF BufferInv

\* While the caller keeps to its part the buffer holds exactly the bytes put in
\* and not taken out, in cells that go around the end of buf, and UnreadByte
\* would restore what ReadByte took (ring.go: grow, ReadByte, UnreadByte).
THEOREM BufferInductive == BufferSpec => []BufferInv
  <1>1. BufferInv /\ [BufferNext]_bufferVars => BufferInv'
    <2> SUFFICES ASSUME BufferInv, [BufferNext]_bufferVars PROVE BufferInv'
      OBVIOUS
    <2>n. 0..MaxIO \subseteq Nat
      BY SizesAssumption
    <2>1. CASE BufferNext
      <3>a. ~astray
        BY <2>1 DEF BufferNext
      <3>1. CASE Reset
        BY <3>1, <3>a, ResetStep
      <3>2. CASE ReadByte
        BY <3>2, <3>a, ReadByteStep
      <3>3. CASE UnreadByte
        BY <3>3, <3>a, UnreadByteStep
      <3>4. ASSUME NEW p \in Chunks, Write(p)
            PROVE  BufferInv'
        BY <3>4, <3>a, WriteStep
      <3>5. ASSUME NEW p \in Chunks, ReadFrom(p)
            PROVE  BufferInv'
        BY <3>5, <3>a, ReadFromStep
      <3>6. ASSUME NEW p \in Chunks, NEW need \in 0..MaxIO, WriteSegments(need, p)
            PROVE  BufferInv'
        BY <2>n, <3>6, <3>a, WriteSegmentsStep
      <3>7. ASSUME NEW n \in 0..MaxIO, Read(n) \/ Discard(n) \/ CommitRead(n) \/ WriteTo(n)
            PROVE  BufferInv'
        <4>1. n \in Nat
          BY <2>n
        <4> QED BY <3>7, <3>a, <4>1, ReadStep, DiscardStep, CommitReadStep, WriteToStep
      <3> QED BY <2>1, <3>1, <3>2, <3>3, <3>4, <3>5, <3>6, <3>7 DEF BufferNext
    <2>2. CASE UNCHANGED bufferVars
      <3>1. b' = b /\ data' = data /\ back' = back /\ astray' = astray
        BY <2>2 DEF bufferVars
      <3>2. BufferTypeOK'
        BY <3>1 DEF BufferInv, BufferTypeOK
      <3> QED BY <3>1, <3>2 DEF BufferInv
    <2> QED BY <2>1, <2>2
  <1> QED BY <1>1, InitBufferInv, PTL DEF BufferSpec

\* The two-part copy of the whole buffer gives the caller's bytes, across the
\* end of buf, growths, offsets that wrap at the word and UnreadByte.
THEOREM BufferContentsKept == BufferSpec => []ContentsKept
  <1>1. BufferInv => ContentsKept
    <2> SUFFICES ASSUME BufferInv PROVE ContentsKept
      OBVIOUS
    <2>1. BufferTypeOK
      BY DEF BufferInv
    <2>2. ASSUME ~astray
          PROVE  CopyOut(b, Length(b)) = data
      <3>1. /\ b \in Buffers /\ Cap(b) \in Capacities \cup {0}
            /\ data \in Seq(Bytes \cup {0}) /\ Holds(b, data)
        BY <2>2 DEF BufferInv, BufferTypeOK
      <3>2. Length(b) = Len(data) /\ Len(data) \in 0..Len(data)
        BY <3>1 DEF Holds
      <3>3. CopyOut(b, Len(data)) = SubSeq(data, 1, Len(data))
        BY <3>1, <3>2, CopyOutShows
      <3> QED BY <3>1, <3>2, <3>3, SubSeqFull
    <2> QED BY <2>1, <2>2 DEF ContentsKept
  <1> QED BY <1>1, BufferInductive, PTL

\* Peek, PeekSegments and ReadableSegments show the same bytes, and
\* WritableSegments hands out all the other cells, in the order Write uses them.
THEOREM BufferViewsAgree == BufferSpec => []ViewsAgree
  <1>1. BufferInv => ViewsAgree
    <2> SUFFICES ASSUME BufferInv, ~astray
                 PROVE  /\ PeekSegments(b) = data
                        /\ \A n \in 0 .. Len(data) + 1 :
                             LET front == SubSeq(data, 1, IF n > Len(data) THEN Len(data) ELSE n)
                             IN Peek(b, n) = front /\ ReadableSegments(b, n) = front
                        /\ b.r # b.w \/ Cell(b, b.w) = 1
                             => WritableCells(b) = WriteCells(b, Free(b))
      BY DEF ViewsAgree
    <2>1. /\ b \in Buffers /\ Cap(b) \in Capacities \cup {0}
          /\ data \in Seq(Bytes \cup {0}) /\ Holds(b, data)
      BY DEF BufferInv, BufferTypeOK
    <2>2. PeekSegments(b) = data
      BY <2>1, PeekSegmentsShow
    <2>3. ASSUME NEW n \in 0..Len(data)+1
          PROVE  LET front == SubSeq(data, 1, IF n > Len(data) THEN Len(data) ELSE n)
                 IN Peek(b, n) = front /\ ReadableSegments(b, n) = front
      <3>1. n \in Nat
        BY <2>1
      <3> QED BY <2>1, <3>1, PeekShows, ReadableSegmentsShow
    <2>4. b.r # b.w \/ Cell(b, b.w) = 1 => WritableCells(b) = WriteCells(b, Free(b))
      <3>1. Length(b) <= Cap(b)
        BY <2>1 DEF Holds
      <3> QED BY <2>1, <3>1, WritableAreFree
    <2> QED BY <2>2, <2>3, <2>4
  <1> QED BY <1>1, BufferInductive, PTL

=============================================================================
