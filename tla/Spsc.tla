-------------------------------- MODULE Spsc --------------------------------
(***************************************************************************)
(* spsc.Ring (src/spsc/ring.go): a wait-free ring for one producer and one *)
(* consumer.  Every atomic load and store of Push, Pop and Len is a step.  *)
(*                                                                         *)
(* tail is written only by the producer and head only by the consumer, so  *)
(* the local copies t and h of the code always equal them and are not kept.*)
(* The counters are natural numbers: 2^64 pushes do not happen, and Size   *)
(* divides 2^64, so t & mask is t % Size.                                  *)
(***************************************************************************)
EXTENDS Naturals, Sequences

CONSTANTS Size,     \* len(r.buf)
          Value,    \* the values pushed
          Zero,     \* Go's zero value of the element type
          MaxSeq    \* bound: number of pushes explored

ASSUME SizeAssumption == Size \in Nat /\ Size >= 2
ASSUME MaxSeqAssumption == MaxSeq \in Nat
ASSUME ZeroAssumption == Zero \notin Value

VARIABLES
    buf,         \* r.buf
    tail,        \* r.tail: the next sequence number to write
    head,        \* r.head: the next sequence number to read
    cachedHead,  \* the producer's last view of head
    cachedTail,  \* the consumer's last view of tail
    ppc,         \* where the producer is in Push
    push,        \* the producer's call: status and argument
    cpc,         \* where the consumer is in Pop
    pop,         \* the consumer's call: status and result
    popVal,      \* Pop's local variable val
    opc,         \* where an observer is in Len
    lenTail,     \* Len's local variable t
    lenRes       \* what Len last returned

prodVars == <<tail, cachedHead, ppc, push>>
consVars == <<head, cachedTail, cpc, pop, popVal>>
obsVars == <<opc, lenTail, lenRes>>
vars == <<buf, prodVars, consVars, obsVars>>

Idx(seq) == seq % Size

TypeOK ==
    /\ buf \in [0..Size-1 -> Value \cup {Zero}]
    /\ tail \in 0..MaxSeq
    /\ head \in Nat
    /\ cachedHead \in Nat
    /\ cachedTail \in Nat
    /\ ppc \in {"idle", "check", "refresh", "write", "publish"}
    /\ push \in [st : {"busy", "ok", "full"}, val : Value \cup {Zero}]
    /\ cpc \in {"idle", "check", "refresh", "read", "clear", "publish"}
    /\ pop \in [st : {"busy", "ok", "empty"}, val : Value \cup {Zero}]
    /\ popVal \in Value \cup {Zero}
    /\ opc \in {"idle", "head"}
    /\ lenTail \in Nat
    /\ lenRes \in Nat

Init ==
    /\ buf = [i \in 0..Size-1 |-> Zero]
    /\ tail = 0 /\ head = 0
    /\ cachedHead = 0 /\ cachedTail = 0
    /\ ppc = "idle" /\ push = [st |-> "ok", val |-> Zero]
    /\ cpc = "idle" /\ pop = [st |-> "ok", val |-> Zero]
    /\ popVal = Zero
    /\ opc = "idle" /\ lenTail = 0 /\ lenRes = 0

-----------------------------------------------------------------------------
(* Push *)

PushBegin(v) ==
    /\ ppc = "idle"
    /\ tail < MaxSeq
    /\ ppc' = "check"
    /\ push' = [st |-> "busy", val |-> v]
    /\ UNCHANGED <<buf, tail, cachedHead, consVars, obsVars>>

\* Mutant of PushCheck: the test lets one value too many in.
PushCheckOffByOne ==
    /\ ppc = "check"
    /\ ppc' = IF tail - cachedHead > Size THEN "refresh" ELSE "write"
    /\ UNCHANGED <<buf, tail, cachedHead, push, consVars, obsVars>>

\* The fast path: is there room in view of the cached head?
PushCheck ==
    /\ ppc = "check"
    /\ ppc' = IF tail - cachedHead >= Size THEN "refresh" ELSE "write"
    /\ UNCHANGED <<buf, tail, cachedHead, push, consVars, obsVars>>

\* Mutant of PushRefresh: one slot is kept free, so "full" comes too early.
PushRefreshEarlyFull ==
    /\ ppc = "refresh"
    /\ cachedHead' = head
    /\ IF tail - head >= Size - 1
       THEN ppc' = "idle" /\ push' = [st |-> "full", val |-> push.val]
       ELSE ppc' = "write" /\ UNCHANGED push
    /\ UNCHANGED <<buf, tail, consVars, obsVars>>

\* Mutant of PushRefresh: the second test lets one value too many in.
PushRefreshOffByOne ==
    /\ ppc = "refresh"
    /\ cachedHead' = head
    /\ IF tail - head > Size
       THEN ppc' = "idle" /\ push' = [st |-> "full", val |-> push.val]
       ELSE ppc' = "write" /\ UNCHANGED push
    /\ UNCHANGED <<buf, tail, consVars, obsVars>>

\* r.cachedHead = r.head.Load(), then the second test.
PushRefresh ==
    /\ ppc = "refresh"
    /\ cachedHead' = head
    /\ IF tail - head >= Size
       THEN ppc' = "idle" /\ push' = [st |-> "full", val |-> push.val]
       ELSE ppc' = "write" /\ UNCHANGED push
    /\ UNCHANGED <<buf, tail, consVars, obsVars>>

PushWrite ==
    /\ ppc = "write"
    /\ buf' = [buf EXCEPT ![Idx(tail)] = push.val]
    /\ ppc' = "publish"
    /\ UNCHANGED <<tail, cachedHead, push, consVars, obsVars>>

\* r.tail.Store(t + 1)
PushPublish ==
    /\ ppc = "publish"
    /\ tail' = tail + 1
    /\ ppc' = "idle"
    /\ push' = [st |-> "ok", val |-> push.val]
    /\ UNCHANGED <<buf, cachedHead, consVars, obsVars>>

-----------------------------------------------------------------------------
(* Pop *)

PopBegin ==
    /\ cpc = "idle"
    /\ cpc' = "check"
    /\ pop' = [st |-> "busy", val |-> Zero]
    /\ UNCHANGED <<buf, head, cachedTail, popVal, prodVars, obsVars>>

PopCheck ==
    /\ cpc = "check"
    /\ cpc' = IF head = cachedTail THEN "refresh" ELSE "read"
    /\ UNCHANGED <<buf, head, cachedTail, pop, popVal, prodVars, obsVars>>

\* Mutant of PopRefresh: the cached tail is tested but never refreshed.
PopRefreshForgotten ==
    /\ cpc = "refresh"
    /\ cpc' = "idle" /\ pop' = [st |-> "empty", val |-> Zero]
    /\ UNCHANGED <<buf, head, cachedTail, popVal, prodVars, obsVars>>

\* r.cachedTail = r.tail.Load(), then the second test.
PopRefresh ==
    /\ cpc = "refresh"
    /\ cachedTail' = tail
    /\ IF head = tail
       THEN cpc' = "idle" /\ pop' = [st |-> "empty", val |-> Zero]
       ELSE cpc' = "read" /\ UNCHANGED pop
    /\ UNCHANGED <<buf, head, popVal, prodVars, obsVars>>

PopRead ==
    /\ cpc = "read"
    /\ popVal' = buf[Idx(head)]
    /\ cpc' = "clear"
    /\ UNCHANGED <<buf, head, cachedTail, pop, prodVars, obsVars>>

\* Mutant of PopClear: the popped slot is not zeroed.
PopClearForgotten ==
    /\ cpc = "clear"
    /\ cpc' = "publish"
    /\ UNCHANGED <<buf, head, cachedTail, pop, popVal, prodVars, obsVars>>

\* The slot is zeroed so that the ring keeps no pointer alive.
PopClear ==
    /\ cpc = "clear"
    /\ buf' = [buf EXCEPT ![Idx(head)] = Zero]
    /\ cpc' = "publish"
    /\ UNCHANGED <<head, cachedTail, pop, popVal, prodVars, obsVars>>

\* r.head.Store(h + 1)
PopPublish ==
    /\ cpc = "publish"
    /\ head' = head + 1
    /\ cpc' = "idle"
    /\ pop' = [st |-> "ok", val |-> popVal]
    /\ popVal' = Zero
    /\ UNCHANGED <<buf, cachedTail, prodVars, obsVars>>

-----------------------------------------------------------------------------
(* Len, called by any goroutine: tail is loaded first, then head. *)

LenLoadTail ==
    /\ opc = "idle"
    /\ lenTail' = tail
    /\ opc' = "head"
    /\ UNCHANGED <<buf, lenRes, prodVars, consVars>>

\* Mutant of LenLoadHead: no test for a head that has overtaken the loaded tail.
LenLoadHeadUnchecked ==
    /\ opc = "head"
    /\ lenRes' = lenTail - head
    /\ opc' = "idle"
    /\ lenTail' = 0
    /\ UNCHANGED <<buf, prodVars, consVars>>

LenLoadHead ==
    /\ opc = "head"
    /\ lenRes' = IF lenTail >= head THEN lenTail - head ELSE 0
    /\ opc' = "idle"
    /\ lenTail' = 0
    /\ UNCHANGED <<buf, prodVars, consVars>>

-----------------------------------------------------------------------------

Push == (\E v \in Value : PushBegin(v)) \/ PushCheck \/ PushRefresh
            \/ PushWrite \/ PushPublish
Pop == PopBegin \/ PopCheck \/ PopRefresh \/ PopRead \/ PopClear \/ PopPublish
LenOp == LenLoadTail \/ LenLoadHead

Next == Push \/ Pop \/ LenOp

\* The consumer keeps polling and the producer finishes a call it has begun:
\* the Go scheduler starves no runnable goroutine, and Push and Pop never wait.
Fairness ==
    /\ WF_vars(Pop)
    /\ WF_vars(PushCheck \/ PushRefresh \/ PushWrite \/ PushPublish)

Spec == Init /\ [][Next]_vars

FairSpec == Spec /\ Fairness

-----------------------------------------------------------------------------
(* Properties *)

\* The producer never writes the slot that the consumer is reading or zeroing:
\* buf itself is not atomic, so Push's write and Pop's read and zeroing of one
\* slot at the same time would be a data race.
NoSlotRace ==
    (ppc = "write" /\ cpc \in {"read", "clear"}) => Idx(tail) # Idx(head)

\* Both sides work from stale copies of the other's counter, but a stale copy
\* is always on the safe side: Push sees no more room than there is, Pop sees
\* no value that has not been published.
CachedViewsSafe ==
    /\ cachedHead <= head
    /\ head <= cachedTail
    /\ cachedTail <= tail
    /\ tail <= cachedHead + Size

\* Slots outside [head, tail) hold the zero value once the calls that write
\* them have finished: no popped value is kept reachable by the ring.
FreeSlotsZeroed ==
    \A i \in 0..Size-1 :
        buf[i] = Zero
        \/ \E k \in head..tail : i = Idx(k) /\ (k < tail \/ ppc = "publish")

\* Len's two loads are not one instant, yet it never reports more than Cap:
\* tail is loaded before head.
LenWithinCap == lenRes <= Size

\* The value with sequence number k, as an observer of the queue would see it:
\* in its slot, or already in Pop's hands while the slot is being zeroed.
Item(k) == IF k = head /\ cpc = "publish" THEN popVal ELSE buf[Idx(k)]

Queue == [i \in 1..(tail - head) |-> Item(head + i - 1)]

Fifo == INSTANCE BoundedFifo
            WITH Cap <- Size, q <- Queue, push <- push, pop <- pop

\* The ring implements the bounded FIFO queue: Push takes effect when tail is
\* stored, Pop when head is stored, and "full" and "empty" are only answered
\* at an instant (the refresh of the cached counter) when they are true.
ImplementsFifo == Fifo!FifoSpec

\* Every published value is popped as long as the consumer keeps polling: a
\* stale cachedTail never hides a value for good.
EveryPushPopped == \A k \in 0..MaxSeq : (tail > k) ~> (head > k)
=============================================================================
