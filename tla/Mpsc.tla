-------------------------------- MODULE Mpsc --------------------------------
(***************************************************************************)
(* mpsc.Ring (src/mpsc/ring.go): many producers reserve tickets with a CAS *)
(* on tail, fill the slot of their ticket and wait for the verdict; one    *)
(* consumer drains ready slots in ticket order and commits them.  Every    *)
(* atomic operation and every channel operation is a step; the fields val  *)
(* and err, which only the owner of a slot touches, change together with   *)
(* the atomic store that hands the slot over.                              *)
(*                                                                         *)
(* A producer waits for its ticket before it enqueues again: a goroutine   *)
(* with several tickets in flight is several producers.  The consumer      *)
(* alternates Drain and Commit.  A goroutine started by WaitContext to     *)
(* clean up after a cancelled wait is a ticket in orphans.                 *)
(***************************************************************************)
EXTENDS Integers, Sequences

CONSTANTS Size,       \* len(r.slots)
          Producers,
          FnErrs,     \* the errors Drain's fn may return
          BatchErrs,  \* the errors Commit may be given
          NoErr,      \* nil
          SpinLimit,  \* 64 in Enqueue
          MaxSeq      \* bound: Enqueue is not called once tail is MaxSeq

ASSUME SizeAssumption == Size \in Nat \ {0}
ASSUME SpinLimitAssumption == SpinLimit \in Nat

VARIABLES
    tail, head,       \* r.tail and r.head
    st,               \* state of each slot
    val,              \* val of each slot: the producer stands for its value
    err,              \* err of each slot
    done,             \* number of signals in each slot's done channel
    pc, t, spin,      \* each producer: position, ticket (local t), spin count
    res,              \* what the producer's last call returned
    orphans,          \* tickets with a cleanup goroutine parked on done
    reclaims,         \* tickets whose cleanup goroutine has the signal
    cpc, ch, ct, ci,  \* consumer: position, locals h and t of Drain, Commit's i
    batchErr,         \* Commit's argument
    tkt,              \* auxiliary: the ticket each slot is filled for, or NoTicket
    log               \* auxiliary: what became of each ticket

slotVars == <<st, val, err, done, tkt>>
prodVars == <<pc, t, spin, res>>
consVars == <<cpc, ch, ct, ci, batchErr>>
cleanVars == <<orphans, reclaims>>
vars == <<tail, head, slotVars, prodVars, consVars, cleanVars, log>>

Slots == 0..Size-1
Idx(seq) == seq % Size
NoVal == "zero"
NoTicket == -1
AllErrs == FnErrs \cup BatchErrs \cup {NoErr}
Outcomes == AllErrs \cup {"full", "cancelled"}

TypeOK ==
    /\ tail \in Nat /\ head \in Nat
    /\ st \in [Slots -> {"free", "fill", "ready", "drained"}]
    /\ val \in [Slots -> Producers \cup {NoVal}]
    /\ err \in [Slots -> AllErrs]
    /\ done \in [Slots -> {0, 1}]
    /\ tkt \in [Slots -> Nat \cup {NoTicket}]
    /\ pc \in [Producers -> {"idle", "load", "check", "cas", "slot", "fill",
                             "wait", "got", "drop"}]
    /\ t \in [Producers -> Nat]
    /\ spin \in [Producers -> 0..SpinLimit+1]
    /\ res \in [Producers -> Outcomes]
    /\ orphans \subseteq Nat /\ reclaims \subseteq Nat
    /\ cpc \in {"idle", "scan", "commit"}
    /\ ch \in Nat /\ ct \in Nat /\ ci \in Nat
    /\ batchErr \in BatchErrs \cup {NoErr}

Init ==
    /\ tail = 0 /\ head = 0
    /\ st = [s \in Slots |-> "free"]
    /\ val = [s \in Slots |-> NoVal]
    /\ err = [s \in Slots |-> NoErr]
    /\ done = [s \in Slots |-> 0]
    /\ tkt = [s \in Slots |-> NoTicket]
    /\ pc = [p \in Producers |-> "idle"]
    /\ t = [p \in Producers |-> 0]
    /\ spin = [p \in Producers |-> 0]
    /\ res = [p \in Producers |-> NoErr]
    /\ orphans = {} /\ reclaims = {}
    /\ cpc = "idle" /\ ch = 0 /\ ct = 0 /\ ci = 0
    /\ batchErr = NoErr
    /\ log = <<>>

-----------------------------------------------------------------------------
(* Enqueue *)

Goto(p, l) == pc' = [pc EXCEPT ![p] = l]

\* A call returns r: its local variables are gone.
ReturnWith(p, r) ==
    /\ Goto(p, "idle")
    /\ res' = [res EXCEPT ![p] = r]
    /\ t' = [t EXCEPT ![p] = 0]
    /\ spin' = [spin EXCEPT ![p] = 0]

\* spin++, saturating: only spin > SpinLimit is ever asked.
Respin(p) ==
    spin' = [spin EXCEPT ![p] = IF @ > SpinLimit THEN @ ELSE @ + 1]

\* The call and its first load of tail.
EnqueueBegin(p) ==
    /\ pc[p] = "idle"
    /\ tail < MaxSeq
    /\ t' = [t EXCEPT ![p] = tail]
    /\ Goto(p, "check")
    /\ res' = [res EXCEPT ![p] = NoErr]
    /\ UNCHANGED <<tail, head, slotVars, spin, consVars, cleanVars, log>>

EnqueueLoad(p) ==
    /\ pc[p] = "load"
    /\ t' = [t EXCEPT ![p] = tail]
    /\ Goto(p, "check")
    /\ UNCHANGED <<tail, head, slotVars, spin, res, consVars, cleanVars, log>>

\* Mutant of LooksFull: one ticket more than there are slots.
LooksFullOffByOne(tl, h) == h > tl \/ tl - h > Size

\* t-h >= len(r.slots) on uint64: a head that has passed the loaded tail makes
\* the difference wrap around and the ring look full.
LooksFull(tl, h) == h > tl \/ tl - h >= Size

EnqueueCheck(p) ==
    /\ pc[p] = "check"
    /\ IF ~LooksFull(t[p], head)
       THEN Goto(p, "cas") /\ UNCHANGED <<spin, res, t>>
       ELSE IF spin[p] > SpinLimit
            THEN ReturnWith(p, "full")
            ELSE Goto(p, "load") /\ Respin(p) /\ UNCHANGED <<res, t>>
    /\ UNCHANGED <<tail, head, slotVars, consVars, cleanVars, log>>

EnqueueCas(p) ==
    /\ pc[p] = "cas"
    /\ IF tail = t[p]
       THEN /\ tail' = tail + 1
            /\ Goto(p, "slot")
            /\ log' = Append(log, [val |-> p, st |-> "queued", err |-> NoErr])
            /\ spin' = [spin EXCEPT ![p] = 0]
       ELSE Goto(p, "load") /\ Respin(p) /\ UNCHANGED <<tail, log>>
    /\ UNCHANGED <<head, slotVars, t, res, consVars, cleanVars>>

\* Mutant of EnqueueSlot: the slot is taken without waiting for it to be free.
EnqueueSlotNoWait(p) ==
    /\ pc[p] = "slot"
    /\ st' = [st EXCEPT ![Idx(t[p])] = "fill"]
    /\ tkt' = [tkt EXCEPT ![Idx(t[p])] = t[p]]
    /\ Goto(p, "fill")
    /\ UNCHANGED <<tail, head, val, err, done, t, spin, res, consVars,
                   cleanVars, log>>

\* The loop on s.state.Load() != sFree, and s.state.Store(sFill).
EnqueueSlot(p) ==
    /\ pc[p] = "slot"
    /\ st[Idx(t[p])] = "free"
    /\ st' = [st EXCEPT ![Idx(t[p])] = "fill"]
    /\ tkt' = [tkt EXCEPT ![Idx(t[p])] = t[p]]
    /\ Goto(p, "fill")
    /\ UNCHANGED <<tail, head, val, err, done, t, spin, res, consVars,
                   cleanVars, log>>

\* The value, the residual signal drained, and s.state.Store(sReady).
EnqueuePublish(p) ==
    /\ pc[p] = "fill"
    /\ val' = [val EXCEPT ![Idx(t[p])] = p]
    /\ err' = [err EXCEPT ![Idx(t[p])] = NoErr]
    /\ done' = [done EXCEPT ![Idx(t[p])] = 0]
    /\ st' = [st EXCEPT ![Idx(t[p])] = "ready"]
    /\ Goto(p, "wait")
    /\ UNCHANGED <<tail, head, tkt, t, spin, res, consVars, cleanVars, log>>

-----------------------------------------------------------------------------
(* Wait and WaitContext *)

\* <-s.done, on whichever of the paths of Wait or WaitContext it succeeds.
WaitRecv(p) ==
    /\ pc[p] = "wait"
    /\ done[Idx(t[p])] = 1
    /\ done' = [done EXCEPT ![Idx(t[p])] = 0]
    /\ Goto(p, "got")
    /\ UNCHANGED <<tail, head, st, val, err, tkt, t, spin, res, consVars,
                   cleanVars, log>>

\* The slot's fields are cleared and s.state.Store(sFree) releases it.
FreeSlot(k) ==
    /\ val' = [val EXCEPT ![Idx(k)] = NoVal]
    /\ err' = [err EXCEPT ![Idx(k)] = NoErr]
    /\ st' = [st EXCEPT ![Idx(k)] = "free"]
    /\ tkt' = [tkt EXCEPT ![Idx(k)] = NoTicket]
    /\ log' = [log EXCEPT ![k+1] = [val |-> NoErr, st |-> "closed", err |-> NoErr]]

WaitReturn(p) ==
    /\ pc[p] = "got"
    /\ ReturnWith(p, err[Idx(t[p])])
    /\ FreeSlot(t[p])
    /\ UNCHANGED <<tail, head, done, consVars, cleanVars>>

\* Mutant of WaitCancel: a cancelled wait frees the slot at once.
WaitCancelFrees(p) ==
    /\ pc[p] = "wait"
    /\ FreeSlot(t[p])
    /\ ReturnWith(p, "cancelled")
    /\ UNCHANGED <<tail, head, done, consVars, cleanVars>>

\* Mutant of WaitCancel: no goroutine is started to clean up.
WaitCancelLeaks(p) ==
    /\ pc[p] = "wait"
    /\ done[Idx(t[p])] = 0
    /\ ReturnWith(p, "cancelled")
    /\ UNCHANGED <<tail, head, slotVars, consVars, cleanVars, log>>

\* WaitContext takes <-ctx.Done(): it receives a signal that is there, or
\* leaves the slot to a goroutine of its own.
WaitCancel(p) ==
    /\ pc[p] = "wait"
    /\ IF done[Idx(t[p])] = 1
       THEN /\ done' = [done EXCEPT ![Idx(t[p])] = 0]
            /\ Goto(p, "drop")
            /\ UNCHANGED <<orphans, res, t, spin>>
       ELSE /\ orphans' = orphans \cup {t[p]}
            /\ ReturnWith(p, "cancelled")
            /\ UNCHANGED done
    /\ UNCHANGED <<tail, head, st, val, err, tkt, consVars, reclaims, log>>

WaitDrop(p) ==
    /\ pc[p] = "drop"
    /\ FreeSlot(t[p])
    /\ ReturnWith(p, "cancelled")
    /\ UNCHANGED <<tail, head, done, consVars, cleanVars>>

OrphanRecv(k) ==
    /\ done[Idx(k)] = 1
    /\ done' = [done EXCEPT ![Idx(k)] = 0]
    /\ orphans' = orphans \ {k}
    /\ reclaims' = reclaims \cup {k}
    /\ UNCHANGED <<tail, head, st, val, err, tkt, prodVars, consVars, log>>

OrphanFree(k) ==
    /\ FreeSlot(k)
    /\ reclaims' = reclaims \ {k}
    /\ UNCHANGED <<tail, head, done, prodVars, consVars, orphans>>

-----------------------------------------------------------------------------
(* Drain and Commit *)

DrainBegin ==
    /\ cpc = "idle"
    /\ ch' = head /\ ct' = tail /\ ci' = head
    /\ cpc' = "scan"
    /\ UNCHANGED <<tail, head, slotVars, prodVars, batchErr, cleanVars, log>>

Drainable == ch < ct /\ st[Idx(ch)] = "ready"

\* One round of Drain's loop: s.err = fn(&s.val), s.state.Store(sDrained).
DrainItem(e) ==
    /\ cpc = "scan"
    /\ Drainable
    /\ err' = [err EXCEPT ![Idx(ch)] = e]
    /\ st' = [st EXCEPT ![Idx(ch)] = "drained"]
    /\ ch' = ch + 1
    /\ log' = [log EXCEPT ![ch+1] = [val |-> val[Idx(ch)], st |-> "drained",
                                     err |-> e]]
    /\ UNCHANGED <<tail, head, val, done, tkt, prodVars, cpc, ct, ci, batchErr,
                   cleanVars>>

\* The loop ends, r.head.Store(h), and the caller has flushed the batch.
DrainEnd(e) ==
    /\ cpc = "scan"
    /\ ~Drainable
    /\ head' = ch
    /\ batchErr' = e
    /\ ct' = 0
    /\ cpc' = "commit"
    /\ UNCHANGED <<tail, slotVars, prodVars, ch, ci, cleanVars, log>>

\* Mutant of CommitItem: the batch's error does not replace the item's own.
CommitItemKeepsError ==
    /\ cpc = "commit"
    /\ ci < ch
    /\ done[Idx(ci)] = 0
    /\ done' = [done EXCEPT ![Idx(ci)] = 1]
    /\ err' = [err EXCEPT ![Idx(ci)] = IF @ = NoErr THEN batchErr ELSE @]
    /\ log' = [log EXCEPT ![ci+1] =
                   [@ EXCEPT !.st = "decided",
                             !.err = IF batchErr # NoErr THEN batchErr
                                     ELSE log[ci+1].err]]
    /\ ci' = ci + 1
    /\ UNCHANGED <<tail, head, st, val, tkt, prodVars, cpc, ch, ct, batchErr,
                   cleanVars>>

\* One round of Commit's loop; the send blocks while the channel is full.
CommitItem ==
    /\ cpc = "commit"
    /\ ci < ch
    /\ done[Idx(ci)] = 0
    /\ done' = [done EXCEPT ![Idx(ci)] = 1]
    /\ err' = [err EXCEPT ![Idx(ci)] = IF batchErr # NoErr THEN batchErr ELSE @]
    /\ log' = [log EXCEPT ![ci+1] =
                   [@ EXCEPT !.st = "decided",
                             !.err = IF batchErr # NoErr THEN batchErr
                                     ELSE log[ci+1].err]]
    /\ ci' = ci + 1
    /\ UNCHANGED <<tail, head, st, val, tkt, prodVars, cpc, ch, ct, batchErr,
                   cleanVars>>

\* Mutant of CommitEnd: the last item of the batch is not signalled.
CommitEndEarly ==
    /\ cpc = "commit"
    /\ ci + 1 >= ch
    /\ cpc' = "idle"
    /\ batchErr' = NoErr
    /\ UNCHANGED <<tail, head, slotVars, prodVars, ch, ct, ci, cleanVars, log>>

CommitEnd ==
    /\ cpc = "commit"
    /\ ci = ch
    /\ cpc' = "idle"
    /\ batchErr' = NoErr
    /\ UNCHANGED <<tail, head, slotVars, prodVars, ch, ct, ci, cleanVars, log>>

-----------------------------------------------------------------------------

Enqueue(p) == \/ EnqueueLoad(p) \/ EnqueueCheck(p) \/ EnqueueCas(p)
              \/ EnqueueSlot(p) \/ EnqueuePublish(p)
Wait(p) == WaitRecv(p) \/ WaitReturn(p) \/ WaitDrop(p)
Orphan == (\E k \in orphans : OrphanRecv(k)) \/ (\E k \in reclaims : OrphanFree(k))
Consumer == \/ DrainBegin
            \/ \E e \in FnErrs \cup {NoErr} : DrainItem(e)
            \/ \E e \in BatchErrs \cup {NoErr} : DrainEnd(e)
            \/ CommitItem
            \/ CommitEnd

Next == \/ \E p \in Producers : \/ EnqueueBegin(p) \/ Enqueue(p)
                                \/ Wait(p) \/ WaitCancel(p)
        \/ Orphan
        \/ Consumer

\* Goroutines that can run do run, and the consumer keeps draining; nothing
\* obliges a producer to enqueue or a context to be cancelled.
Fairness ==
    /\ \A p \in Producers : WF_vars(Enqueue(p)) /\ WF_vars(Wait(p))
    /\ WF_vars(Orphan)
    /\ WF_vars(Consumer)

Spec == Init /\ [][Next]_vars

FairSpec == Spec /\ Fairness

-----------------------------------------------------------------------------
(* Properties *)

\* The tickets whose slot is in the hands of a producer from the moment it has
\* claimed the slot until the slot is freed, and of cleanup goroutines.
Holding(p) == pc[p] \in {"fill", "wait", "got", "drop"}
Held == {t[p] : p \in {q \in Producers : Holding(q)}} \cup orphans \cup reclaims

\* Stale loads of head and the CAS on tail never reserve more tickets than the
\* ring has slots.
ReservationBound == tail - head <= Size

\* A slot has one owner: no two holders of tickets share a slot, and a slot
\* that nobody holds is free, cleared and without a signal.
OneOwnerPerSlot ==
    /\ \A p, q \in Producers :
           p # q /\ Holding(p) /\ Holding(q) => Idx(t[p]) # Idx(t[q])
    /\ \A p \in Producers : Holding(p) =>
           \A k \in orphans \cup reclaims : Idx(k) # Idx(t[p])
    /\ \A j, k \in orphans \cup reclaims : j # k => Idx(j) # Idx(k)
    /\ orphans \cap reclaims = {}
    /\ \A s \in Slots :
           (st[s] = "free") <=> ~\E k \in Held : Idx(k) = s

\* A producer that spins for a slot is the only one that spins for it, and the
\* ticket that still occupies it is the one of the lap before.
OneSpinnerPerSlot ==
    \A p \in Producers : pc[p] = "slot" =>
        /\ \A q \in Producers : q # p /\ pc[q] \in {"slot", "fill"} =>
               Idx(t[p]) # Idx(t[q])
        /\ \A k \in Held : Idx(k) = Idx(t[p]) => k = t[p] - Size

\* The consumer never blocks in Commit on a full done channel, and Enqueue
\* never meets a signal of the lap before (which its defensive drain would
\* swallow).
SignalFits ==
    /\ (cpc = "commit" /\ ci < ch) => done[Idx(ci)] = 0
    /\ \A p \in Producers : pc[p] = "fill" => done[Idx(t[p])] = 0

\* A slot that no one owns keeps neither value nor error reachable.
FreeSlotsCleared ==
    \A s \in Slots : st[s] = "free" =>
        val[s] = NoVal /\ err[s] = NoErr /\ done[s] = 0

-----------------------------------------------------------------------------
(* The inductive invariant behind them *)

\* A producer between its successful CAS and the release of its slot.
Ticketed(p) == pc[p] \in {"slot", "fill", "wait", "got", "drop"}

\* The consumer's counters.  ch is where draining has got to, ci where
\* committing has; the tickets in between are drained and unsignalled.
ConsumerInv ==
    /\ head <= ch /\ ch <= tail /\ ct <= tail /\ ci <= ch
    /\ cpc # "scan" => head = ch
    /\ cpc # "commit" => ci = head
    /\ cpc = "idle" => ci = ch
    /\ tail <= head + Size
    /\ \A k \in ci..ch-1 : tkt[Idx(k)] = k /\ done[Idx(k)] = 0

\* A CAS that succeeds reserves a ticket within one lap of head.
CasInv == \A p \in Producers : pc[p] = "cas" => t[p] < head + Size

\* No ticket is in two hands.
TicketInv ==
    /\ \A p \in Producers : Ticketed(p) =>
           t[p] < tail /\ t[p] \notin orphans /\ t[p] \notin reclaims
    /\ \A p, q \in Producers : Ticketed(p) /\ Ticketed(q) /\ p # q => t[p] # t[q]
    /\ \A k \in orphans : k < tail /\ k \notin reclaims
    /\ \A k \in reclaims : k < tail

\* The slot of a ticket somebody waits for, and of one whose signal is taken.
WaitedSlot(k) ==
    /\ tkt[Idx(k)] = k
    /\ st[Idx(k)] = IF k < ch THEN "drained" ELSE "ready"
    /\ done[Idx(k)] = IF k < ci THEN 1 ELSE 0
SignalledSlot(k) ==
    /\ tkt[Idx(k)] = k
    /\ st[Idx(k)] = "drained"
    /\ done[Idx(k)] = 0
    /\ k < ci

\* What each holder knows of the slot of its ticket.
HolderInv ==
    /\ \A p \in Producers :
           /\ pc[p] = "slot" => ch <= t[p] /\ tkt[Idx(t[p])] # t[p]
           /\ pc[p] = "fill" => /\ ch <= t[p]
                                /\ tkt[Idx(t[p])] = t[p]
                                /\ st[Idx(t[p])] = "fill"
           /\ pc[p] = "wait" => WaitedSlot(t[p])
           /\ pc[p] \in {"got", "drop"} => SignalledSlot(t[p])
    /\ \A k \in orphans : WaitedSlot(k)
    /\ \A k \in reclaims : SignalledSlot(k)

\* What the state of a slot says about the ticket it is filled for.
SlotInv ==
    \A s \in Slots :
        /\ st[s] = "free" <=> tkt[s] = NoTicket
        /\ st[s] # "free" => /\ Idx(tkt[s]) = s
                             /\ tkt[s] < tail
                             /\ ch <= tkt[s] + Size
        /\ st[s] \in {"fill", "ready"} => ch <= tkt[s]
        /\ st[s] = "drained" => tkt[s] < ch
        /\ done[s] = 1 => st[s] = "drained" /\ tkt[s] < ci

\* Every slot that is not free has somebody who will free it.
OwnedInv ==
    \A s \in Slots : st[s] # "free" =>
        \/ tkt[s] \in orphans \cup reclaims
        \/ \E p \in Producers : Holding(p) /\ t[p] = tkt[s]

\* Counters, tickets and slots always agree on who owns which slot.
RingInv == /\ TypeOK /\ ConsumerInv /\ CasInv /\ TicketInv
           /\ HolderInv /\ SlotInv /\ OwnedInv /\ FreeSlotsCleared

\* What the log of submissions has to do with the ring.  Draining and committing
\* divide it into three parts, and the slot of a ticket that is not finished
\* holds the value and the verdict of the ticket's entry.
Entries == [val : Producers \cup {NoErr}, err : AllErrs,
            st : {"queued", "drained", "decided", "closed"}]
LogTypeOK == log \in Seq(Entries) /\ Len(log) = tail
PhaseInv ==
    \A k \in 0..tail-1 :
        /\ ch <= k => log[k+1].st = "queued"
        /\ ci <= k /\ k < ch => log[k+1].st = "drained"
        /\ k < ci => log[k+1].st \in {"decided", "closed"}
SubmitInv ==
    \A p \in Producers : pc[p] \in {"slot", "fill"} => log[t[p]+1].val = p
EntryInv ==
    \A s \in Slots :
        /\ st[s] = "ready" => log[tkt[s]+1].val = val[s]
        /\ st[s] = "drained" => log[tkt[s]+1].err = err[s]
        /\ st[s] = "drained" /\ tkt[s] < ci => log[tkt[s]+1].st = "decided"
LogInv == LogTypeOK /\ PhaseInv /\ SubmitInv /\ EntryInv

\* Every step of every goroutine preserves the conjunction: the ring agrees on
\* who owns which slot, and the slots agree with what was submitted and decided.
IndInv == RingInv /\ LogInv

-----------------------------------------------------------------------------
(* Refinement and liveness *)

WaitIndex == [p \in Producers |->
                 IF pc[p] \in {"slot", "fill", "wait", "got", "drop"}
                 THEN t[p] + 1 ELSE 0]

GC == INSTANCE GroupCommit WITH wait <- WaitIndex

\* The ring keeps the promise of group commit: exactly once, in ticket order,
\* the right verdict to the right producer, in spite of laps, stale loads and
\* cancelled waits.
ImplementsGroupCommit == GC!GCSpec

\* Every call of Enqueue and Wait returns while the consumer keeps going.
CallsReturn == \A p \in Producers : (pc[p] # "idle") ~> (pc[p] = "idle")
=============================================================================
