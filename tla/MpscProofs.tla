----------------------------- MODULE MpscProofs -----------------------------
(***************************************************************************)
(* Proofs about mpsc.Ring for every ring size, every set of producers and  *)
(* every set of errors: the reservation bound, the ownership of slots and  *)
(* the freedom of Commit from blocking, from one inductive invariant.      *)
(***************************************************************************)
EXTENDS Mpsc, SharedLemmas

\* The slot of a ticket is a slot of the ring.
LEMMA IdxInSlots == \A k \in Nat : Idx(k) \in Slots
  BY IndexInRange, SizeAssumption DEF Idx, Slots

\* Two tickets less than one lap apart have different slots.
LEMMA IdxDiffer ==
    ASSUME NEW a \in Nat, NEW b \in Nat, a < b, b - a < Size
    PROVE  Idx(a) # Idx(b)
  <1>1. Size \in Nat \ {0}
    BY SizeAssumption
  <1>2. a % Size # b % Size
    BY <1>1, IndexInjective, Zenon
  <1> QED BY <1>2, Zenon DEF Idx

\* One lap later is the same slot.
LEMMA IdxPeriodic ==
    ASSUME NEW k \in Nat PROVE Idx(k + Size) = Idx(k)
  <1>1. Size \in Nat \ {0}
    BY SizeAssumption
  <1>2. (k + Size) % Size = k % Size
    BY <1>1, IndexPeriodic, Zenon
  <1> QED BY <1>2, Zenon DEF Idx

LEMMA InitRingInv == Init => RingInv
  <1> SUFFICES ASSUME Init PROVE RingInv
    OBVIOUS
  <1> USE SizeAssumption, SpinLimitAssumption DEF Init
  <1>1. TypeOK
    BY DEF TypeOK, AllErrs, Outcomes, NoTicket
  <1>2. ConsumerInv /\ CasInv /\ TicketInv
    BY DEF ConsumerInv, CasInv, TicketInv, Ticketed
  <1>3. HolderInv
    BY DEF HolderInv
  <1>4. SlotInv /\ OwnedInv /\ FreeSlotsCleared
    BY DEF SlotInv, OwnedInv, FreeSlotsCleared, NoTicket
  <1> QED BY <1>1, <1>2, <1>3, <1>4 DEF RingInv

-----------------------------------------------------------------------------
(* Enqueue preserves the invariant *)

\* Steps of a producer before it has a ticket touch no slot.
LEMMA EarlyStep ==
    ASSUME RingInv, NEW p \in Producers,
           ~Ticketed(p), ~Ticketed(p)', TypeOK', CasInv',
           \A q \in Producers \ {p} : pc'[q] = pc[q] /\ t'[q] = t[q],
           UNCHANGED <<tail, head, slotVars, consVars, cleanVars>>
    PROVE  RingInv'
  <1> USE DEF RingInv, slotVars, consVars, cleanVars
  <1>1. ConsumerInv'
    BY DEF ConsumerInv
  <1>2. TicketInv'
    BY DEF TicketInv, Ticketed
  <1>3. HolderInv'
    BY DEF HolderInv, WaitedSlot, SignalledSlot, Ticketed
  <1>4. SlotInv' /\ FreeSlotsCleared'
    BY DEF SlotInv, FreeSlotsCleared
  <1>5. OwnedInv'
    BY DEF OwnedInv, Holding, Ticketed
  <1> QED BY <1>1, <1>2, <1>3, <1>4, <1>5

LEMMA EnqueueLoadStep ==
    ASSUME RingInv, NEW p \in Producers, EnqueueBegin(p) \/ EnqueueLoad(p)
    PROVE  RingInv'
  <1> USE DEF EnqueueBegin, EnqueueLoad, Goto, slotVars, consVars, cleanVars
  <1>1. TypeOK'
    <2>1. CASE EnqueueBegin(p)
      BY <2>1 DEF RingInv, TypeOK, AllErrs, Outcomes
    <2>2. CASE EnqueueLoad(p)
      BY <2>2 DEF RingInv, TypeOK
    <2> QED BY <2>1, <2>2
  <1>2. CasInv'
    BY DEF RingInv, CasInv, TypeOK
  <1>3. ~Ticketed(p) /\ ~Ticketed(p)'
    BY DEF RingInv, TypeOK, Ticketed
  <1>4. \A q \in Producers \ {p} : pc'[q] = pc[q] /\ t'[q] = t[q]
    BY DEF RingInv, TypeOK
  <1> QED BY <1>1, <1>2, <1>3, <1>4, EarlyStep

LEMMA EnqueueCheckStep ==
    ASSUME RingInv, NEW p \in Producers, EnqueueCheck(p)
    PROVE  RingInv'
  <1> USE SpinLimitAssumption, SizeAssumption
          DEF EnqueueCheck, Goto, Respin, ReturnWith, slotVars, consVars, cleanVars
  <1>1. TypeOK'
    BY DEF RingInv, TypeOK, AllErrs, Outcomes
  <1>2. CasInv'
    BY DEF RingInv, CasInv, TypeOK, LooksFull
  <1>3. ~Ticketed(p) /\ ~Ticketed(p)'
    BY DEF RingInv, TypeOK, Ticketed
  <1>4. \A q \in Producers \ {p} : pc'[q] = pc[q] /\ t'[q] = t[q]
    BY DEF RingInv, TypeOK
  <1> QED BY <1>1, <1>2, <1>3, <1>4, EarlyStep

\* A CAS that succeeds hands out the ticket tail, which no slot is filled for.
LEMMA EnqueueCasStep ==
    ASSUME RingInv, NEW p \in Producers, EnqueueCas(p)
    PROVE  RingInv'
  <1> USE DEF slotVars, consVars, cleanVars
  <1>1. CASE tail = t[p]
    <2>a. /\ pc[p] = "cas" /\ tail = t[p]
          /\ tail' = tail + 1
          /\ pc' = [pc EXCEPT ![p] = "slot"]
          /\ spin' = [spin EXCEPT ![p] = 0]
          /\ UNCHANGED <<head, slotVars, t, res, consVars, cleanVars>>
      BY <1>1 DEF EnqueueCas, Goto
    <2> USE <2>a, SizeAssumption, SpinLimitAssumption DEF RingInv
    <2>1. TypeOK'
      BY DEF TypeOK
    <2>2. ConsumerInv'
      BY DEF ConsumerInv, CasInv, TypeOK
    <2>3. CasInv'
      BY DEF CasInv, TypeOK
    <2>4. TicketInv'
      BY DEF TicketInv, Ticketed, TypeOK
    <2>5. HolderInv'
      <3>1. tkt[Idx(t[p])] # tail
        <4>1. Idx(t[p]) \in Slots
          BY IdxInSlots DEF TypeOK
        <4> QED BY <4>1 DEF SlotInv, TypeOK, NoTicket
      <3> QED
        BY <3>1 DEF HolderInv, WaitedSlot, SignalledSlot, ConsumerInv, TypeOK
    <2>6. SlotInv' /\ FreeSlotsCleared'
      BY DEF SlotInv, FreeSlotsCleared, TypeOK, NoTicket
    <2>7. OwnedInv'
      BY DEF OwnedInv, Holding, TypeOK
    <2> QED BY <2>1, <2>2, <2>3, <2>4, <2>5, <2>6, <2>7
  <1>2. CASE tail # t[p]
    <2>a. /\ pc[p] = "cas"
          /\ pc' = [pc EXCEPT ![p] = "load"]
          /\ Respin(p)
          /\ UNCHANGED <<tail, head, slotVars, t, res, consVars, cleanVars>>
      BY <1>2 DEF EnqueueCas, Goto
    <2>1. TypeOK'
      BY <2>a, SpinLimitAssumption DEF RingInv, TypeOK, Respin
    <2>2. CasInv'
      BY <2>a DEF RingInv, CasInv, TypeOK
    <2>3. ~Ticketed(p) /\ ~Ticketed(p)'
      BY <2>a DEF RingInv, TypeOK, Ticketed
    <2>4. \A q \in Producers \ {p} : pc'[q] = pc[q] /\ t'[q] = t[q]
      BY <2>a DEF RingInv, TypeOK
    <2> QED BY <2>a, <2>1, <2>2, <2>3, <2>4, EarlyStep
  <1> QED BY <1>1, <1>2

LEMMA EnqueueSlotStep ==
    ASSUME RingInv, NEW p \in Producers, EnqueueSlot(p)
    PROVE  RingInv'
  <1> USE IdxInSlots DEF RingInv, EnqueueSlot, Goto, consVars, cleanVars
  <1>1. TypeOK'
    BY DEF TypeOK
  <1>2. ConsumerInv'
    BY DEF ConsumerInv, SlotInv, TypeOK, NoTicket
  <1>3. CasInv'
    BY DEF CasInv, TypeOK
  <1>4. TicketInv'
    BY DEF TicketInv, Ticketed, TypeOK
  <1>5. HolderInv'
    BY DEF HolderInv, WaitedSlot, SignalledSlot, SlotInv, TicketInv, Ticketed,
           TypeOK, NoTicket
  <1>6. SlotInv' /\ FreeSlotsCleared'
    BY SizeAssumption
       DEF SlotInv, FreeSlotsCleared, HolderInv, TicketInv, Ticketed, TypeOK,
           NoTicket
  <1>7. OwnedInv'
    BY DEF OwnedInv, Holding, TypeOK
  <1> QED BY <1>1, <1>2, <1>3, <1>4, <1>5, <1>6, <1>7

LEMMA EnqueuePublishStep ==
    ASSUME RingInv, NEW p \in Producers, EnqueuePublish(p)
    PROVE  RingInv'
  <1> USE IdxInSlots DEF RingInv, EnqueuePublish, Goto, consVars, cleanVars
  <1>1. TypeOK'
    BY DEF TypeOK, AllErrs
  <1>2. ConsumerInv'
    BY DEF ConsumerInv, HolderInv, TypeOK
  <1>3. CasInv'
    BY DEF CasInv, TypeOK
  <1>4. TicketInv'
    BY DEF TicketInv, Ticketed, TypeOK
  <1>5. HolderInv'
    BY DEF HolderInv, WaitedSlot, SignalledSlot, ConsumerInv, TicketInv,
           Ticketed, TypeOK
  <1>6. SlotInv' /\ FreeSlotsCleared'
    BY DEF SlotInv, FreeSlotsCleared, HolderInv, TypeOK, NoTicket
  <1>7. OwnedInv'
    BY DEF OwnedInv, HolderInv, Holding, TypeOK
  <1> QED BY <1>1, <1>2, <1>3, <1>4, <1>5, <1>6, <1>7

-----------------------------------------------------------------------------
(* Waiting preserves the invariant *)

\* Receiving the signal, to return its error or to drop it.
LEMMA WaitRecvStep ==
    ASSUME RingInv, NEW p \in Producers, NEW l \in {"got", "drop"},
           pc[p] = "wait", done[Idx(t[p])] = 1,
           done' = [done EXCEPT ![Idx(t[p])] = 0], Goto(p, l),
           UNCHANGED <<tail, head, st, val, err, tkt, t, spin, res, consVars,
                       cleanVars>>
    PROVE  RingInv'
  <1> USE IdxInSlots DEF RingInv, Goto, consVars, cleanVars
  <1>1. TypeOK'
    BY DEF TypeOK
  <1>2. ConsumerInv'
    BY DEF ConsumerInv, TypeOK
  <1>3. CasInv'
    BY DEF CasInv, TypeOK
  <1>4. TicketInv'
    BY DEF TicketInv, Ticketed, TypeOK
  <1>5. HolderInv'
    BY DEF HolderInv, WaitedSlot, SignalledSlot, ConsumerInv, TicketInv,
           Ticketed, TypeOK
  <1>6. SlotInv' /\ FreeSlotsCleared'
    BY DEF SlotInv, FreeSlotsCleared, HolderInv, TypeOK, NoTicket
  <1>7. OwnedInv'
    BY DEF OwnedInv, Holding, TypeOK
  <1> QED BY <1>1, <1>2, <1>3, <1>4, <1>5, <1>6, <1>7

\* Leaving the slot to a cleanup goroutine.
LEMMA WaitOrphanStep ==
    ASSUME RingInv, NEW p \in Producers, pc[p] = "wait",
           orphans' = orphans \cup {t[p]}, ReturnWith(p, "cancelled"),
           UNCHANGED <<tail, head, slotVars, consVars, reclaims>>
    PROVE  RingInv'
  <1> USE SpinLimitAssumption DEF RingInv, Goto, ReturnWith, slotVars, consVars
  <1>1. TypeOK'
    <2>1. orphans' \subseteq Nat
      BY DEF TypeOK
    <2>2. res' \in [Producers -> Outcomes]
      BY DEF TypeOK, Outcomes
    <2> QED BY <2>1, <2>2 DEF TypeOK
  <1>2. ConsumerInv'
    BY DEF ConsumerInv
  <1>3. CasInv'
    BY DEF CasInv, TypeOK
  <1>4. TicketInv'
    BY DEF TicketInv, Ticketed, TypeOK
  <1>5. HolderInv'
    BY DEF HolderInv, WaitedSlot, SignalledSlot, TypeOK
  <1>6. SlotInv' /\ FreeSlotsCleared'
    BY DEF SlotInv, FreeSlotsCleared
  <1>7. OwnedInv'
    BY DEF OwnedInv, Holding, TypeOK
  <1> QED BY <1>1, <1>2, <1>3, <1>4, <1>5, <1>6, <1>7

\* A producer that has the signal returns r and frees the slot.
LEMMA WaitFreeStep ==
    ASSUME RingInv, NEW p \in Producers, NEW r \in Outcomes,
           pc[p] \in {"got", "drop"}, ReturnWith(p, r), FreeSlot(t[p]),
           UNCHANGED <<tail, head, done, consVars, cleanVars>>
    PROVE  RingInv'
  <1>a. /\ val' = [val EXCEPT ![Idx(t[p])] = NoVal]
        /\ err' = [err EXCEPT ![Idx(t[p])] = NoErr]
        /\ st' = [st EXCEPT ![Idx(t[p])] = "free"]
        /\ tkt' = [tkt EXCEPT ![Idx(t[p])] = NoTicket]
    BY DEF FreeSlot
  <1> USE <1>a, IdxInSlots, SpinLimitAssumption
          DEF RingInv, Goto, ReturnWith, consVars, cleanVars
  <1>1. TypeOK'
    BY DEF TypeOK, AllErrs
  <1>2. ConsumerInv'
    BY DEF ConsumerInv, HolderInv, SignalledSlot, TypeOK
  <1>3. CasInv'
    BY DEF CasInv, TypeOK
  <1>4. TicketInv'
    BY DEF TicketInv, Ticketed, TypeOK
  <1>5. HolderInv'
    BY DEF HolderInv, WaitedSlot, SignalledSlot, TicketInv, Ticketed, TypeOK,
           NoTicket
  <1>6. SlotInv' /\ FreeSlotsCleared'
    BY DEF SlotInv, FreeSlotsCleared, HolderInv, SignalledSlot, TypeOK, NoTicket
  <1>7. OwnedInv'
    BY DEF OwnedInv, Holding, SlotInv, TypeOK
  <1> QED BY <1>1, <1>2, <1>3, <1>4, <1>5, <1>6, <1>7

LEMMA OrphanRecvStep ==
    ASSUME RingInv, NEW k \in orphans, OrphanRecv(k)
    PROVE  RingInv'
  <1> USE IdxInSlots DEF RingInv, OrphanRecv, prodVars, consVars
  <1>1. TypeOK'
    BY DEF TypeOK
  <1>2. ConsumerInv'
    BY DEF ConsumerInv, TypeOK
  <1>3. CasInv'
    BY DEF CasInv, TypeOK
  <1>4. TicketInv'
    BY DEF TicketInv, Ticketed, TypeOK
  <1>5. HolderInv'
    BY DEF HolderInv, WaitedSlot, SignalledSlot, ConsumerInv, TicketInv,
           Ticketed, TypeOK
  <1>6. SlotInv' /\ FreeSlotsCleared'
    BY DEF SlotInv, FreeSlotsCleared, HolderInv, TypeOK, NoTicket
  <1>7. OwnedInv'
    BY DEF OwnedInv, Holding, TypeOK
  <1> QED BY <1>1, <1>2, <1>3, <1>4, <1>5, <1>6, <1>7

LEMMA OrphanFreeStep ==
    ASSUME RingInv, NEW k \in reclaims, OrphanFree(k)
    PROVE  RingInv'
  <1>a. /\ val' = [val EXCEPT ![Idx(k)] = NoVal]
        /\ err' = [err EXCEPT ![Idx(k)] = NoErr]
        /\ st' = [st EXCEPT ![Idx(k)] = "free"]
        /\ tkt' = [tkt EXCEPT ![Idx(k)] = NoTicket]
        /\ reclaims' = reclaims \ {k}
        /\ UNCHANGED <<tail, head, done, prodVars, consVars, orphans>>
    BY DEF FreeSlot, OrphanFree
  <1> USE <1>a, IdxInSlots DEF RingInv, prodVars, consVars
  <1>1. TypeOK'
    BY DEF TypeOK, AllErrs
  <1>2. ConsumerInv'
    BY DEF ConsumerInv, HolderInv, SignalledSlot, TypeOK
  <1>3. CasInv'
    BY DEF CasInv, TypeOK
  <1>4. TicketInv'
    BY DEF TicketInv, Ticketed, TypeOK
  <1>5. HolderInv'
    BY DEF HolderInv, WaitedSlot, SignalledSlot, TicketInv, Ticketed, TypeOK,
           NoTicket
  <1>6. SlotInv' /\ FreeSlotsCleared'
    BY DEF SlotInv, FreeSlotsCleared, HolderInv, SignalledSlot, TypeOK, NoTicket
  <1>7. OwnedInv'
    BY DEF OwnedInv, Holding, SlotInv, TypeOK
  <1> QED BY <1>1, <1>2, <1>3, <1>4, <1>5, <1>6, <1>7

-----------------------------------------------------------------------------
(* The consumer preserves the invariant *)

\* Steps that move the consumer without touching a slot.
LEMMA ConsumerMoveStep ==
    ASSUME RingInv,
           \/ DrainBegin \/ CommitEnd
           \/ \E e \in BatchErrs \cup {NoErr} : DrainEnd(e)
    PROVE  RingInv'
  <1> USE SizeAssumption
          DEF RingInv, DrainBegin, DrainEnd, CommitEnd, slotVars, prodVars, cleanVars
  <1>1. TypeOK'
    <2>1. CASE DrainBegin
      BY <2>1 DEF TypeOK
    <2>2. CASE CommitEnd
      BY <2>2 DEF TypeOK
    <2>3. ASSUME NEW e \in BatchErrs \cup {NoErr}, DrainEnd(e) PROVE TypeOK'
      BY <2>3 DEF TypeOK
    <2> QED BY <2>1, <2>2, <2>3
  <1>2. ConsumerInv'
    BY DEF ConsumerInv, TypeOK
  <1>3. CasInv'
    BY DEF CasInv, ConsumerInv, TypeOK
  <1>4. TicketInv'
    BY DEF TicketInv, Ticketed
  <1>5. UNCHANGED <<ch, ci>>
    BY DEF ConsumerInv, TypeOK
  <1>6. HolderInv'
    BY <1>5 DEF HolderInv, WaitedSlot, SignalledSlot
  <1>7. SlotInv' /\ FreeSlotsCleared'
    BY <1>5 DEF SlotInv, FreeSlotsCleared
  <1>8. OwnedInv'
    BY DEF OwnedInv, Holding
  <1> QED BY <1>1, <1>2, <1>3, <1>4, <1>6, <1>7, <1>8

\* A ready slot that Drain meets at ch is filled for the ticket ch: another
\* ticket of that slot would be a lap away, which the reservations exclude.
LEMMA ReadyTicket ==
    ASSUME RingInv, st[Idx(ch)] = "ready"
    PROVE  tkt[Idx(ch)] = ch
  <1> USE DEF RingInv
  <1>1. Idx(ch) \in Slots /\ ch \in Nat
    BY IdxInSlots DEF TypeOK
  <1> DEFINE k == tkt[Idx(ch)]
  <1>2. k \in Nat /\ Idx(k) = Idx(ch) /\ ch <= k /\ k < tail
    BY <1>1 DEF SlotInv, TypeOK, NoTicket
  <1>3. k - ch < Size
    BY <1>1, <1>2, SizeAssumption DEF ConsumerInv, TypeOK
  <1> HIDE DEF k
  <1>4. ~(ch < k)
    BY <1>1, <1>2, <1>3, IdxDiffer
  <1>5. k = ch
    BY <1>1, <1>2, <1>4
  <1> QED BY <1>5 DEF k

LEMMA DrainItemStep ==
    ASSUME RingInv, NEW e \in FnErrs \cup {NoErr}, DrainItem(e)
    PROVE  RingInv'
  <1>a. /\ cpc = "scan" /\ ch < ct /\ st[Idx(ch)] = "ready"
        /\ err' = [err EXCEPT ![Idx(ch)] = e]
        /\ st' = [st EXCEPT ![Idx(ch)] = "drained"]
        /\ ch' = ch + 1
        /\ UNCHANGED <<tail, head, val, done, tkt, prodVars, cpc, ct, ci,
                       batchErr, cleanVars>>
    BY DEF DrainItem, Drainable
  <1>b. tkt[Idx(ch)] = ch
    BY <1>a, ReadyTicket
  <1> USE <1>a, <1>b, IdxInSlots DEF RingInv, prodVars, cleanVars
  <1>1. TypeOK'
    BY DEF TypeOK, AllErrs
  <1>2. ConsumerInv'
    <2>1. done[Idx(ch)] = 0
      BY DEF SlotInv, TypeOK
    <2>2. /\ head' <= ch' /\ ch' <= tail' /\ ct' <= tail' /\ ci' <= ch'
          /\ cpc' # "scan" => head' = ch'
          /\ cpc' # "commit" => ci' = head'
          /\ cpc' = "idle" => ci' = ch'
          /\ tail' <= head' + Size
      BY DEF ConsumerInv, TypeOK
    <2>3. ASSUME NEW k \in ci'..ch'-1 PROVE tkt'[Idx(k)] = k /\ done'[Idx(k)] = 0
      <3>1. k = ch \/ k \in ci..ch-1
        BY DEF TypeOK
      <3> QED BY <2>1, <3>1 DEF ConsumerInv
    <2> HIDE <1>a
    <2> QED BY <2>2, <2>3 DEF ConsumerInv
  <1>3. CasInv'
    BY DEF CasInv
  <1>4. TicketInv'
    BY DEF TicketInv, Ticketed
  <1>5. HolderInv'
    <2>1. ch \in Nat /\ ci <= ch /\ Idx(ch) \in Slots
      BY DEF ConsumerInv, TypeOK
    <2>2. ASSUME NEW k \in Nat, WaitedSlot(k) PROVE WaitedSlot(k)'
      <3>1. Idx(k) \in Slots /\ (Idx(k) = Idx(ch) <=> k = ch)
        BY <2>2 DEF WaitedSlot
      <3>2. CASE k = ch
        BY <2>1, <2>2, <3>1, <3>2 DEF WaitedSlot, TypeOK
      <3>3. CASE k # ch
        BY <2>1, <2>2, <3>1, <3>3 DEF WaitedSlot, TypeOK
      <3> QED BY <3>2, <3>3
    <2>3. ASSUME NEW k \in Nat, SignalledSlot(k) PROVE SignalledSlot(k)'
      <3>1. Idx(k) \in Slots /\ Idx(k) # Idx(ch)
        BY <2>1, <2>3 DEF SignalledSlot
      <3> QED BY <2>1, <2>3, <3>1 DEF SignalledSlot, TypeOK
    <2>4. ASSUME NEW p \in Producers, pc[p] \in {"slot", "fill"}
          PROVE  ch + 1 <= t[p]
      <3>1. t[p] \in Nat /\ ch <= t[p]
        BY <2>4 DEF HolderInv, TypeOK
      <3>2. t[p] # ch
        BY <2>4 DEF HolderInv
      <3> QED BY <2>1, <3>1, <3>2
    <2>5. ASSUME NEW p \in Producers
          PROVE  /\ t[p] \in Nat /\ Idx(t[p]) \in Slots
                 /\ pc'[p] = pc[p] /\ t'[p] = t[p]
      BY DEF TypeOK
    <2>6. ASSUME NEW p \in Producers, pc[p] = "slot"
          PROVE  ch' <= t'[p] /\ tkt'[Idx(t'[p])] # t'[p]
      BY <2>4, <2>5, <2>6 DEF HolderInv
    <2>7. ASSUME NEW p \in Producers, pc[p] = "fill"
          PROVE  /\ ch' <= t'[p]
                 /\ tkt'[Idx(t'[p])] = t'[p]
                 /\ st'[Idx(t'[p])] = "fill"
      <3>1. st[Idx(t[p])] = "fill" /\ Idx(t[p]) # Idx(ch)
        BY <2>7 DEF HolderInv
      <3> QED BY <2>4, <2>5, <2>7, <3>1 DEF HolderInv, TypeOK
    <2>8. \A p \in Producers :
              /\ pc[p] = "wait" => WaitedSlot(t[p])'
              /\ pc[p] \in {"got", "drop"} => SignalledSlot(t[p])'
      BY <2>2, <2>3, <2>5 DEF HolderInv
    <2>9. /\ \A k \in orphans' : WaitedSlot(k)'
          /\ \A k \in reclaims' : SignalledSlot(k)'
      BY <2>2, <2>3 DEF HolderInv, TypeOK
    <2> QED BY <2>5, <2>6, <2>7, <2>8, <2>9 DEF HolderInv
  <1>6. SlotInv' /\ FreeSlotsCleared'
    <2>1. ASSUME NEW s \in Slots, st[s] # "free" PROVE ch + 1 <= tkt[s] + Size
      <3>1. tkt[s] \in Nat /\ Idx(tkt[s]) = s /\ ch <= tkt[s] + Size
        BY <2>1 DEF SlotInv, TypeOK, NoTicket
      <3>2. Idx(tkt[s] + Size) = s
        BY <3>1, IdxPeriodic
      <3>3. tkt[s] + Size # ch
        BY <3>1, <3>2, SizeAssumption
      <3> QED BY <3>1, <3>3, SizeAssumption DEF TypeOK
    <2>2. SlotInv'
      BY <2>1, SizeAssumption DEF SlotInv, TypeOK, NoTicket
    <2>3. FreeSlotsCleared'
      BY DEF FreeSlotsCleared, TypeOK
    <2> QED BY <2>2, <2>3
  <1>7. OwnedInv'
    BY DEF OwnedInv, Holding, TypeOK
  <1> QED BY <1>1, <1>2, <1>3, <1>4, <1>5, <1>6, <1>7

LEMMA CommitItemStep ==
    ASSUME RingInv, CommitItem
    PROVE  RingInv'
  <1>a. /\ cpc = "commit" /\ ci < ch
        /\ done' = [done EXCEPT ![Idx(ci)] = 1]
        /\ err' = [err EXCEPT ![Idx(ci)] = IF batchErr # NoErr THEN batchErr ELSE @]
        /\ ci' = ci + 1
        /\ UNCHANGED <<tail, head, st, val, tkt, prodVars, cpc, ch, ct, batchErr,
                       cleanVars>>
    BY DEF CommitItem
  <1>b. tkt[Idx(ci)] = ci /\ Idx(ci) \in Slots
    BY <1>a, IdxInSlots DEF RingInv, ConsumerInv, TypeOK
  <1>c. st[Idx(ci)] = "drained"
    BY <1>a, <1>b DEF RingInv, SlotInv, TypeOK, NoTicket
  <1> USE <1>a, <1>b, <1>c, IdxInSlots DEF RingInv, prodVars, cleanVars
  <1>1. TypeOK'
    BY DEF TypeOK, AllErrs
  <1>2. ConsumerInv'
    BY SizeAssumption DEF ConsumerInv, TypeOK
  <1>3. CasInv'
    BY DEF CasInv
  <1>4. TicketInv'
    BY DEF TicketInv, Ticketed
  <1>5. HolderInv'
    BY DEF HolderInv, WaitedSlot, SignalledSlot, ConsumerInv, TypeOK
  <1>6. SlotInv' /\ FreeSlotsCleared'
    BY DEF SlotInv, FreeSlotsCleared, TypeOK, NoTicket
  <1>7. OwnedInv'
    BY DEF OwnedInv, Holding, TypeOK
  <1> QED BY <1>1, <1>2, <1>3, <1>4, <1>5, <1>6, <1>7

LEMMA StutterStep ==
    ASSUME RingInv, UNCHANGED vars PROVE RingInv'
  BY DEF RingInv, vars, slotVars, prodVars, consVars, cleanVars, TypeOK,
         ConsumerInv, CasInv, TicketInv, HolderInv, SlotInv, OwnedInv,
         FreeSlotsCleared, WaitedSlot, SignalledSlot, Ticketed, Holding

LEMMA NextRingInv == RingInv /\ [Next]_vars => RingInv'
  <1> SUFFICES ASSUME RingInv, [Next]_vars PROVE RingInv'
    OBVIOUS
  <1>1. ASSUME NEW p \in Producers, EnqueueBegin(p) PROVE RingInv'
    BY <1>1, EnqueueLoadStep
  <1>2. ASSUME NEW p \in Producers, Enqueue(p) PROVE RingInv'
    BY <1>2, EnqueueLoadStep, EnqueueCheckStep, EnqueueCasStep, EnqueueSlotStep,
       EnqueuePublishStep DEF Enqueue
  <1>3. ASSUME NEW p \in Producers, Wait(p) PROVE RingInv'
    <2>1. CASE WaitRecv(p)
      BY <2>1, WaitRecvStep DEF WaitRecv
    <2>2. CASE WaitReturn(p)
      <3>1. pc[p] = "got" /\ t[p] \in Nat /\ err \in [Slots -> AllErrs]
        BY <2>2 DEF WaitReturn, RingInv, TypeOK
      <3>2. err[Idx(t[p])] \in Outcomes
        BY <3>1, IdxInSlots DEF Outcomes
      <3> QED BY <2>2, <3>1, <3>2, WaitFreeStep DEF WaitReturn
    <2>3. CASE WaitDrop(p)
      <3>1. "cancelled" \in Outcomes
        BY DEF Outcomes
      <3> QED BY <2>3, <3>1, WaitFreeStep DEF WaitDrop
    <2> QED BY <1>3, <2>1, <2>2, <2>3 DEF Wait
  <1>4. ASSUME NEW p \in Producers, WaitCancel(p) PROVE RingInv'
    <2>1. CASE done[Idx(t[p])] = 1
      BY <1>4, <2>1, WaitRecvStep DEF WaitCancel, cleanVars
    <2>2. CASE done[Idx(t[p])] # 1
      BY <1>4, <2>2, WaitOrphanStep DEF WaitCancel, slotVars
    <2> QED BY <2>1, <2>2
  <1>5. CASE Orphan
    BY <1>5, OrphanRecvStep, OrphanFreeStep DEF Orphan
  <1>6. CASE Consumer
    BY <1>6, ConsumerMoveStep, DrainItemStep, CommitItemStep DEF Consumer
  <1>7. CASE UNCHANGED vars
    BY <1>7, StutterStep
  <1> QED BY <1>1, <1>2, <1>3, <1>4, <1>5, <1>6, <1>7 DEF Next

LEMMA RingInductive == Spec => []RingInv
  <1> QED BY InitRingInv, NextRingInv, PTL DEF Spec

\* Every variable of the ring keeps its type.
THEOREM MpscTypeOK == Spec => []TypeOK
  <1>1. RingInv => TypeOK
    BY DEF RingInv
  <1> QED BY RingInductive, <1>1, PTL

\* However stale the loads of head and tail in Enqueue are, no more tickets are
\* reserved than the ring has slots.
THEOREM MpscReservationBound == Spec => []ReservationBound
  <1>1. RingInv => ReservationBound
    BY SizeAssumption DEF RingInv, ConsumerInv, TypeOK, ReservationBound
  <1> QED BY RingInductive, <1>1, PTL

\* Commit never blocks on a full done channel, and Enqueue never swallows a
\* signal of the lap before.
THEOREM MpscSignalFits == Spec => []SignalFits
  <1>1. RingInv => SignalFits
    <2> SUFFICES ASSUME RingInv PROVE SignalFits
      OBVIOUS
    <2> USE IdxInSlots DEF RingInv
    <2>1. (cpc = "commit" /\ ci < ch) => done[Idx(ci)] = 0
      BY DEF ConsumerInv, TypeOK
    <2>2. \A p \in Producers : pc[p] = "fill" => done[Idx(t[p])] = 0
      BY DEF HolderInv, SlotInv, TypeOK
    <2> QED BY <2>1, <2>2 DEF SignalFits
  <1> QED BY RingInductive, <1>1, PTL

\* A slot that Enqueue may claim holds no value, error or signal.
THEOREM MpscFreeSlotsCleared == Spec => []FreeSlotsCleared
  <1>1. RingInv => FreeSlotsCleared
    BY DEF RingInv
  <1> QED BY RingInductive, <1>1, PTL

\* The ticket of everyone who holds a slot is the one the slot is filled for.
LEMMA HeldTicket ==
    ASSUME RingInv PROVE \A k \in Held : k \in Nat /\ k < tail /\ tkt[Idx(k)] = k
  <1> USE DEF RingInv
  <1>1. ASSUME NEW p \in Producers, Holding(p)
        PROVE  t[p] \in Nat /\ t[p] < tail /\ tkt[Idx(t[p])] = t[p]
    BY <1>1 DEF Holding, HolderInv, WaitedSlot, SignalledSlot, TicketInv, Ticketed,
                TypeOK
  <1>2. \A k \in orphans \cup reclaims : k \in Nat /\ k < tail /\ tkt[Idx(k)] = k
    BY DEF HolderInv, WaitedSlot, SignalledSlot, TicketInv, TypeOK
  <1> QED BY <1>1, <1>2 DEF Held

\* No two goroutines hold one slot, and a slot is free exactly when nobody holds
\* it: none is handed out twice and none is lost.
THEOREM MpscOneOwnerPerSlot == Spec => []OneOwnerPerSlot
  <1>1. RingInv => OneOwnerPerSlot
    <2> SUFFICES ASSUME RingInv PROVE OneOwnerPerSlot
      OBVIOUS
    <2>1. \A k \in Held : k \in Nat /\ tkt[Idx(k)] = k
      BY HeldTicket
    <2>2. \A p \in Producers : Holding(p) => t[p] \in Held
      BY DEF Held
    <2>3. orphans \subseteq Held /\ reclaims \subseteq Held
      BY DEF Held
    <2>4. \A p, q \in Producers :
             p # q /\ Holding(p) /\ Holding(q) => Idx(t[p]) # Idx(t[q])
      BY <2>1, <2>2 DEF RingInv, TicketInv, Ticketed, Holding
    <2>5. \A p \in Producers : Holding(p) =>
             \A k \in orphans \cup reclaims : Idx(k) # Idx(t[p])
      BY <2>1, <2>2, <2>3 DEF RingInv, TicketInv, Ticketed, Holding
    <2>6. \A j, k \in orphans \cup reclaims : j # k => Idx(j) # Idx(k)
      BY <2>1, <2>3
    <2>7. orphans \cap reclaims = {}
      BY DEF RingInv, TicketInv
    <2>8. ASSUME NEW s \in Slots, st[s] = "free", NEW k \in Held, Idx(k) = s
          PROVE  FALSE
      BY <2>1, <2>8 DEF RingInv, SlotInv, NoTicket
    <2>9. ASSUME NEW s \in Slots, st[s] # "free"
          PROVE  \E k \in Held : Idx(k) = s
      <3>1. Idx(tkt[s]) = s
        BY <2>9 DEF RingInv, SlotInv
      <3>2. tkt[s] \in Held
        BY <2>2, <2>3, <2>9 DEF RingInv, OwnedInv
      <3> QED BY <3>1, <3>2
    <2> QED BY <2>4, <2>5, <2>6, <2>7, <2>8, <2>9 DEF OneOwnerPerSlot
  <1> QED BY RingInductive, <1>1, PTL

\* At most one producer spins for a slot, and it waits for the ticket one lap
\* before its own: the slot of a ticket is never more than one lap behind.
THEOREM MpscOneSpinnerPerSlot == Spec => []OneSpinnerPerSlot
  <1>1. RingInv => OneSpinnerPerSlot
    <2> SUFFICES ASSUME RingInv, NEW p \in Producers, pc[p] = "slot"
                 PROVE  /\ \A q \in Producers :
                               q # p /\ pc[q] \in {"slot", "fill"} =>
                                   Idx(t[p]) # Idx(t[q])
                        /\ \A k \in Held : Idx(k) = Idx(t[p]) => k = t[p] - Size
      BY DEF OneSpinnerPerSlot
    <2> USE DEF RingInv
    <2>1. /\ ch \in Nat /\ Size \in Nat /\ t[p] \in Nat
          /\ tail \in Nat /\ tail <= ch + Size
      BY SizeAssumption DEF ConsumerInv, TypeOK
    <2>2. ch <= t[p] /\ t[p] < ch + Size /\ tkt[Idx(t[p])] # t[p]
      BY <2>1 DEF HolderInv, TicketInv, Ticketed
    <2>3. ASSUME NEW a \in Nat, NEW b \in Nat, a # b,
                 ch <= a, a < ch + Size, ch <= b, b < ch + Size
          PROVE  Idx(a) # Idx(b)
      <3>1. CASE a < b
        BY <2>1, <2>3, <3>1, IdxDiffer
      <3>2. CASE b < a
        BY <2>1, <2>3, <3>2, IdxDiffer
      <3> QED BY <2>3, <3>1, <3>2
    <2>4. ASSUME NEW q \in Producers, q # p, pc[q] \in {"slot", "fill"}
          PROVE  Idx(t[p]) # Idx(t[q])
      <3>1. t[q] \in Nat /\ t[q] # t[p] /\ ch <= t[q] /\ t[q] < ch + Size
        BY <2>1, <2>4 DEF HolderInv, TicketInv, Ticketed, TypeOK
      <3> QED BY <2>1, <2>2, <2>3, <3>1
    <2>5. ASSUME NEW k \in Held, Idx(k) = Idx(t[p]) PROVE k = t[p] - Size
      <3>1. k \in Nat /\ k < tail /\ tkt[Idx(k)] = k
        BY HeldTicket
      <3>2. k # t[p]
        BY <2>2, <2>5, <3>1
      <3>3. ~(ch <= k)
        BY <2>1, <2>2, <2>3, <2>5, <3>1, <3>2
      <3>4. Idx(k) \in Slots
        BY <3>1, IdxInSlots
      <3>5. ch <= k + Size
        BY <3>1, <3>4 DEF SlotInv, TypeOK, NoTicket
      <3>6. Idx(k + Size) = Idx(k)
        BY <3>1, IdxPeriodic
      <3>7. k + Size \in Nat /\ k + Size < ch + Size
        BY <2>1, <3>1, <3>3
      <3>8. k + Size = t[p]
        BY <2>1, <2>2, <2>3, <2>5, <3>5, <3>6, <3>7
      <3> QED BY <2>1, <3>1, <3>8
    <2> QED BY <2>4, <2>5
  <1> QED BY RingInductive, <1>1, PTL

-----------------------------------------------------------------------------
(* The log of submissions *)

LEMMA InitLogInv == Init => LogInv
  BY SizeAssumption
     DEF Init, LogInv, LogTypeOK, PhaseInv, SubmitInv, EntryInv

\* Steps that leave the log, the counters and the filled slots alone.
LEMMA LogKept ==
    ASSUME LogInv, UNCHANGED <<log, tail, ch, ci>>,
           \A p \in Producers : pc'[p] \in {"slot", "fill"} =>
               pc[p] \in {"slot", "fill"} /\ t'[p] = t[p],
           \A s \in Slots : st'[s] \in {"ready", "drained"} =>
               /\ st'[s] = st[s] /\ tkt'[s] = tkt[s]
               /\ val'[s] = val[s] /\ err'[s] = err[s]
    PROVE  LogInv'
  BY DEF LogInv, LogTypeOK, PhaseInv, SubmitInv, EntryInv

\* The tickets that producers and slots refer to have an entry.
LEMMA TicketsLogged ==
    ASSUME RingInv
    PROVE  /\ \A p \in Producers : Ticketed(p) => t[p] \in 0..tail-1
           /\ \A s \in Slots : st[s] # "free" => tkt[s] \in 0..tail-1
           /\ \A k \in orphans \cup reclaims : k \in 0..tail-1
           /\ tail \in Nat /\ ch \in Nat /\ ci \in Nat /\ ci <= ch /\ ch <= tail
  <1> USE DEF RingInv, TypeOK
  <1>1. \A p \in Producers : Ticketed(p) => t[p] \in 0..tail-1
    BY DEF TicketInv
  <1>2. \A s \in Slots : st[s] # "free" => tkt[s] \in 0..tail-1
    BY DEF SlotInv, NoTicket
  <1>3. \A k \in orphans \cup reclaims : k \in 0..tail-1
    BY DEF TicketInv
  <1>4. tail \in Nat /\ ch \in Nat /\ ci \in Nat /\ ci <= ch /\ ch <= tail
    BY DEF ConsumerInv
  <1> QED BY <1>1, <1>2, <1>3, <1>4

\* A submission is appended to the log under the ticket the CAS won.
LEMMA LogSubmit ==
    ASSUME RingInv, LogInv, NEW p \in Producers, EnqueueCas(p), tail = t[p]
    PROVE  LogInv'
  <1> DEFINE e == [val |-> p, st |-> "queued", err |-> NoErr]
  <1>a. /\ tail' = tail + 1 /\ log' = Append(log, e)
        /\ pc' = [pc EXCEPT ![p] = "slot"]
        /\ UNCHANGED <<st, val, err, tkt, t, ch, ci>>
    BY DEF EnqueueCas, Goto, slotVars, consVars
  <1>b. e \in Entries
    BY DEF Entries, AllErrs
  <1>c. e.val = p /\ e.st = "queued"
    OBVIOUS
  <1> HIDE DEF e
  <1>t. tail \in Nat /\ ch \in Nat /\ ci \in Nat /\ ci <= ch /\ ch <= tail
    BY TicketsLogged
  <1>1. /\ log' \in Seq(Entries) /\ Len(log') = tail + 1
        /\ log'[tail + 1] = e
        /\ \A k \in 0..tail-1 : log'[k+1] = log[k+1]
    BY <1>a, <1>b, <1>t DEF LogInv, LogTypeOK
  <1>2. LogTypeOK'
    BY <1>a, <1>1 DEF LogTypeOK
  <1>3. PhaseInv'
    <2> SUFFICES ASSUME NEW k \in 0..tail
                 PROVE  /\ ch <= k => log'[k+1].st = "queued"
                        /\ ci <= k /\ k < ch => log'[k+1].st = "drained"
                        /\ k < ci => log'[k+1].st \in {"decided", "closed"}
      <3>1. tail' - 1 = tail
        BY <1>a, <1>t
      <3> QED BY <1>a, <3>1 DEF PhaseInv
    <2>1. CASE k = tail
      BY <1>1, <1>c, <1>t, <2>1
    <2>2. CASE k # tail
      <3>1. k \in 0..tail-1
        BY <1>t, <2>2
      <3>2. log'[k+1] = log[k+1]
        BY <1>1, <3>1
      <3> QED BY <3>1, <3>2 DEF LogInv, PhaseInv
    <2> QED BY <2>1, <2>2
  <1>4. SubmitInv'
    <2> SUFFICES ASSUME NEW q \in Producers, pc'[q] \in {"slot", "fill"}
                 PROVE  log'[t[q]+1].val = q
      BY <1>a DEF SubmitInv
    <2>1. CASE q = p
      BY <1>1, <1>c, <2>1
    <2>2. CASE q # p
      <3>1. pc[q] \in {"slot", "fill"}
        BY <1>a, <2>2 DEF RingInv, TypeOK
      <3>2. t[q] \in 0..tail-1
        BY <3>1, TicketsLogged DEF Ticketed
      <3> QED BY <1>1, <3>1, <3>2 DEF LogInv, SubmitInv
    <2> QED BY <2>1, <2>2
  <1>5. EntryInv'
    <2>1. ASSUME NEW s \in Slots, st[s] # "free"
          PROVE  log'[tkt[s]+1] = log[tkt[s]+1]
      BY <1>1, <2>1, TicketsLogged
    <2> QED BY <1>a, <2>1 DEF LogInv, EntryInv
  <1> QED BY <1>2, <1>3, <1>4, <1>5 DEF LogInv

\* The slot of a ticket is filled with the value of the ticket's entry.
LEMMA LogPublish ==
    ASSUME RingInv, LogInv, NEW p \in Producers, EnqueuePublish(p)
    PROVE  LogInv'
  <1>a. /\ pc[p] = "fill"
        /\ val' = [val EXCEPT ![Idx(t[p])] = p]
        /\ err' = [err EXCEPT ![Idx(t[p])] = NoErr]
        /\ st' = [st EXCEPT ![Idx(t[p])] = "ready"]
        /\ pc' = [pc EXCEPT ![p] = "wait"]
        /\ UNCHANGED <<log, tail, t, tkt, ch, ci>>
    BY DEF EnqueuePublish, Goto, consVars
  <1>b. tkt[Idx(t[p])] = t[p]
    BY <1>a DEF RingInv, HolderInv
  <1>1. LogTypeOK' /\ PhaseInv'
    BY <1>a DEF LogInv, LogTypeOK, PhaseInv
  <1>2. SubmitInv'
    BY <1>a DEF LogInv, SubmitInv, RingInv, TypeOK
  <1>3. EntryInv'
    <2> SUFFICES ASSUME NEW s \in Slots
                 PROVE  /\ st'[s] = "ready" => log[tkt[s]+1].val = val'[s]
                        /\ st'[s] = "drained" => log[tkt[s]+1].err = err'[s]
                        /\ st'[s] = "drained" /\ tkt[s] < ci =>
                               log[tkt[s]+1].st = "decided"
      BY <1>a DEF EntryInv
    <2>1. CASE s = Idx(t[p])
      BY <1>a, <1>b, <2>1 DEF LogInv, SubmitInv, RingInv, TypeOK
    <2>2. CASE s # Idx(t[p])
      BY <1>a, <2>2 DEF LogInv, EntryInv, RingInv, TypeOK
    <2> QED BY <2>1, <2>2
  <1> QED BY <1>1, <1>2, <1>3 DEF LogInv

\* What it means for the log that the entry of ticket k is replaced.
LEMMA LogReplaced ==
    ASSUME LogTypeOK, tail \in Nat, NEW k \in 0..tail-1, NEW e \in Entries,
           log' = [log EXCEPT ![k+1] = e]
    PROVE  /\ log' \in Seq(Entries) /\ Len(log') = tail
           /\ log'[k+1] = e
           /\ \A j \in 0..tail-1 : j # k => log'[j+1] = log[j+1]
  <1>1. k+1 \in 1..Len(log)
    BY DEF LogTypeOK
  <1>2. /\ log' \in Seq(Entries) /\ Len(log') = Len(log)
        /\ \A j \in 1..Len(log) : log'[j] = IF j = k+1 THEN e ELSE log[j]
    <2>1. log \in Seq(Entries)
      BY DEF LogTypeOK
    <2> QED BY <1>1, <2>1, ExceptSeq
  <1>3. \A j \in 0..tail-1 : j+1 \in 1..Len(log) /\ (j # k => j+1 # k+1)
    BY DEF LogTypeOK
  <1> QED BY <1>1, <1>2, <1>3 DEF LogTypeOK

\* Closing the entry of a ticket whose signal was taken, and freeing its slot.
LEMMA LogFree ==
    ASSUME RingInv, LogInv, NEW k \in 0..tail-1, SignalledSlot(k), FreeSlot(k),
           UNCHANGED <<tail, ch, ci>>,
           \A p \in Producers : pc'[p] \in {"slot", "fill"} =>
               pc[p] \in {"slot", "fill"} /\ t'[p] = t[p]
    PROVE  LogInv'
  <1> DEFINE e == [val |-> NoErr, st |-> "closed", err |-> NoErr]
  <1>t. /\ tail \in Nat /\ ch \in Nat /\ ci \in Nat /\ ci <= ch /\ ch <= tail
        /\ k \in Nat /\ k < ci
    BY TicketsLogged DEF SignalledSlot
  <1>a. /\ val' = [val EXCEPT ![Idx(k)] = NoVal]
        /\ err' = [err EXCEPT ![Idx(k)] = NoErr]
        /\ st' = [st EXCEPT ![Idx(k)] = "free"]
        /\ tkt' = [tkt EXCEPT ![Idx(k)] = NoTicket]
        /\ log' = [log EXCEPT ![k+1] = e]
    BY DEF FreeSlot
  <1>b. e \in Entries
    BY DEF Entries, AllErrs
  <1>c. e.st = "closed"
    OBVIOUS
  <1> HIDE DEF e
  <1>1. /\ log' \in Seq(Entries) /\ Len(log') = tail
        /\ log'[k+1] = e
        /\ \A j \in 0..tail-1 : j # k => log'[j+1] = log[j+1]
    BY <1>a, <1>b, <1>t, LogReplaced DEF LogInv
  <1>2. LogTypeOK'
    BY <1>1 DEF LogTypeOK
  <1>3. PhaseInv'
    <2> SUFFICES ASSUME NEW j \in 0..tail-1
                 PROVE  /\ ch <= j => log'[j+1].st = "queued"
                        /\ ci <= j /\ j < ch => log'[j+1].st = "drained"
                        /\ j < ci => log'[j+1].st \in {"decided", "closed"}
      BY DEF PhaseInv
    <2>1. CASE j = k
      BY <1>1, <1>c, <1>t, <2>1
    <2>2. CASE j # k
      <3>1. log'[j+1] = log[j+1]
        BY <1>1, <2>2
      <3> QED BY <3>1 DEF LogInv, PhaseInv
    <2> QED BY <2>1, <2>2
  <1>4. SubmitInv'
    <2> SUFFICES ASSUME NEW q \in Producers, pc'[q] \in {"slot", "fill"}
                 PROVE  log'[t'[q]+1].val = q
      BY DEF SubmitInv
    <2>1. pc[q] \in {"slot", "fill"} /\ t'[q] = t[q]
      OBVIOUS
    <2>2. ch <= t[q] /\ t[q] \in 0..tail-1
      BY <2>1, TicketsLogged DEF RingInv, HolderInv, Ticketed
    <2>3. log'[t[q]+1] = log[t[q]+1]
      BY <1>1, <1>t, <2>2
    <2> QED BY <2>1, <2>3 DEF LogInv, SubmitInv
  <1>5. EntryInv'
    <2>1. ASSUME NEW s \in Slots, st'[s] # "free"
          PROVE  /\ st'[s] = st[s] /\ tkt'[s] = tkt[s]
                 /\ val'[s] = val[s] /\ err'[s] = err[s]
                 /\ log'[tkt[s]+1] = log[tkt[s]+1]
      <3>1. s # Idx(k)
        BY <1>a, <2>1 DEF RingInv, TypeOK
      <3>2. /\ st'[s] = st[s] /\ tkt'[s] = tkt[s]
            /\ val'[s] = val[s] /\ err'[s] = err[s]
        BY <1>a, <3>1 DEF RingInv, TypeOK
      <3>3. tkt[s] \in 0..tail-1 /\ tkt[s] # k
        BY <2>1, <3>1, <3>2, TicketsLogged DEF RingInv, SlotInv
      <3> QED BY <1>1, <3>2, <3>3
    <2> QED BY <2>1 DEF LogInv, EntryInv
  <1> QED BY <1>2, <1>3, <1>4, <1>5 DEF LogInv

\* An entry is replaced field by field.
LEMMA EntryUpdate ==
    ASSUME NEW r \in Entries, NEW x \in AllErrs,
           NEW s \in {"queued", "drained", "decided", "closed"}
    PROVE  /\ [r EXCEPT !.st = s, !.err = x] = [val |-> r.val, st |-> s, err |-> x]
           /\ [r EXCEPT !.st = s, !.err = x] \in Entries
  <1> DEFINE r1 == [r EXCEPT !.st = s]
             r2 == [r1 EXCEPT !.err = x]
  <1>1. r1 \in Entries /\ r1.val = r.val /\ r1.st = s
    BY DEF Entries
  <1> HIDE DEF r1
  <1>2. r2 \in Entries /\ r2 = [val |-> r1.val, st |-> r1.st, err |-> x]
    BY <1>1 DEF Entries
  <1> QED BY <1>1, <1>2 DEF r1

\* The entry of the ticket that Drain hands to fn, before and after.
LEMMA DrainedEntry ==
    ASSUME RingInv, LogInv, NEW e \in FnErrs \cup {NoErr}, DrainItem(e)
    PROVE  /\ ch \in 0..tail-1 /\ tkt[Idx(ch)] = ch
           /\ log[ch+1] \in Entries /\ log[ch+1].st = "queued"
           /\ log' = [log EXCEPT ![ch+1] = [@ EXCEPT !.st = "drained", !.err = e]]
  <1>1. st[Idx(ch)] = "ready" /\ ch < ct
    BY DEF DrainItem, Drainable
  <1>2. ch \in 0..tail-1 /\ Idx(ch) \in Slots
    BY <1>1, IdxInSlots DEF RingInv, TypeOK, ConsumerInv
  <1>3. tkt[Idx(ch)] = ch
    BY <1>1, ReadyTicket
  <1>4. log[ch+1].val = val[Idx(ch)]
    BY <1>1, <1>2, <1>3 DEF LogInv, EntryInv
  <1>5. log[ch+1].st = "queued"
    BY <1>2, TicketsLogged DEF LogInv, PhaseInv
  <1>6. log[ch+1] \in Entries
    <2>1. ch+1 \in 1..Len(log) /\ log \in Seq(Entries)
      BY <1>2, TicketsLogged DEF LogInv, LogTypeOK
    <2> QED BY <2>1, ElementOfSeq
  <1>7. [val |-> val[Idx(ch)], st |-> "drained", err |-> e]
          = [log[ch+1] EXCEPT !.st = "drained", !.err = e]
    <2>1. e \in AllErrs
      BY DEF AllErrs
    <2>2. [log[ch+1] EXCEPT !.st = "drained", !.err = e]
            = [val |-> log[ch+1].val, st |-> "drained", err |-> e]
      BY <1>6, <2>1, EntryUpdate, Zenon
    <2> QED BY <1>4, <2>2, Zenon
  <1>8. log' = [log EXCEPT ![ch+1] = [val |-> val[Idx(ch)], st |-> "drained",
                                      err |-> e]]
    BY DEF DrainItem
  <1> QED BY <1>2, <1>3, <1>5, <1>6, <1>7, <1>8

LEMMA LogDrain ==
    ASSUME RingInv, LogInv, NEW e \in FnErrs \cup {NoErr}, DrainItem(e)
    PROVE  LogInv'
  <1> DEFINE x == [log[ch+1] EXCEPT !.st = "drained", !.err = e]
  <1>a. /\ ch \in 0..tail-1 /\ tkt[Idx(ch)] = ch
        /\ log[ch+1] \in Entries
        /\ log' = [log EXCEPT ![ch+1] = x]
    BY DrainedEntry
  <1>b. /\ err' = [err EXCEPT ![Idx(ch)] = e]
        /\ st' = [st EXCEPT ![Idx(ch)] = "drained"]
        /\ ch' = ch + 1
        /\ UNCHANGED <<tail, val, tkt, pc, t, ci>>
    BY DEF DrainItem, prodVars
  <1>c. x \in Entries /\ x.st = "drained" /\ x.err = e
    BY <1>a DEF Entries, AllErrs
  <1> HIDE DEF x
  <1>t. tail \in Nat /\ ch \in Nat /\ ci \in Nat /\ ci <= ch /\ ch <= tail
    BY TicketsLogged
  <1>1. /\ log' \in Seq(Entries) /\ Len(log') = tail
        /\ log'[ch+1] = x
        /\ \A j \in 0..tail-1 : j # ch => log'[j+1] = log[j+1]
    BY <1>a, <1>c, <1>t, LogReplaced DEF LogInv
  <1>2. LogTypeOK'
    BY <1>1, <1>b DEF LogTypeOK
  <1>3. PhaseInv'
    <2> SUFFICES ASSUME NEW j \in 0..tail-1
                 PROVE  /\ ch + 1 <= j => log'[j+1].st = "queued"
                        /\ ci <= j /\ j < ch + 1 => log'[j+1].st = "drained"
                        /\ j < ci => log'[j+1].st \in {"decided", "closed"}
      BY <1>b DEF PhaseInv
    <2>1. CASE j = ch
      BY <1>1, <1>c, <1>t, <2>1
    <2>2. CASE j # ch
      <3>1. log'[j+1] = log[j+1]
        BY <1>1, <2>2
      <3>2. (ch + 1 <= j => ch <= j) /\ (j < ch + 1 => j < ch)
        BY <1>t, <2>2
      <3> QED BY <3>1, <3>2 DEF LogInv, PhaseInv
    <2> QED BY <2>1, <2>2
  <1>4. SubmitInv'
    <2> SUFFICES ASSUME NEW q \in Producers, pc[q] \in {"slot", "fill"}
                 PROVE  log'[t[q]+1].val = q
      BY <1>b DEF SubmitInv
    <2>1. t[q] \in 0..tail-1 /\ t[q] # ch
      <3>1. pc[q] = "slot" => tkt[Idx(t[q])] # t[q]
        BY DEF RingInv, HolderInv
      <3>2. pc[q] = "fill" => st[Idx(t[q])] = "fill"
        BY DEF RingInv, HolderInv
      <3>3. st[Idx(ch)] = "ready"
        BY DEF DrainItem, Drainable
      <3> QED BY <1>a, <3>1, <3>2, <3>3, TicketsLogged DEF Ticketed
    <2>2. log'[t[q]+1] = log[t[q]+1]
      BY <1>1, <2>1
    <2> QED BY <2>2 DEF LogInv, SubmitInv
  <1>5. EntryInv'
    <2> SUFFICES ASSUME NEW s \in Slots
                 PROVE  /\ st'[s] = "ready" => log'[tkt[s]+1].val = val[s]
                        /\ st'[s] = "drained" => log'[tkt[s]+1].err = err'[s]
                        /\ st'[s] = "drained" /\ tkt[s] < ci =>
                               log'[tkt[s]+1].st = "decided"
      BY <1>b DEF EntryInv
    <2>1. CASE s = Idx(ch)
      <3>1. st'[s] = "drained" /\ err'[s] = e /\ tkt[s] = ch
        BY <1>a, <1>b, <2>1 DEF RingInv, TypeOK
      <3> QED BY <1>1, <1>c, <1>t, <3>1
    <2>2. CASE s # Idx(ch)
      <3>1. st'[s] = st[s] /\ err'[s] = err[s]
        BY <1>b, <2>2 DEF RingInv, TypeOK
      <3>2. CASE st[s] # "free"
        <4>1. tkt[s] \in 0..tail-1 /\ tkt[s] # ch
          BY <2>2, <3>2, TicketsLogged DEF RingInv, SlotInv
        <4>2. log'[tkt[s]+1] = log[tkt[s]+1]
          BY <1>1, <4>1
        <4> QED BY <3>1, <4>2 DEF LogInv, EntryInv
      <3> QED BY <3>1, <3>2
    <2> QED BY <2>1, <2>2
  <1> QED BY <1>2, <1>3, <1>4, <1>5 DEF LogInv

\* The verdict of the ticket that Commit signals, and its entry.
Verdict == IF batchErr # NoErr THEN batchErr ELSE log[ci+1].err

LEMMA DecidedEntry ==
    ASSUME RingInv, LogInv, CommitItem
    PROVE  /\ ci \in 0..tail-1 /\ Idx(ci) \in Slots
           /\ tkt[Idx(ci)] = ci /\ st[Idx(ci)] = "drained"
           /\ log[ci+1] \in Entries /\ log[ci+1].st = "drained"
           /\ log[ci+1].err = err[Idx(ci)] /\ Verdict \in AllErrs
           /\ log' = [log EXCEPT ![ci+1] =
                         [@ EXCEPT !.st = "decided", !.err = Verdict]]
  <1>1. ci < ch
    BY DEF CommitItem
  <1>2. ci \in 0..tail-1 /\ ci \in ci..ch-1 /\ Idx(ci) \in Slots
    BY <1>1, IdxInSlots, TicketsLogged
  <1>3. tkt[Idx(ci)] = ci
    BY <1>2 DEF RingInv, ConsumerInv
  <1>4. st[Idx(ci)] = "drained"
    BY <1>1, <1>2, <1>3 DEF RingInv, TypeOK, SlotInv, NoTicket
  <1>5. log[ci+1].err = err[Idx(ci)]
    BY <1>2, <1>3, <1>4 DEF LogInv, EntryInv
  <1>6. log[ci+1].st = "drained"
    BY <1>1, <1>2, TicketsLogged DEF LogInv, PhaseInv
  <1>7. log[ci+1] \in Entries
    <2>1. ci+1 \in 1..Len(log) /\ log \in Seq(Entries)
      BY <1>2, TicketsLogged DEF LogInv, LogTypeOK
    <2> QED BY <2>1, ElementOfSeq
  <1>8. Verdict \in AllErrs
    BY <1>7 DEF Verdict, Entries, AllErrs, RingInv, TypeOK
  <1>9. log' = [log EXCEPT ![ci+1] =
                   [@ EXCEPT !.st = "decided", !.err = Verdict]]
    BY DEF CommitItem, Verdict
  <1> QED BY <1>2, <1>3, <1>4, <1>5, <1>6, <1>7, <1>8, <1>9

LEMMA LogCommit ==
    ASSUME RingInv, LogInv, CommitItem
    PROVE  LogInv'
  <1> DEFINE x == [log[ci+1] EXCEPT !.st = "decided", !.err = Verdict]
  <1>a. /\ ci \in 0..tail-1 /\ Idx(ci) \in Slots
        /\ tkt[Idx(ci)] = ci /\ st[Idx(ci)] = "drained"
        /\ log[ci+1] \in Entries
        /\ log[ci+1].err = err[Idx(ci)] /\ Verdict \in AllErrs
        /\ log' = [log EXCEPT ![ci+1] = x]
    BY DecidedEntry
  <1>b. /\ err' = [err EXCEPT ![Idx(ci)] = Verdict]
        /\ ci < ch /\ ci' = ci + 1
        /\ UNCHANGED <<tail, st, val, tkt, pc, t, ch>>
    BY <1>a DEF CommitItem, prodVars, Verdict
  <1>c. x \in Entries /\ x.st = "decided" /\ x.err = Verdict /\ x.val = log[ci+1].val
    <2>1. x = [val |-> log[ci+1].val, st |-> "decided", err |-> Verdict]
      BY <1>a, EntryUpdate, Zenon
    <2>2. x \in Entries
      BY <1>a, EntryUpdate, Zenon
    <2> HIDE DEF x
    <2> QED BY <2>1, <2>2
  <1> HIDE DEF x
  <1>t. tail \in Nat /\ ch \in Nat /\ ci \in Nat /\ ci <= ch /\ ch <= tail
    BY TicketsLogged
  <1>1. /\ log' \in Seq(Entries) /\ Len(log') = tail
        /\ log'[ci+1] = x
        /\ \A j \in 0..tail-1 : j # ci => log'[j+1] = log[j+1]
    BY <1>a, <1>c, <1>t, LogReplaced DEF LogInv
  <1>2. LogTypeOK'
    BY <1>1, <1>b DEF LogTypeOK
  <1>3. PhaseInv'
    <2> SUFFICES ASSUME NEW j \in 0..tail-1
                 PROVE  /\ ch <= j => log'[j+1].st = "queued"
                        /\ ci + 1 <= j /\ j < ch => log'[j+1].st = "drained"
                        /\ j < ci + 1 => log'[j+1].st \in {"decided", "closed"}
      BY <1>b DEF PhaseInv
    <2>1. CASE j = ci
      BY <1>1, <1>b, <1>c, <1>t, <2>1
    <2>2. CASE j # ci
      <3>1. log'[j+1] = log[j+1]
        BY <1>1, <2>2
      <3>2. (ci + 1 <= j => ci <= j) /\ (j < ci + 1 => j < ci)
        BY <1>t, <2>2
      <3> QED BY <3>1, <3>2 DEF LogInv, PhaseInv
    <2> QED BY <2>1, <2>2
  <1>4. SubmitInv'
    <2> SUFFICES ASSUME NEW q \in Producers, pc[q] \in {"slot", "fill"}
                 PROVE  log'[t[q]+1].val = q
      BY <1>b DEF SubmitInv
    <2>1. t[q] \in 0..tail-1 /\ ch <= t[q]
      BY TicketsLogged DEF Ticketed, RingInv, HolderInv
    <2>2. log'[t[q]+1] = log[t[q]+1]
      BY <1>1, <1>b, <1>t, <2>1
    <2> QED BY <2>2 DEF LogInv, SubmitInv
  <1>5. EntryInv'
    <2> SUFFICES ASSUME NEW s \in Slots
                 PROVE  /\ st[s] = "ready" => log'[tkt[s]+1].val = val[s]
                        /\ st[s] = "drained" => log'[tkt[s]+1].err = err'[s]
                        /\ st[s] = "drained" /\ tkt[s] < ci + 1 =>
                               log'[tkt[s]+1].st = "decided"
      BY <1>b DEF EntryInv
    <2>1. CASE s = Idx(ci)
      <3>1. err'[s] = Verdict /\ tkt[s] = ci /\ st[s] = "drained"
        BY <1>a, <1>b, <2>1 DEF RingInv, TypeOK
      <3> QED BY <1>1, <1>c, <3>1
    <2>2. CASE s # Idx(ci)
      <3>1. err'[s] = err[s]
        BY <1>b, <2>2 DEF RingInv, TypeOK
      <3>2. CASE st[s] # "free"
        <4>1. tkt[s] \in 0..tail-1 /\ tkt[s] # ci
          BY <2>2, <3>2, TicketsLogged DEF RingInv, SlotInv
        <4>2. log'[tkt[s]+1] = log[tkt[s]+1] /\ (tkt[s] < ci + 1 => tkt[s] < ci)
          BY <1>1, <1>t, <4>1
        <4> QED BY <3>1, <4>2 DEF LogInv, EntryInv
      <3> QED BY <3>1, <3>2
    <2> QED BY <2>1, <2>2
  <1> QED BY <1>2, <1>3, <1>4, <1>5 DEF LogInv

LEMMA NextLogInv == RingInv /\ LogInv /\ [Next]_vars => LogInv'
  <1> SUFFICES ASSUME RingInv, LogInv, [Next]_vars PROVE LogInv'
    OBVIOUS
  <1>1. ASSUME NEW p \in Producers,
               \/ EnqueueBegin(p) \/ EnqueueLoad(p) \/ EnqueueCheck(p)
               \/ EnqueueSlot(p) \/ WaitRecv(p) \/ WaitCancel(p)
               \/ EnqueueCas(p) /\ tail # t[p]
        PROVE  LogInv'
    <2> USE <1>1 DEF EnqueueBegin, EnqueueLoad, EnqueueCheck, EnqueueSlot,
            WaitRecv, WaitCancel, EnqueueCas, Goto, ReturnWith, slotVars, consVars
    <2>1. UNCHANGED <<log, tail, ch, ci, val, err>>
      OBVIOUS
    <2>2. \A q \in Producers : pc'[q] \in {"slot", "fill"} =>
             pc[q] \in {"slot", "fill"} /\ t'[q] = t[q]
      BY DEF RingInv, TypeOK
    <2>3. \A s \in Slots : st'[s] \in {"ready", "drained"} =>
             st'[s] = st[s] /\ tkt'[s] = tkt[s]
      BY IdxInSlots DEF RingInv, TypeOK
    <2> QED BY <2>1, <2>2, <2>3, LogKept
  <1>2. ASSUME NEW p \in Producers, EnqueueCas(p), tail = t[p] PROVE LogInv'
    BY <1>2, LogSubmit
  <1>3. ASSUME NEW p \in Producers, EnqueuePublish(p) PROVE LogInv'
    BY <1>3, LogPublish
  <1>4. ASSUME NEW p \in Producers, WaitReturn(p) \/ WaitDrop(p) PROVE LogInv'
    <2>1. /\ pc[p] \in {"got", "drop"} /\ FreeSlot(t[p])
          /\ UNCHANGED <<tail, ch, ci>>
          /\ pc' = [pc EXCEPT ![p] = "idle"] /\ t' = [t EXCEPT ![p] = 0]
      BY <1>4 DEF WaitReturn, WaitDrop, ReturnWith, Goto, consVars
    <2>2. SignalledSlot(t[p]) /\ t[p] \in 0..tail-1
      BY <2>1, TicketsLogged DEF RingInv, HolderInv, Ticketed
    <2>3. \A q \in Producers : pc'[q] \in {"slot", "fill"} =>
             pc[q] \in {"slot", "fill"} /\ t'[q] = t[q]
      BY <2>1 DEF RingInv, TypeOK
    <2> QED BY <2>1, <2>2, <2>3, LogFree
  <1>5. ASSUME NEW k \in orphans, OrphanRecv(k) PROVE LogInv'
    BY <1>5, LogKept DEF OrphanRecv, prodVars, consVars
  <1>6. ASSUME NEW k \in reclaims, OrphanFree(k) PROVE LogInv'
    <2>1. FreeSlot(k) /\ UNCHANGED <<tail, ch, ci, pc, t>>
      BY <1>6 DEF OrphanFree, prodVars, consVars
    <2>2. SignalledSlot(k) /\ k \in 0..tail-1
      BY TicketsLogged DEF RingInv, HolderInv
    <2> QED BY <2>1, <2>2, LogFree
  <1>7. CASE \/ DrainBegin \/ CommitEnd
             \/ \E e \in BatchErrs \cup {NoErr} : DrainEnd(e)
    <2>1. UNCHANGED <<log, tail, ch, ci, slotVars, prodVars>>
      BY <1>7 DEF DrainBegin, CommitEnd, DrainEnd, RingInv, ConsumerInv
    <2> QED BY <2>1, LogKept DEF slotVars, prodVars
  <1>8. ASSUME NEW e \in FnErrs \cup {NoErr}, DrainItem(e) PROVE LogInv'
    BY <1>8, LogDrain
  <1>9. CASE CommitItem
    BY <1>9, LogCommit
  <1>10. CASE UNCHANGED vars
    BY <1>10, LogKept DEF vars, slotVars, prodVars, consVars
  <1> QED
    BY <1>1, <1>2, <1>3, <1>4, <1>5, <1>6, <1>7, <1>8, <1>9, <1>10
       DEF Next, Enqueue, Wait, Orphan, Consumer

\* Counters, tickets, slots and submissions agree in every reachable state of
\* the ring.
THEOREM MpscInductive == Spec => []IndInv
  <1> QED BY InitRingInv, NextRingInv, InitLogInv, NextLogInv, PTL DEF Spec, IndInv

-----------------------------------------------------------------------------
(* The ring implements group commit *)

LEMMA RefinesInit == Init => GC!GCInit
  BY DEF Init, GC!GCInit, WaitIndex

\* Steps that neither take nor give back a ticket leave what p waits for alone.
LEMMA WaitIndexKept ==
    ASSUME \A p \in Producers :
               /\ Ticketed(p)' <=> Ticketed(p)
               /\ Ticketed(p) => t'[p] = t[p]
    PROVE  WaitIndex' = WaitIndex
  BY DEF WaitIndex, Ticketed

\* A producer that gives its ticket back no longer waits.
LEMMA WaitIndexReset ==
    ASSUME RingInv, NEW p \in Producers, Ticketed(p),
           pc' = [pc EXCEPT ![p] = "idle"], t' = [t EXCEPT ![p] = 0]
    PROVE  /\ WaitIndex[p] = t[p] + 1 /\ WaitIndex[p] # 0
           /\ WaitIndex' = [WaitIndex EXCEPT ![p] = 0]
  <1> USE DEF RingInv, TypeOK, Ticketed
  <1>1. WaitIndex[p] = t[p] + 1 /\ WaitIndex[p] # 0
    BY DEF WaitIndex
  <1>2. WaitIndex' = [WaitIndex EXCEPT ![p] = 0]
    BY DEF WaitIndex
  <1> QED BY <1>1, <1>2

\* A producer without a ticket waits for nothing.
LEMMA WaitIndexNone ==
    ASSUME NEW p \in Producers, ~Ticketed(p) PROVE WaitIndex[p] = 0
  BY DEF WaitIndex, Ticketed

LEMMA RefinesEnqueue ==
    ASSUME IndInv, NEW p \in Producers, EnqueueBegin(p) \/ Enqueue(p)
    PROVE  GC!GCNext \/ UNCHANGED GC!gcVars
  <1> USE DEF Goto, slotVars, consVars
  <1>t. pc \in [Producers -> {"idle", "load", "check", "cas", "slot", "fill",
                              "wait", "got", "drop"}]
        /\ t \in [Producers -> Nat]
    BY DEF IndInv, RingInv, TypeOK
  <1>1. CASE EnqueueBegin(p)
    <2>1. WaitIndex' = WaitIndex
      BY <1>1, <1>t, WaitIndexKept DEF EnqueueBegin, Ticketed
    <2>2. WaitIndex[p] = 0
      BY <1>1, WaitIndexNone DEF EnqueueBegin, Ticketed
    <2>3. GC!Call(p)
      BY <1>1, <2>1, <2>2 DEF EnqueueBegin, GC!Call
    <2> QED BY <2>3 DEF GC!GCNext
  <1>2. CASE EnqueueLoad(p)
    <2>1. WaitIndex' = WaitIndex
      BY <1>2, <1>t, WaitIndexKept DEF EnqueueLoad, Ticketed
    <2> QED BY <1>2, <2>1 DEF EnqueueLoad, GC!gcVars
  <1>3. CASE EnqueueCheck(p)
    <2>1. WaitIndex' = WaitIndex
      BY <1>3, <1>t, WaitIndexKept DEF EnqueueCheck, ReturnWith, Ticketed
    <2>2. WaitIndex[p] = 0
      BY <1>3, WaitIndexNone DEF EnqueueCheck, Ticketed
    <2>3. log' = log /\ (res' = res \/ res' = [res EXCEPT ![p] = "full"])
      BY <1>3 DEF EnqueueCheck, ReturnWith
    <2>4. CASE res' = res
      BY <2>1, <2>3, <2>4 DEF GC!gcVars
    <2>5. CASE res' = [res EXCEPT ![p] = "full"]
      <3>1. GC!Reject(p)
        BY <2>1, <2>2, <2>3, <2>5 DEF GC!Reject
      <3> QED BY <3>1 DEF GC!GCNext
    <2> QED BY <2>3, <2>4, <2>5
  <1>4. CASE EnqueueCas(p) /\ tail # t[p]
    <2>1. WaitIndex' = WaitIndex
      BY <1>4, <1>t, WaitIndexKept DEF EnqueueCas, Ticketed
    <2> QED BY <1>4, <2>1 DEF EnqueueCas, GC!gcVars
  <1>5. CASE EnqueueCas(p) /\ tail = t[p]
    <2>1. WaitIndex[p] = 0
      BY <1>5, WaitIndexNone DEF EnqueueCas, Ticketed
    <2>2. Len(log) = tail
      BY DEF IndInv, LogInv, LogTypeOK
    <2>3. WaitIndex' = [WaitIndex EXCEPT ![p] = Len(log) + 1]
      <3>1. pc' = [pc EXCEPT ![p] = "slot"] /\ t' = t
        BY <1>5 DEF EnqueueCas
      <3> QED BY <1>5, <1>t, <2>2, <3>1 DEF WaitIndex
    <2>4. GC!Submit(p)
      BY <1>5, <2>1, <2>3 DEF EnqueueCas, GC!Submit, GC!Entry
    <2> QED BY <2>4 DEF GC!GCNext
  <1>6. CASE EnqueueSlot(p)
    <2>1. WaitIndex' = WaitIndex
      BY <1>6, <1>t, WaitIndexKept DEF EnqueueSlot, Ticketed
    <2> QED BY <1>6, <2>1 DEF EnqueueSlot, GC!gcVars
  <1>7. CASE EnqueuePublish(p)
    <2>1. WaitIndex' = WaitIndex
      BY <1>7, <1>t, WaitIndexKept DEF EnqueuePublish, Ticketed
    <2> QED BY <1>7, <2>1 DEF EnqueuePublish, GC!gcVars
  <1> QED BY <1>1, <1>2, <1>3, <1>4, <1>5, <1>6, <1>7 DEF Enqueue

\* The entry of a ticket whose signal was taken: the verdict is final, and the
\* slot holds its error.
LEMMA SignalledEntry ==
    ASSUME IndInv, NEW k \in 0..tail-1, SignalledSlot(k)
    PROVE  k+1 \in 1..Len(log) /\ log[k+1].st = "decided" /\ log[k+1].err = err[Idx(k)]
  <1>1. k \in Nat /\ Idx(k) \in Slots
    BY IdxInSlots
  <1>2. Len(log) = tail /\ tail \in Nat
    BY DEF IndInv, RingInv, TypeOK, LogInv, LogTypeOK
  <1> QED BY <1>1, <1>2 DEF SignalledSlot, IndInv, LogInv, EntryInv

LEMMA RefinesWait ==
    ASSUME IndInv, NEW p \in Producers, Wait(p) \/ WaitCancel(p)
    PROVE  GC!GCNext \/ UNCHANGED GC!gcVars
  <1> USE DEF slotVars, consVars
  <1>t. pc \in [Producers -> {"idle", "load", "check", "cas", "slot", "fill",
                              "wait", "got", "drop"}]
        /\ t \in [Producers -> Nat]
    BY DEF IndInv, RingInv, TypeOK
  <1>1. CASE WaitRecv(p) \/ (WaitCancel(p) /\ done[Idx(t[p])] = 1)
    <2>1. WaitIndex' = WaitIndex
      BY <1>1, <1>t, WaitIndexKept DEF WaitRecv, WaitCancel, Goto, Ticketed
    <2> QED BY <1>1, <2>1 DEF WaitRecv, WaitCancel, GC!gcVars
  <1>2. CASE WaitCancel(p) /\ done[Idx(t[p])] # 1
    <2>1. /\ Ticketed(p) /\ pc' = [pc EXCEPT ![p] = "idle"]
          /\ t' = [t EXCEPT ![p] = 0] /\ log' = log
          /\ res' = [res EXCEPT ![p] = "cancelled"]
      BY <1>2 DEF WaitCancel, ReturnWith, Goto, Ticketed
    <2>2. WaitIndex[p] # 0 /\ WaitIndex' = [WaitIndex EXCEPT ![p] = 0]
      BY <2>1, WaitIndexReset DEF IndInv
    <2>3. GC!Abandon(p)
      BY <2>1, <2>2 DEF GC!Abandon
    <2> QED BY <2>3 DEF GC!GCNext
  <1>3. CASE WaitReturn(p) \/ WaitDrop(p)
    <2>1. /\ pc[p] \in {"got", "drop"} /\ Ticketed(p)
          /\ pc' = [pc EXCEPT ![p] = "idle"]
          /\ t' = [t EXCEPT ![p] = 0] /\ FreeSlot(t[p])
          /\ \/ res' = [res EXCEPT ![p] = err[Idx(t[p])]]
             \/ res' = [res EXCEPT ![p] = "cancelled"]
      BY <1>3 DEF WaitReturn, WaitDrop, ReturnWith, Goto, Ticketed
    <2>2. /\ WaitIndex[p] = t[p] + 1 /\ WaitIndex[p] # 0
          /\ WaitIndex' = [WaitIndex EXCEPT ![p] = 0]
      BY <2>1, WaitIndexReset DEF IndInv
    <2>3. SignalledSlot(t[p]) /\ t[p] \in 0..tail-1
      BY <2>1, TicketsLogged DEF IndInv, RingInv, HolderInv
    <2>4. log[t[p]+1].st = "decided" /\ log[t[p]+1].err = err[Idx(t[p])]
      BY <2>3, SignalledEntry
    <2>5. GC!Return(p)
      BY <2>1, <2>2, <2>4 DEF FreeSlot, GC!Return, GC!Closed
    <2> QED BY <2>5 DEF GC!GCNext
  <1> QED BY <1>1, <1>2, <1>3 DEF Wait

LEMMA RefinesOrphan ==
    ASSUME IndInv, Orphan
    PROVE  GC!GCNext \/ UNCHANGED GC!gcVars
  <1>1. ASSUME NEW k \in orphans, OrphanRecv(k) PROVE UNCHANGED GC!gcVars
    BY <1>1, WaitIndexKept DEF OrphanRecv, prodVars, Ticketed, GC!gcVars
  <1>2. ASSUME NEW k \in reclaims, OrphanFree(k) PROVE GC!GCNext
    <2>1. FreeSlot(k) /\ UNCHANGED prodVars
      BY <1>2 DEF OrphanFree
    <2>2. WaitIndex' = WaitIndex
      BY <2>1, WaitIndexKept DEF prodVars, Ticketed
    <2>3. SignalledSlot(k) /\ k \in 0..tail-1 /\ tail \in Nat
      BY TicketsLogged DEF IndInv, RingInv, HolderInv, TypeOK
    <2>4. k+1 \in 1..Len(log) /\ log[k+1].st = "decided"
      BY <2>3, SignalledEntry
    <2>5. \A p \in Producers : WaitIndex[p] # k+1
      BY <2>3 DEF WaitIndex, IndInv, RingInv, TicketInv, Ticketed, TypeOK
    <2>6. GC!Reclaim(k+1)
      BY <2>1, <2>2, <2>4, <2>5 DEF FreeSlot, GC!Reclaim, GC!Closed, prodVars
    <2> QED BY <2>4, <2>6 DEF GC!GCNext
  <1> QED BY <1>1, <1>2 DEF Orphan

LEMMA RefinesConsumer ==
    ASSUME IndInv, Consumer
    PROVE  GC!GCNext \/ UNCHANGED GC!gcVars
  <1>a. UNCHANGED prodVars
    BY DEF Consumer, DrainBegin, DrainItem, DrainEnd, CommitItem, CommitEnd
  <1>b. WaitIndex' = WaitIndex /\ res' = res
    BY <1>a, WaitIndexKept DEF prodVars, Ticketed
  <1>t. /\ tail \in Nat /\ ch \in Nat /\ ci \in Nat /\ ci <= ch /\ ch <= tail
        /\ Len(log) = tail
    BY TicketsLogged DEF IndInv, LogInv, LogTypeOK
  <1>1. CASE \/ DrainBegin \/ CommitEnd
             \/ \E e \in BatchErrs \cup {NoErr} : DrainEnd(e)
    BY <1>1, <1>b DEF DrainBegin, DrainEnd, CommitEnd, GC!gcVars
  <1>2. ASSUME NEW e \in FnErrs \cup {NoErr}, DrainItem(e) PROVE GC!GCNext
    <2>1. /\ ch \in 0..tail-1 /\ log[ch+1].st = "queued"
          /\ log' = [log EXCEPT ![ch+1] = [@ EXCEPT !.st = "drained", !.err = e]]
      BY <1>2, DrainedEntry DEF IndInv
    <2>2. ASSUME NEW j \in 1..((ch+1)-1) PROVE log[j].st # "queued"
      <3>1. j-1 \in 0..tail-1 /\ j-1 < ch /\ (j-1)+1 = j
        BY <1>t
      <3>2. \A k \in 0..tail-1 : k < ch =>
               log[k+1].st \in {"drained", "decided", "closed"}
        BY <1>t DEF IndInv, LogInv, PhaseInv
      <3>3. log[(j-1)+1].st \in {"drained", "decided", "closed"}
        BY <3>1, <3>2
      <3> QED BY <3>1, <3>3
    <2>3. GC!DrainNext(ch+1, e)
      BY <1>b, <2>1, <2>2 DEF GC!DrainNext
    <2>4. ch+1 \in 1..Len(log)
      BY <1>t, <2>1
    <2> QED BY <2>3, <2>4 DEF GC!GCNext
  <1>3. CASE CommitItem
    <2>1. /\ ci \in 0..tail-1 /\ log[ci+1].st = "drained" /\ Verdict \in AllErrs
          /\ log' = [log EXCEPT ![ci+1] =
                        [@ EXCEPT !.st = "decided", !.err = Verdict]]
      BY <1>3, DecidedEntry DEF IndInv
    <2>2. ASSUME NEW j \in 1..((ci+1)-1) PROVE log[j].st # "drained"
      <3>1. j-1 \in 0..tail-1 /\ j-1 < ci /\ (j-1)+1 = j
        BY <1>t
      <3>2. log[(j-1)+1].st \in {"decided", "closed"}
        BY <3>1 DEF IndInv, LogInv, PhaseInv
      <3> QED BY <3>1, <3>2
    <2>3. Verdict \in BatchErrs \cup {log[ci+1].err}
      BY DEF Verdict, IndInv, RingInv, TypeOK
    <2>4. GC!Decide(ci+1, Verdict)
      BY <1>b, <2>1, <2>2, <2>3 DEF GC!Decide
    <2>5. ci+1 \in 1..Len(log)
      BY <1>t, <2>1
    <2>6. Verdict \in FnErrs \cup BatchErrs \cup {NoErr}
      BY <2>1 DEF AllErrs
    <2> QED BY <2>4, <2>5, <2>6 DEF GC!GCNext
  <1> QED BY <1>1, <1>2, <1>3 DEF Consumer

LEMMA RefinesNext == IndInv /\ [Next]_vars => [GC!GCNext]_(GC!gcVars)
  <1> SUFFICES ASSUME IndInv, [Next]_vars
               PROVE  GC!GCNext \/ UNCHANGED GC!gcVars
    OBVIOUS
  <1>1. CASE Next
    BY <1>1, RefinesEnqueue, RefinesWait, RefinesOrphan, RefinesConsumer DEF Next
  <1>2. CASE UNCHANGED vars
    BY <1>2, WaitIndexKept DEF vars, prodVars, Ticketed, GC!gcVars
  <1> QED BY <1>1, <1>2

\* mpsc.Ring keeps the promise of group commit for every size of the ring and
\* any number of producers: every value is drained once and in ticket order,
\* and every producer gets the verdict of its own value.
THEOREM MpscImplementsGroupCommit == Spec => ImplementsGroupCommit
  <1> QED
    BY MpscInductive, RefinesInit, RefinesNext, PTL
       DEF Spec, ImplementsGroupCommit, GC!GCSpec

=============================================================================
