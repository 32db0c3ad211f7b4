------------------------------- MODULE Wheel --------------------------------
(***************************************************************************)
(* wheel.Wheel: callers Add and Cancel entries while one goroutine (Run)   *)
(* advances the wheel.  What happens under the mutex is one step; taking   *)
(* an entry object from the pool and filling it, clearing it after Cancel, *)
(* and the calls of fn are steps of their own.  An entry's id also stands  *)
(* for the value it was added with; 0 is the zero value.                   *)
(*                                                                         *)
(* left[id] counts the ticks until id should fire, by the delay it was     *)
(* added with, slack[id] is a lap if that delay is a whole number of laps, *)
(* and outcome[id] records whether it fired or Cancel returned true for    *)
(* it: history only.                                                       *)
(***************************************************************************)
EXTENDS Integers, Sequences, FiniteSets, SequencesExt

CONSTANTS Clients,
          Objs,     \* entry objects, enough for all that are in use at once
          NSlots,   \* slots of the wheel, a power of two
          MaxTicks, \* bound on the ticks of an Add
          MaxID,    \* bound on the number of Adds
          NoObj

ASSUME WheelAssumption == /\ NSlots \in Nat \ {0}
                          /\ MaxTicks \in Nat \ {0} /\ MaxID \in Nat
                          /\ NoObj \notin Objs

Slots == 0 .. NSlots - 1
IDs == 1 .. MaxID

VARIABLES
  slots, cur, nextID, index, \* the fields of Wheel
  obj,      \* each entry object's id, val and rounds
  pool,     \* objects that Get may return
  stage, mine, \* each caller: idle, add, clear; the object in its hands
  ticks,    \* the delay of the entry it is adding
  expired,  \* values Advance has collected and not yet passed to fn
  left, slack, outcome

wheelVars == <<slots, cur, nextID, index, obj, pool, stage, mine, ticks, expired, left, slack, outcome>>

WheelInit ==
        /\ slots = [s \in Slots |-> <<>>] /\ cur = 0 /\ nextID = 0
        /\ index = [i \in IDs |-> NoObj]
        /\ obj = [o \in Objs |-> [id |-> 0, val |-> 0, rounds |-> 0]]
        /\ pool = Objs
        /\ stage = [c \in Clients |-> "idle"] /\ mine = [c \in Clients |-> NoObj]
        /\ ticks = [c \in Clients |-> 0]
        /\ expired = <<>>
        /\ left = [i \in IDs |-> 0] /\ slack = [i \in IDs |-> 0]
        /\ outcome = [i \in IDs |-> "none"]

-----------------------------------------------------------------------------
\* How many of the positions P have been passed at i.
Rank(P, i) == Cardinality({j \in P : j <= i})

\* The elements of the list l that are in S, in their order.
Only(l, S) ==
  LET P == {i \in 1 .. Len(l) : l[i] \in S}
  IN [k \in 1 .. Cardinality(P) |-> l[CHOOSE i \in P : Rank(P, i) = k]]

\* Add up to the lock: a new id, and an object of the pool's choice, filled;
\* rounds is still what the object's last user left.
AddBegin(c, d) ==
  /\ stage[c] = "idle" /\ nextID < MaxID
  /\ nextID' = nextID + 1
  /\ \E o \in pool :
       /\ pool' = pool \ {o}
       /\ mine' = [mine EXCEPT ![c] = o]
       /\ obj' = [obj EXCEPT ![o].id = nextID', ![o].val = nextID']
  /\ ticks' = [ticks EXCEPT ![c] = IF d <= 0 THEN 1 ELSE d]
  /\ stage' = [stage EXCEPT ![c] = "add"]
  /\ UNCHANGED <<slots, cur, index, expired, left, slack, outcome>>

\* A bug the code avoids: the slot is found without the current position.
AddAtFixedSlot(c) ==
  LET o == mine[c]
      d == ticks[c]
      pos == d % NSlots
  IN /\ stage[c] = "add"
     /\ obj' = [obj EXCEPT ![o].rounds = d \div NSlots]
     /\ slots' = [slots EXCEPT ![pos] = Append(@, o)]
     /\ index' = [index EXCEPT ![obj[o].id] = o]
     /\ left' = [left EXCEPT ![obj[o].id] = d]
     /\ slack' = [slack EXCEPT ![obj[o].id] = IF d % NSlots = 0 THEN NSlots ELSE 0]
     /\ stage' = [stage EXCEPT ![c] = "idle"]
     /\ mine' = [mine EXCEPT ![c] = NoObj] /\ ticks' = [ticks EXCEPT ![c] = 0]
     /\ UNCHANGED <<cur, nextID, pool, expired, outcome>>

\* Add's part under the lock.
AddInsert(c) ==
  LET o == mine[c]
      d == ticks[c]
      pos == (cur + d) % NSlots
  IN /\ stage[c] = "add"
     /\ obj' = [obj EXCEPT ![o].rounds = d \div NSlots]
     /\ slots' = [slots EXCEPT ![pos] = Append(@, o)]
     /\ index' = [index EXCEPT ![obj[o].id] = o]
     /\ left' = [left EXCEPT ![obj[o].id] = d]
     /\ slack' = [slack EXCEPT ![obj[o].id] = IF d % NSlots = 0 THEN NSlots ELSE 0]
     /\ stage' = [stage EXCEPT ![c] = "idle"]
     /\ mine' = [mine EXCEPT ![c] = NoObj] /\ ticks' = [ticks EXCEPT ![c] = 0]
     /\ UNCHANGED <<cur, nextID, pool, expired, outcome>>

\* A bug the code avoids: the object goes back to the pool, still linked.
CancelKeepsLink(c, id) ==
  /\ stage[c] = "idle" /\ index[id] # NoObj
  /\ index' = [index EXCEPT ![id] = NoObj]
  /\ mine' = [mine EXCEPT ![c] = index[id]]
  /\ left' = [left EXCEPT ![id] = 0] /\ slack' = [slack EXCEPT ![id] = 0]
  /\ outcome' = [outcome EXCEPT ![id] = "cancelled"]
  /\ stage' = [stage EXCEPT ![c] = "clear"]
  /\ UNCHANGED <<slots, cur, nextID, obj, pool, ticks, expired>>

\* Cancel's part under the lock, for an id it finds.
Cancel(c, id) ==
  /\ stage[c] = "idle" /\ index[id] # NoObj
  /\ index' = [index EXCEPT ![id] = NoObj]
  /\ slots' = [s \in Slots |-> Only(slots[s], Objs \ {index[id]})]
  /\ mine' = [mine EXCEPT ![c] = index[id]]
  /\ left' = [left EXCEPT ![id] = 0] /\ slack' = [slack EXCEPT ![id] = 0]
  /\ outcome' = [outcome EXCEPT ![id] = "cancelled"]
  /\ stage' = [stage EXCEPT ![c] = "clear"]
  /\ UNCHANGED <<cur, nextID, obj, pool, ticks, expired>>

CancelClear(c) ==
  /\ stage[c] = "clear"
  /\ obj' = [obj EXCEPT ![mine[c]].val = 0]
  /\ pool' = pool \cup {mine[c]}
  /\ mine' = [mine EXCEPT ![c] = NoObj]
  /\ stage' = [stage EXCEPT ![c] = "idle"]
  /\ UNCHANGED <<slots, cur, nextID, index, ticks, expired, left, slack, outcome>>

\* Advance's part under the lock: the slot's entries lose a round or expire.
Advance ==
  LET s == (cur + 1) % NSlots
      due == {o \in ToSet(slots[s]) : obj[o].rounds = 0}
      fire == Only(slots[s], due)
  IN /\ expired = <<>>
     /\ cur' = s
     /\ slots' = [slots EXCEPT ![s] = Only(@, Objs \ due)]
     /\ obj' = [o \in Objs |->
                  IF o \in due THEN [obj[o] EXCEPT !.val = 0]
                  ELSE IF o \in ToSet(slots[s]) THEN [obj[o] EXCEPT !.rounds = @ - 1]
                  ELSE obj[o]]
     /\ index' = [i \in IDs |-> IF \E o \in due : obj[o].id = i THEN NoObj ELSE index[i]]
     /\ pool' = pool \cup due
     /\ expired' = [i \in 1 .. Len(fire) |-> obj[fire[i]].val]
     /\ left' = [i \in IDs |-> IF index[i] # NoObj THEN left[i] - 1 ELSE left[i]]
     /\ UNCHANGED <<nextID, stage, mine, ticks, slack, outcome>>

\* Advance calls fn, outside the lock.  outcome is that of the value's id.
Fire ==
  /\ expired # <<>>
  /\ expired' = Tail(expired)
  /\ outcome' = [outcome EXCEPT ![Head(expired)] =
                   IF @ = "none" THEN "fired" ELSE "again"]
  /\ UNCHANGED <<slots, cur, nextID, index, obj, pool, stage, mine, ticks, left, slack>>

WheelNext ==
        \/ \E c \in Clients : \/ \E d \in 0 .. MaxTicks : AddBegin(c, d)
                              \/ AddInsert(c)
                              \/ \E id \in IDs : Cancel(c, id)
                              \/ CancelClear(c)
        \/ Advance \/ Fire

WheelSpec == WheelInit /\ [][WheelNext]_wheelVars

-----------------------------------------------------------------------------
(* Properties.                                                             *)

\* What Add says, "expires after d": an entry that is still in the wheel is not
\* overdue, and one that Advance has taken out was due at that very tick.  The
\* code gives an entry d / NSlots rounds; when NSlots divides d, its slot is the
\* current one, which Advance reaches only after a whole lap.
FiresOnTick == \A i \in IDs :
                 /\ index[i] # NoObj => left[i] > 0
                 /\ (\E k \in DOMAIN expired : expired[k] = i) => left[i] = 0
                 /\ outcome[i] = "fired" => left[i] = 0

\* An entry whose delay is no whole number of laps fires at the very tick its
\* delay says; any other is not early and at most a lap late.  No entry is
\* forgotten, whatever Add and Cancel do between two ticks.
FiresWhenDue == \A i \in IDs :
                  /\ index[i] # NoObj => left[i] + slack[i] > 0
                  /\ (\E k \in DOMAIN expired : expired[k] = i) => left[i] \in -slack[i] .. 0
                  /\ outcome[i] = "fired" => left[i] \in -slack[i] .. 0

\* fn gets the value of an entry once, never the zero value or that of an
\* object's next user, and not at all when Cancel has returned true, although
\* objects are cleared and reused while Advance is still calling fn.
FiresOwnValueOnce ==
  /\ \A i \in IDs : outcome[i] # "again"
  /\ \A k \in DOMAIN expired : expired[k] \in IDs /\ outcome[expired[k]] = "none"
  /\ \A i \in IDs : index[i] # NoObj => obj[index[i]].id = i /\ obj[index[i]].val = i

-----------------------------------------------------------------------------
(* The inductive invariant.                                                *)

WheelTypeOK ==
  /\ slots \in [Slots -> Seq(Objs)] /\ cur \in Slots /\ nextID \in 0 .. MaxID
  /\ index \in [IDs -> Objs \cup {NoObj}]
  /\ obj \in [Objs -> [id : 0 .. MaxID, val : 0 .. MaxID, rounds : Nat]]
  /\ pool \in SUBSET Objs
  /\ stage \in [Clients -> {"idle", "add", "clear"}]
  /\ mine \in [Clients -> Objs \cup {NoObj}]
  /\ ticks \in [Clients -> 0 .. MaxTicks] /\ expired \in Seq(IDs)
  /\ left \in [IDs -> Int] /\ slack \in [IDs -> {0, NSlots}]
  /\ outcome \in [IDs -> {"none", "cancelled", "fired", "again"}]

\* The object o is in the list of slot s.
Linked(o, s) == \E k \in 1 .. Len(slots[s]) : slots[s][k] = o

\* An object is in one place: one slot, once, or the pool, or the hands of one
\* caller, who is between the two parts of Add or of Cancel.
PlacesInv ==
  /\ \A s \in Slots : \A j, k \in 1 .. Len(slots[s]) :
       slots[s][j] = slots[s][k] => j = k
  /\ \A o \in Objs : \A s, t \in Slots : Linked(o, s) /\ Linked(o, t) => s = t
  /\ \A o \in pool : \A s \in Slots : ~Linked(o, s)
  /\ \A c \in Clients : /\ mine[c] = NoObj <=> stage[c] = "idle"
                        /\ mine[c] \notin pool
                        /\ \A s \in Slots : ~Linked(mine[c], s)
  /\ \A c, d \in Clients : mine[c] = mine[d] /\ mine[c] # NoObj => c = d

\* The ticks until Advance comes to slot s, a lap for the current one.
Distance(s) == IF cur < s THEN s - cur ELSE s + NSlots - cur

\* The index names the linked objects, each by the id it was added with, and
\* rounds and slot of each agree with the ticks it has left, slack included.
IndexInv ==
  /\ \A s \in Slots, o \in Objs : Linked(o, s) =>
       LET i == obj[o].id
       IN /\ i \in IDs /\ index[i] = o /\ obj[o].val = i
          /\ left[i] + slack[i] = obj[o].rounds * NSlots + Distance(s)
  /\ \A i \in IDs : index[i] # NoObj => /\ \E s \in Slots : Linked(index[i], s)
                                         /\ obj[index[i]].id = i
                                         /\ i <= nextID /\ outcome[i] = "none"

\* An id whose entry is in the hands of Add is in no other place.
AddInv ==
  /\ \A c \in Clients : stage[c] = "add" =>
       LET i == obj[mine[c]].id
       IN /\ ticks[c] >= 1 /\ i \in 1 .. nextID /\ obj[mine[c]].val = i
          /\ index[i] = NoObj /\ outcome[i] = "none"
          /\ \A k \in 1 .. Len(expired) : expired[k] # i
  /\ \A c, d \in Clients : stage[c] = "add" /\ stage[d] = "add" /\ c # d
                            => obj[mine[c]].id # obj[mine[d]].id

\* Ids not yet given out, ids whose fn is yet to be called, and ids that fired.
OutcomeInv ==
  /\ \A i \in IDs : i > nextID => index[i] = NoObj /\ outcome[i] = "none"
  /\ \A k \in 1 .. Len(expired) :
       /\ expired[k] <= nextID /\ outcome[expired[k]] = "none"
       /\ index[expired[k]] = NoObj /\ left[expired[k]] + slack[expired[k]] = 0
  /\ \A j, k \in 1 .. Len(expired) : expired[j] = expired[k] => j = k
  /\ \A i \in IDs : outcome[i] # "again" /\ (outcome[i] = "fired" => left[i] + slack[i] = 0)

WheelInv == WheelTypeOK /\ PlacesInv /\ IndexInv /\ AddInv /\ OutcomeInv
=============================================================================
