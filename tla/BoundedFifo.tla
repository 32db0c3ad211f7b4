----------------------------- MODULE BoundedFifo -----------------------------
(***************************************************************************)
(* What a bounded single-producer single-consumer queue promises: Push and *)
(* Pop each take effect in one instant between their call and their return,*)
(* values come out in the order they went in, Push says "full" only when   *)
(* the queue holds Cap values and Pop says "empty" only when it holds none.*)
(*                                                                         *)
(* spsc.Ring is shown to implement this specification (module Spsc).       *)
(***************************************************************************)
EXTENDS Naturals, Sequences

CONSTANTS Cap,      \* number of values the queue holds
          Value,    \* the values pushed
          Zero      \* Go's zero value of the element type

VARIABLES q,        \* the values pushed and not yet popped
          push,     \* the producer's call: its status and argument
          pop       \* the consumer's call: its status and result

fifoVars == <<q, push, pop>>

FifoInit ==
    /\ q = <<>>
    /\ push = [st |-> "ok", val |-> Zero]
    /\ pop = [st |-> "ok", val |-> Zero]

PushCall(v) ==
    /\ push.st # "busy"
    /\ push' = [st |-> "busy", val |-> v]
    /\ UNCHANGED <<q, pop>>

PushOk ==
    /\ push.st = "busy"
    /\ Len(q) < Cap
    /\ q' = Append(q, push.val)
    /\ push' = [st |-> "ok", val |-> push.val]
    /\ UNCHANGED pop

PushFull ==
    /\ push.st = "busy"
    /\ Len(q) = Cap
    /\ push' = [st |-> "full", val |-> push.val]
    /\ UNCHANGED <<q, pop>>

PopCall ==
    /\ pop.st # "busy"
    /\ pop' = [st |-> "busy", val |-> Zero]
    /\ UNCHANGED <<q, push>>

PopOk ==
    /\ pop.st = "busy"
    /\ q # <<>>
    /\ pop' = [st |-> "ok", val |-> Head(q)]
    /\ q' = Tail(q)
    /\ UNCHANGED push

PopEmpty ==
    /\ pop.st = "busy"
    /\ q = <<>>
    /\ pop' = [st |-> "empty", val |-> Zero]
    /\ UNCHANGED <<q, push>>

FifoNext ==
    \/ \E v \in Value : PushCall(v)
    \/ PushOk
    \/ PushFull
    \/ PopCall
    \/ PopOk
    \/ PopEmpty

FifoSpec == FifoInit /\ [][FifoNext]_fifoVars
==============================================================================
