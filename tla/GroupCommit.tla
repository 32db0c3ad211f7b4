----------------------------- MODULE GroupCommit -----------------------------
(***************************************************************************)
(* What mpsc.Ring promises to the users of the group-commit pattern:       *)
(* submitted values are handed to the consumer exactly once, in the order  *)
(* of their tickets, and every producer that waits is told the verdict of  *)
(* its own value: what the consumer's function returned for it, unless the *)
(* batch as a whole failed.  A producer may give up waiting; its value is  *)
(* processed all the same.                                                 *)
(***************************************************************************)
EXTENDS Naturals, Sequences

CONSTANTS Producers, FnErrs, BatchErrs, NoErr

VARIABLES log,    \* all submissions in ticket order, with what became of each
          wait,   \* wait[p]: the entry p waits for, 0 for none
          res     \* res[p]: what p's last call returned

gcVars == <<log, wait, res>>

\* A producer stands for the value it submits.
Entry(p) == [val |-> p, st |-> "queued", err |-> NoErr]
Closed == [val |-> NoErr, st |-> "closed", err |-> NoErr]

GCInit ==
    /\ log = <<>>
    /\ wait = [p \in Producers |-> 0]
    /\ res = [p \in Producers |-> NoErr]

Call(p) ==
    /\ wait[p] = 0
    /\ res' = [res EXCEPT ![p] = NoErr]
    /\ UNCHANGED <<log, wait>>

Submit(p) ==
    /\ wait[p] = 0
    /\ log' = Append(log, Entry(p))
    /\ wait' = [wait EXCEPT ![p] = Len(log) + 1]
    /\ UNCHANGED res

Reject(p) ==
    /\ wait[p] = 0
    /\ res' = [res EXCEPT ![p] = "full"]
    /\ UNCHANGED <<log, wait>>

\* The consumer's function is handed the oldest value it has not seen.
DrainNext(k, e) ==
    /\ log[k].st = "queued"
    /\ \A j \in 1..(k-1) : log[j].st # "queued"
    /\ log' = [log EXCEPT ![k] = [@ EXCEPT !.st = "drained", !.err = e]]
    /\ UNCHANGED <<wait, res>>

\* The verdict is final: the function's error, or the batch's error over it.
Decide(k, e) ==
    /\ log[k].st = "drained"
    /\ \A j \in 1..(k-1) : log[j].st # "drained"
    /\ e \in BatchErrs \cup {log[k].err}
    /\ log' = [log EXCEPT ![k] = [@ EXCEPT !.st = "decided", !.err = e]]
    /\ UNCHANGED <<wait, res>>

Return(p) ==
    /\ wait[p] # 0
    /\ log[wait[p]].st = "decided"
    /\ res' \in {[res EXCEPT ![p] = log[wait[p]].err],
                 [res EXCEPT ![p] = "cancelled"]}
    /\ log' = [log EXCEPT ![wait[p]] = Closed]
    /\ wait' = [wait EXCEPT ![p] = 0]

Abandon(p) ==
    /\ wait[p] # 0
    /\ res' = [res EXCEPT ![p] = "cancelled"]
    /\ wait' = [wait EXCEPT ![p] = 0]
    /\ UNCHANGED log

\* The entry of a producer that gave up is released after its verdict.
Reclaim(k) ==
    /\ log[k].st = "decided"
    /\ \A p \in Producers : wait[p] # k
    /\ log' = [log EXCEPT ![k] = Closed]
    /\ UNCHANGED <<wait, res>>

GCNext ==
    \/ \E p \in Producers :
           Call(p) \/ Submit(p) \/ Reject(p) \/ Return(p) \/ Abandon(p)
    \/ \E k \in 1..Len(log) :
           \/ \E e \in FnErrs \cup {NoErr} : DrainNext(k, e)
           \/ \E e \in FnErrs \cup BatchErrs \cup {NoErr} : Decide(k, e)
           \/ Reclaim(k)

GCSpec == GCInit /\ [][GCNext]_gcVars
==============================================================================
