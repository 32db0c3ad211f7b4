------------------------------ MODULE MCIPMap -------------------------------
EXTENDS IPMap, TLC

\* Limiting, eviction and statistics touch different parts of an entry: each
\* is explored with the calls that can disturb it.
MCUses ==
  {[strict |-> FALSE, calls |-> {"limiter"}, max |-> 5, made |-> 1]} \cup
  [strict : BOOLEAN, calls : {{"allow"}}, max : {2}, made : {0}] \cup
  [strict : BOOLEAN, calls : {{"get", "evict", "purge"}}, max : {2}, made : {0}] \cup
  {[strict |-> TRUE, calls |-> {"get", "recent"}, max |-> 3, made |-> 0],
   [strict |-> FALSE, calls |-> {"get", "recent"}, max |-> 2, made |-> 0]}

Symmetric == Permutations(Procs)
=============================================================================
