------------------------------- MODULE MCLru --------------------------------
EXTENDS Lru, TLC
CONSTANTS c1, c2, k0, k1, k2, k3
\* Three keys share a shard of two; k0 is the key "".
MCShardOf == (k0 :> 1) @@ (k1 :> 1) @@ (k2 :> 1) @@ (k3 :> 2)
Symmetry == Permutations({c1, c2}) \cup Permutations({k1, k2})
=============================================================================
