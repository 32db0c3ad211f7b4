----------------------------- MODULE OrderedMap -----------------------------
(***************************************************************************)
(* What a dictionary promises: a map from keys to values and the number of *)
(* its entries.  `call' is the operation that has just taken effect, with  *)
(* its arguments, `reply' what it is about to return: the value its key    *)
(* had before, Absent if it had none.  Between two operations `call' is    *)
(* NoCall.                                                                 *)
(***************************************************************************)
EXTENDS FiniteSets, Integers

CONSTANTS Keys, Values, Absent, NoCall

VARIABLES dict, size, call, reply

mapVars == <<dict, size, call, reply>>

Empty == [k \in Keys |-> Absent]

Init == dict = Empty /\ size = 0 /\ call = NoCall /\ reply = Absent

\* The operation c replies r and leaves the map d behind.
Operation(c, r, d) ==
  /\ call = NoCall /\ call' = c
  /\ reply' = r
  /\ dict' = d /\ size' = Cardinality({k \in Keys : d[k] # Absent})

Put(k, v) == Operation(<<"put", k, v>>, dict[k], [dict EXCEPT ![k] = v])
Delete(k) == Operation(<<"delete", k>>, dict[k], [dict EXCEPT ![k] = Absent])
Reset == Operation(<<"reset">>, Absent, Empty)

Return == call # NoCall /\ call' = NoCall /\ reply' = Absent /\ UNCHANGED <<dict, size>>

Next == \/ \E k \in Keys, v \in Values : Put(k, v)
        \/ \E k \in Keys : Delete(k)
        \/ Reset \/ Return

Spec == Init /\ [][Next]_mapVars
=============================================================================
