---------------------------- MODULE MCSequential ----------------------------
(* The structures of one goroutine: the byte buffer and the radix tree share *)
(* nothing, so a behaviour is about one of them, and the other stays empty.  *)
EXTENDS RingBuffer, Art
VARIABLE subject

\* One workload nests the keys of the tree.  The other fans out to every kind
\* of node, below a prefix that the key <<2>> splits and its deletion merges.
Nested == {<< <<>>, 1 >>, << <<0>>, 1 >>, << <<1>>, 1 >>, << <<1, 0>>, 1 >>,
           << <<1, 0, 2>>, 1 >>, << <<1, 0, 2>>, 2 >>, << <<1, 0, 2, 1>>, 1 >>,
           << <<1, 0, 2, 2>>, 1 >>, << <<1, 0, 3, 0>>, 1 >>}
Wide == {<< <<0, 1, i>>, 1 >> : i \in 0 .. 5} \cup {<< <<2>>, 1 >>}

MCWorkloads == {Nested, Wide}
MCStarts == {kv[1] : kv \in Nested \cup Wide}
            \cup {<<1, 0, 1>>, <<1, 0, 3>>, <<1, 0, 2, 3>>, <<0>>, <<0, 0>>, <<0, 1, 6>>, <<0, 2>>}

SequentialInit == /\ BufferInit /\ Init
                  /\ \/ subject = "buffer" /\ load = Nested
                     \/ subject = "tree" /\ b.buf = <<>>

SequentialNext == /\ UNCHANGED subject
                  /\ \/ subject = "buffer" /\ BufferNext /\ UNCHANGED vars
                     \/ subject = "tree" /\ Next /\ UNCHANGED bufferVars

SequentialSpec == SequentialInit /\ [][SequentialNext]_<<subject, bufferVars, vars>>
=============================================================================
