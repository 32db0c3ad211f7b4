-------------------------------- MODULE Art ---------------------------------
(***************************************************************************)
(* art.Tree: an adaptive radix tree.  A tree is a value: NIL, a leaf with  *)
(* its whole key, or an inner node with a compressed prefix, the leaf of   *)
(* the key that ends at it, and its children.  `keys' are the children's   *)
(* bytes in ascending order (keys of node4 and node16, sorted of node48,   *)
(* the present bits of node256), `slot' the place of a byte's child: in a  *)
(* node48 the slot index[c] - 1 names, a free one taken at insertion; in   *)
(* the other kinds the byte itself, since the parallel arrays of node4 and *)
(* node16 are indexed by the byte's position and shifted together.         *)
(*                                                                         *)
(* The capacities 4, 16 and 48 are constants so that all kinds of node     *)
(* occur with few bytes.  A visitor that stops a walk early sees the first *)
(* entries of the sequence the walk's operator gives.  The prefix arena    *)
(* and the slab of leaves are memory a prefix or leaf lives in and never   *)
(* change what it holds: CompactPrefixArena copies every prefix as it is.  *)
(***************************************************************************)
EXTENDS Integers, Sequences, SequencesExt, FiniteSetsExt, TLC

CONSTANTS Cap4, Cap16, Cap48, \* children a node4, node16, node48 holds
          Workloads,          \* sets of <<key, value>> pairs a caller may use
          Starts,             \* arguments of Seek and ScanPrefix
          Absent,             \* the zero value of a missing entry
          NoCall

ASSUME KindsAssumption == 2 <= Cap4 /\ Cap4 < Cap16 /\ Cap16 < Cap48

VARIABLES root, size,
          call,  \* the operation under way with its arguments, NoCall between two
          reply, \* what it is about to return
          load   \* the workload of this behaviour

vars == <<root, size, call, reply, load>>

Inputs == UNION Workloads
Keys == {kv[1] : kv \in Inputs}
Values == {kv[2] : kv \in Inputs}

NIL == [kind |-> "nil"]
Leaf(key, val) == [kind |-> "leaf", key |-> key, val |-> val]
EmptyNode(kind, prefix, leaf) ==
  [kind |-> kind, prefix |-> prefix, leaf |-> leaf,
   keys |-> <<>>, slot |-> <<>>, kids |-> <<>>]

-----------------------------------------------------------------------------
(* Nodes (node.go).                                                        *)

Room(kind) == CASE kind = "node4" -> Cap4
               [] kind = "node16" -> Cap16
               [] kind = "node48" -> Cap48

Larger(kind) == CASE kind = "node4" -> "node16"
                  [] kind = "node16" -> "node48"
                  [] kind = "node48" -> "node256"

Smaller(kind) == CASE kind = "node16" -> "node4"
                   [] kind = "node48" -> "node16"
                   [] kind = "node256" -> "node48"

HasChild(nd, c) == c \in DOMAIN nd.slot
FindChild(nd, c) == nd.kids[nd.slot[c]]
SetChild(nd, c, child) == [nd EXCEPT !.kids[nd.slot[c]] = child]

\* The lowest set bit of node48.free.
FreeSlot(nd) == Min((1 .. Cap48) \ DOMAIN nd.kids)

AddChild(nd, c, child) ==
  LET s == IF nd.kind = "node48" THEN FreeSlot(nd) ELSE c
      pos == Min({i \in 1 .. Len(nd.keys) : c < nd.keys[i]}
                 \cup {Len(nd.keys) + 1})
  IN [nd EXCEPT !.keys = InsertAt(@, pos, c),
                !.slot = (c :> s) @@ @,
                !.kids = (s :> child) @@ @]

RemoveChild(nd, c) ==
  [nd EXCEPT !.keys = Remove(@, c),
             !.slot = [b \in DOMAIN @ \ {c} |-> @[b]],
             !.kids = [s \in DOMAIN @ \ {nd.slot[c]} |-> @[s]]]

\* grow and shrink: the same header and children in a node of another kind;
\* a node48 is filled from slot 1 on in the order of the bytes.
Convert(nd, kind) ==
  LET place(i) == IF kind = "node48" THEN i ELSE nd.keys[i]
      pos(b) == CHOOSE i \in 1 .. Len(nd.keys) : nd.keys[i] = b
      places == {place(i) : i \in 1 .. Len(nd.keys)}
      at(s) == CHOOSE i \in 1 .. Len(nd.keys) : place(i) = s
  IN [nd EXCEPT !.kind = kind,
                !.slot = [b \in DOMAIN @ |-> place(pos(b))],
                !.kids = [s \in places |-> FindChild(nd, nd.keys[at(s)])]]

grow(nd) == Convert(nd, Larger(nd.kind))
shrink(nd) == Convert(nd, Smaller(nd.kind))

CheckPrefix(nd, key, depth) ==
  /\ depth + Len(nd.prefix) <= Len(key)
  /\ SubSeq(key, depth + 1, depth + Len(nd.prefix)) = nd.prefix

PrefixMismatch(prefix, key, depth) ==
  Min({i \in 0 .. Len(prefix) - 1 :
         depth + i >= Len(key) \/ prefix[i + 1] # key[depth + i + 1]}
      \cup {Len(prefix)})

-----------------------------------------------------------------------------
(* Get, Put and Delete (tree.go).                                          *)

RECURSIVE get(_, _, _)
get(n, key, depth) ==
  LET d == depth + Len(n.prefix)
  IN CASE n.kind = "nil" -> Absent
       [] n.kind = "leaf" -> IF n.key = key THEN n.val ELSE Absent
       [] OTHER ->
            IF ~CheckPrefix(n, key, depth) THEN Absent
            ELSE IF d = Len(key)
                 THEN IF n.leaf # NIL THEN n.leaf.val ELSE Absent
                 ELSE IF HasChild(n, key[d + 1])
                      THEN get(FindChild(n, key[d + 1]), key, d + 1)
                      ELSE Absent

Result(old, ok, out) == [old |-> old, ok |-> ok, out |-> out]

\* Case 1: key is a prefix of the leaf's key; case 2: the other way round;
\* case 3: the two keys diverge.  The keys differ, put has seen to that.
SplitLeaf(lf, key, val, depth) ==
  LET end == depth + PrefixMismatch(SubSeq(lf.key, depth + 1, Len(lf.key)),
                                    key, depth)
      prefix == SubSeq(key, depth + 1, end)
      new == Leaf(key, val)
      node(leaf) == EmptyNode("node4", prefix, leaf)
  IN CASE end = Len(key) -> AddChild(node(new), lf.key[end + 1], lf)
       [] end = Len(lf.key) /\ end < Len(key) ->
            AddChild(node(lf), key[end + 1], new)
       [] OTHER -> AddChild(AddChild(node(NIL), lf.key[end + 1], lf),
                            key[end + 1], new)

SplitNode(nd, key, val, depth, mismatch) ==
  LET rest == [nd EXCEPT !.prefix = SubSeq(@, mismatch + 2, Len(@))]
      node(leaf) == AddChild(EmptyNode("node4", SubSeq(nd.prefix, 1, mismatch), leaf),
                             nd.prefix[mismatch + 1], rest)
      new == Leaf(key, val)
  IN IF depth + mismatch = Len(key)
     THEN node(new)
     ELSE AddChild(node(NIL), key[depth + mismatch + 1], new)

RECURSIVE put(_, _, _, _)

\* putInner4, putInner16, putInner48 and putInner256.
PutInner(n, key, val, depth) ==
  LET mismatch == PrefixMismatch(n.prefix, key, depth)
      d == depth + Len(n.prefix)
      c == key[d + 1]
      sub == put(FindChild(n, c), key, val, d + 1)
      full == n.kind # "node256" /\ Len(n.keys) = Room(n.kind)
  IN IF mismatch < Len(n.prefix)
     THEN Result(Absent, FALSE, SplitNode(n, key, val, depth, mismatch))
     ELSE IF d = Len(key)
     THEN Result(IF n.leaf = NIL THEN Absent ELSE n.leaf.val,
                 n.leaf # NIL, [n EXCEPT !.leaf = Leaf(key, val)])
     ELSE IF HasChild(n, c)
     THEN Result(sub.old, sub.ok, SetChild(n, c, sub.out))
     ELSE Result(Absent, FALSE,
                 AddChild(IF full THEN grow(n) ELSE n, c, Leaf(key, val)))

put(n, key, val, depth) ==
  CASE n.kind = "nil" -> Result(Absent, FALSE, Leaf(key, val))
    [] n.kind = "leaf" /\ n.key = key -> Result(n.val, TRUE, Leaf(key, val))
    [] n.kind = "leaf" /\ n.key # key ->
         Result(Absent, FALSE, SplitLeaf(n, key, val, depth))
    [] OTHER -> PutInner(n, key, val, depth)

\* A bug the code avoids: the byte the merged child hung on is forgotten.
MergeWithoutByte(prefix, c, child) ==
  IF child.kind = "leaf" THEN child ELSE [child EXCEPT !.prefix = prefix \o @]

MergeWithChild(prefix, c, child) ==
  IF child.kind = "leaf" THEN child
  ELSE [child EXCEPT !.prefix = prefix \o <<c>> \o @]

ShrinkAfterDelete4(nd) ==
  CASE nd.keys = <<>> -> nd.leaf
    [] Len(nd.keys) = 1 /\ nd.leaf = NIL ->
         MergeWithChild(nd.prefix, nd.keys[1], FindChild(nd, nd.keys[1]))
    [] OTHER -> nd

\* A node that lost a child.  A bug the code avoids: a node16, node48 or
\* node256 that is left too small keeps its kind.
KeepKind(nd) == IF nd.kind = "node4" THEN ShrinkAfterDelete4(nd) ELSE nd

AfterRemoval(nd) ==
  IF nd.kind = "node4" THEN ShrinkAfterDelete4(nd)
  ELSE IF Len(nd.keys) <= Room(Smaller(nd.kind)) THEN shrink(nd) ELSE nd

RECURSIVE del(_, _, _)

\* delInner4, delInner16, delInner48 and delInner256.
DelInner(n, key, depth) ==
  LET d == depth + Len(n.prefix)
      c == key[d + 1]
      sub == del(FindChild(n, c), key, d + 1)
      bare == [n EXCEPT !.leaf = NIL]
      miss == Result(Absent, FALSE, n)
  IN IF ~CheckPrefix(n, key, depth) THEN miss
     ELSE IF d = Len(key)
     THEN IF n.leaf = NIL THEN miss
          ELSE Result(n.leaf.val, TRUE,
                      IF n.kind = "node4" THEN ShrinkAfterDelete4(bare) ELSE bare)
     ELSE IF ~HasChild(n, c) \/ ~sub.ok THEN miss
     ELSE Result(sub.old, TRUE,
                 IF sub.out = NIL THEN AfterRemoval(RemoveChild(n, c))
                                  ELSE SetChild(n, c, sub.out))

del(n, key, depth) ==
  CASE n.kind = "nil" -> Result(Absent, FALSE, n)
    [] n.kind = "leaf" ->
         IF n.key = key THEN Result(n.val, TRUE, NIL) ELSE Result(Absent, FALSE, n)
    [] OTHER -> DelInner(n, key, depth)

-----------------------------------------------------------------------------
(* The walks: the sequence of entries the visitor is called with.          *)

Entry(lf) == <<lf.key, lf.val>>
LeafEntry(nd) == IF nd.leaf = NIL THEN <<>> ELSE <<Entry(nd.leaf)>>

\* What the children add to a walk, in the order of their bytes.
RangeChildren(nd, walks) ==
  FlattenSeq([i \in 1 .. Len(nd.keys) |-> walks[nd.keys[i]]])

RECURSIVE forEach(_)
forEach(n) ==
  CASE n.kind = "nil" -> <<>>
    [] n.kind = "leaf" -> <<Entry(n)>>
    [] OTHER -> LeafEntry(n)
                \o RangeChildren(n, [c \in DOMAIN n.slot |-> forEach(FindChild(n, c))])

\* The order of Go's strings.
Less(a, b) ==
  LET i == PrefixMismatch(a, b, 0)
  IN i < Len(b) /\ (i = Len(a) \/ a[i + 1] < b[i + 1])

\* A bug the code avoids: a prefix that outlives start sorts below it.
CompareShortAsLess(prefix, start, depth) ==
  LET i == PrefixMismatch(prefix, start, depth)
  IN CASE i = Len(prefix) -> 0
       [] i < Len(prefix) /\ depth + i >= Len(start) -> -1
       [] OTHER -> IF prefix[i + 1] < start[depth + i + 1] THEN -1 ELSE 1

ComparePrefixRange(prefix, start, depth) ==
  LET i == PrefixMismatch(prefix, start, depth)
  IN CASE i = Len(prefix) -> 0
       [] i < Len(prefix) /\ depth + i >= Len(start) -> 1
       [] OTHER -> IF prefix[i + 1] < start[depth + i + 1] THEN -1 ELSE 1

RECURSIVE seek(_, _, _)

\* The child at byte c of a node whose prefix matches start up to depth d.
SeekChild(n, c, start, d) ==
  IF d >= Len(start) \/ c > start[d + 1] THEN forEach(FindChild(n, c))
  ELSE IF c = start[d + 1] THEN seek(FindChild(n, c), start, d + 1)
  ELSE <<>>

seek(n, start, depth) ==
  LET cmp == ComparePrefixRange(n.prefix, start, depth)
      d == depth + Len(n.prefix)
      leaf == IF n.leaf # NIL /\ Less(start, n.leaf.key) THEN LeafEntry(n) ELSE <<>>
  IN CASE n.kind = "nil" -> <<>>
       [] n.kind = "leaf" -> IF Less(start, n.key) THEN <<Entry(n)>> ELSE <<>>
       [] OTHER -> CASE cmp > 0 -> forEach(n)
                     [] cmp < 0 -> <<>>
                     [] cmp = 0 -> leaf \o RangeChildren(n, [c \in DOMAIN n.slot |->
                                                             SeekChild(n, c, start, d)])

RECURSIVE scanPrefix(_, _, _)
scanPrefix(n, prefix, depth) ==
  LET mismatch == PrefixMismatch(n.prefix, prefix, depth)
      d == depth + Len(n.prefix)
  IN CASE n.kind = "nil" -> <<>>
       [] n.kind = "leaf" -> IF IsPrefix(prefix, n.key) THEN <<Entry(n)>> ELSE <<>>
       [] OTHER ->
            IF mismatch < Len(n.prefix)
            THEN IF depth + mismatch >= Len(prefix) THEN forEach(n) ELSE <<>>
            ELSE IF d >= Len(prefix) THEN forEach(n)
            ELSE IF HasChild(n, prefix[d + 1])
                 THEN scanPrefix(FindChild(n, prefix[d + 1]), prefix, d + 1)
                 ELSE <<>>

-----------------------------------------------------------------------------
(* The operations of the tree.                                             *)

Init == /\ root = NIL /\ size = 0
        /\ call = NoCall /\ reply = Absent /\ load \in Workloads

Put(key, val) ==
  LET r == put(root, key, val, 0)
  IN /\ call = NoCall
     /\ root' = r.out
     /\ size' = IF r.ok THEN size ELSE size + 1
     /\ call' = <<"put", key, val>>
     /\ reply' = r.old
     /\ UNCHANGED load

Delete(key) ==
  LET r == del(root, key, 0)
  IN /\ call = NoCall
     /\ root' = r.out
     /\ size' = IF r.ok THEN size - 1 ELSE size
     /\ call' = <<"delete", key>>
     /\ reply' = r.old
     /\ UNCHANGED load

ResetTree == /\ call = NoCall
             /\ root' = NIL /\ size' = 0
             /\ call' = <<"reset">> /\ reply' = Absent /\ UNCHANGED load

Return == /\ call # NoCall
          /\ call' = NoCall /\ reply' = Absent
          /\ UNCHANGED <<root, size, load>>

Next == \/ \E kv \in load : Put(kv[1], kv[2]) \/ Delete(kv[1])
        \/ ResetTree \/ Return

Spec == Init /\ [][Next]_vars

-----------------------------------------------------------------------------
(* Properties.                                                             *)

Get(key) == get(root, key, 0)

Dict == INSTANCE OrderedMap WITH dict <- [k \in Keys |-> Get(k)]

\* Through every split of a leaf or of a prefix, every change of a node's
\* kind and every merge after a deletion, Get answers as a map would to which
\* the same calls were made with the same arguments, Len is the number of
\* entries, and Put and Delete return the value their key had before.
ImplementsMap == Dict!Spec

\* The walk visits the entries of the keys in S, each once, in their order.
Visits(walk, S) ==
  /\ \A i, j \in 1 .. Len(walk) : i < j => Less(walk[i][1], walk[j][1])
  /\ ToSet(walk) = {<<k, Get(k)>> : k \in S}
Stored == {k \in Keys : Get(k) # Absent}

\* Between two calls, ForEach visits every entry once in the order of the
\* keys, Seek those strictly above its argument and ScanPrefix those its
\* argument begins, whichever node or prefix the argument ends in.
WalksComplete ==
  LET stored == Stored
  IN call = NoCall =>
       /\ Visits(forEach(root), stored)
       /\ \A s \in Starts :
            /\ Visits(seek(root, s, 0), {k \in stored : Less(s, k)})
            /\ Visits(scanPrefix(root, s, 0), {k \in stored : IsPrefix(s, k)})

\* The node n, to which the bytes p lead, and every node below it have the
\* bytes of their path in their leaves; each is of the smallest kind that
\* holds its children, no level is superfluous (a node with a single child
\* and no leaf, or with no child), and the slots of a node48, its sorted
\* bytes and its index agree.
RECURSIVE Sound(_, _)
Sound(n, p) ==
  \/ n.kind = "leaf" /\ IsPrefix(p, n.key)
  \/ /\ n.kind \notin {"nil", "leaf"}
     /\ LET q == p \o n.prefix
        IN /\ n.leaf = NIL \/ n.leaf.key = q
           /\ n.kind # "node256" => Len(n.keys) <= Room(n.kind)
           /\ n.kind # "node4" => Len(n.keys) > Room(Smaller(n.kind))
           /\ Len(n.keys) >= IF n.leaf = NIL THEN 2 ELSE 1
           /\ \A i, j \in 1 .. Len(n.keys) : i < j => n.keys[i] < n.keys[j]
           /\ ToSet(n.keys) = DOMAIN n.slot
           /\ {n.slot[c] : c \in DOMAIN n.slot} = DOMAIN n.kids
           /\ n.kind = "node48" => DOMAIN n.kids \subseteq 1 .. Cap48
           /\ \A i, j \in DOMAIN n.slot : n.slot[i] = n.slot[j] => i = j
           /\ \A c \in DOMAIN n.slot : Sound(FindChild(n, c), Append(q, c))

\* The shape of the tree is sound after every sequence of Put, Delete and
\* Reset: no split, merge, growth or shrinking leaves a wrong node behind.
TreeSound == root = NIL \/ Sound(root, <<>>)
=============================================================================
