---------------------------- MODULE SharedLemmas ----------------------------
(***************************************************************************)
(* Facts that several proofs need: about the slot index seq & mask         *)
(* (seq % Size) of the rings, about sums of natural numbers, about cutting *)
(* sequences, and about finite sets.                                       *)
(***************************************************************************)
EXTENDS Integers, Sequences, SequencesExt, Sums, FiniteSetTheorems,
        SequenceTheorems, TLAPS

\* The slot index is an index of the buffer.
LEMMA IndexInRange ==
    ASSUME NEW N \in Nat \ {0}, NEW a \in Nat
    PROVE  a % N \in 0..N-1
  BY Z3

\* Two sequence numbers less than one lap apart never share a slot.
LEMMA IndexInjective ==
    ASSUME NEW N \in Nat \ {0}, NEW a \in Nat, NEW b \in Nat,
           a < b, b - a < N
    PROVE  a % N # b % N
  <1>1. a = N * (a \div N) + (a % N) /\ b = N * (b \div N) + (b % N)
    BY Z3
  <1>2. a \div N \in Int /\ b \div N \in Int /\ a % N \in Int /\ b % N \in Int
    BY Z3
  <1> DEFINE d == b \div N - a \div N
  <1>3. SUFFICES ASSUME a % N = b % N PROVE FALSE
    OBVIOUS
  <1>4. b - a = N * d
    <2>1. N * (b \div N) - N * (a \div N) = N * (b \div N - a \div N)
      BY <1>2, Z3
    <2> QED BY <1>1, <1>2, <1>3, <2>1, Z3
  <1>5. d \in Int
    BY <1>2
  <1> HIDE DEF d
  <1>6. CASE d <= 0
    <2>1. N * d <= 0 BY <1>5, <1>6, Z3
    <2> QED BY <1>4, <2>1, Z3
  <1>7. CASE d >= 1
    <2>1. N * d >= N BY <1>5, <1>7, Z3
    <2> QED BY <1>4, <2>1, Z3
  <1> QED BY <1>5, <1>6, <1>7, Z3

\* Quotient and remainder are unique.
LEMMA ModUnique ==
    ASSUME NEW N \in Nat \ {0}, NEW q \in Int, NEW r \in 0..N-1, NEW a \in Int,
           a = N * q + r
    PROVE  a % N = r /\ a \div N = q
  <1>1. a = N * (a \div N) + (a % N) /\ a % N \in 0..N-1 /\ a \div N \in Int
    BY Z3
  <1>p. PICK p \in Int : p = a \div N
    BY <1>1
  <1>m. PICK m \in 0..N-1 : m = a % N
    BY <1>1
  <1>d. PICK d \in Int : d = p - q
    OBVIOUS
  <1>2. N * d + (m - r) = 0
    <2>1. N * d = N * p - N * q
      BY <1>d, Z3
    <2>x. PICK x \in Int : x = N * p
      OBVIOUS
    <2>y. PICK y \in Int : y = N * q
      OBVIOUS
    <2>z. PICK z \in Int : z = N * d
      OBVIOUS
    <2>2. z = x - y /\ a = y + r /\ a = x + m
      BY <1>1, <1>p, <1>m, <2>1, <2>x, <2>y, <2>z
    <2>3. z + (m - r) = 0
      BY <2>2
    <2> QED BY <2>3, <2>z
  <1>3. d = 0
    <2>1. CASE d >= 1
      <3>1. N * d >= N BY <2>1, Z3
      <3>z. PICK z \in Int : z = N * d
        OBVIOUS
      <3>2. z >= N /\ z + (m - r) = 0
        BY <1>2, <3>1, <3>z
      <3> QED BY <3>2
    <2>2. CASE d <= -1
      <3>1. N * d <= -N BY <2>2, Z3
      <3>z. PICK z \in Int : z = N * d
        OBVIOUS
      <3>2. z <= -N /\ z + (m - r) = 0
        BY <1>2, <3>1, <3>z
      <3> QED BY <3>2
    <2> QED BY <2>1, <2>2
  <1>4. p = q /\ m = r
    <2>1. N * d = 0 BY <1>3
    <2> QED BY <1>2, <1>3, <1>d, <2>1
  <1> QED BY <1>4, <1>m, <1>p

\* One lap later is the same slot.
LEMMA IndexPeriodic ==
    ASSUME NEW N \in Nat \ {0}, NEW a \in Nat
    PROVE  (a + N) % N = a % N
  <1>1. a = N * (a \div N) + (a % N) /\ a % N \in 0..N-1 /\ a \div N \in Int
    BY Z3
  <1>q. PICK q \in Int : q = a \div N
    BY <1>1
  <1>r. PICK r \in 0..N-1 : r = a % N
    BY <1>1
  <1>2. N * (q + 1) = N * q + N
    BY Z3
  <1>3. a + N = N * (q + 1) + r
    <2>1. PICK x \in Int : x = N * q
      OBVIOUS
    <2> QED BY <1>1, <1>2, <1>q, <1>r, <2>1
  <1>4. PICK p \in Int, b \in Int : p = q + 1 /\ b = a + N
    OBVIOUS
  <1>5. b = N * p + r
    BY <1>3, <1>4
  <1>6. b % N = r
    BY <1>5, ModUnique, Zenon
  <1> QED BY <1>4, <1>6, <1>r

-----------------------------------------------------------------------------
(* Sums *)

\* The pairs counted for one x.
LEMMA UnitsOfOne ==
    ASSUME NEW x, NEW k \in Nat
    PROVE  IsFiniteSet({x} \X (1..k)) /\ Cardinality({x} \X (1..k)) = k
  <1>1. IsFiniteSet({x}) /\ Cardinality({x}) = 1
    BY FS_Singleton
  <1>2. IsFiniteSet(1..k) /\ Cardinality(1..k) = k
    BY FS_Interval
  <1>3. /\ IsFiniteSet({x} \X (1..k))
        /\ Cardinality({x} \X (1..k)) = Cardinality({x}) * Cardinality(1..k)
    BY <1>1, <1>2, FS_Product
  <1> QED BY <1>1, <1>2, <1>3

\* A sum over a finite set is a natural number.
LEMMA SumType ==
    ASSUME NEW S, IsFiniteSet(S), NEW f \in [S -> Nat]
    PROVE  IsFiniteSet(Units(f)) /\ SumOf(f) \in Nat
  <1> DEFINE g == [x \in S |-> {x} \X (1..f[x])]
             T == {{x} \X (1..f[x]) : x \in S}
  <1>1. g \in Surjection(S, T)
    BY DEF Surjection
  <1>2. IsFiniteSet(T)
    BY <1>1, FS_Surjection
  <1>3. ASSUME NEW U \in T PROVE IsFiniteSet(U)
    <2>1. PICK x \in S : U = {x} \X (1..f[x])
      OBVIOUS
    <2>2. f[x] \in Nat
      OBVIOUS
    <2> QED BY <2>1, <2>2, UnitsOfOne
  <1>4. IsFiniteSet(UNION T)
    BY <1>2, <1>3, FS_UNION
  <1>5. Units(f) = UNION T
    BY DEF Units
  <1> QED BY <1>4, <1>5, FS_CardinalityType DEF SumOf

\* A sum with one of its terms set aside.
LEMMA SumSplit ==
    ASSUME NEW S, IsFiniteSet(S), NEW f \in [S -> Nat], NEW x \in S
    PROVE  LET rest == {u \in Units(f) : u[1] # x}
           IN  /\ IsFiniteSet(rest) /\ Cardinality(rest) \in Nat
               /\ SumOf(f) = Cardinality(rest) + f[x]
  <1> DEFINE rest == {u \in Units(f) : u[1] # x}
             own == {x} \X (1..f[x])
  <1>1. IsFiniteSet(Units(f))
    BY SumType
  <1>2. IsFiniteSet(rest) /\ Cardinality(rest) \in Nat
    <2>1. rest \in SUBSET Units(f)
      OBVIOUS
    <2> QED BY <1>1, <2>1, FS_Subset, FS_CardinalityType
  <1>3. IsFiniteSet(own) /\ Cardinality(own) = f[x]
    BY UnitsOfOne
  <1>4. Units(f) = rest \cup own
    BY DEF Units
  <1>5. rest \cap own = {}
    OBVIOUS
  <1> HIDE DEF rest, own
  <1>6. Cardinality(rest \cup own) = Cardinality(rest) + Cardinality(own) - 0
    BY <1>2, <1>3, <1>5, FS_Union, FS_EmptySet
  <1>7. f[x] \in Nat
    OBVIOUS
  <1>8. SumOf(f) = Cardinality(rest) + f[x]
    BY <1>2, <1>3, <1>4, <1>6, <1>7 DEF SumOf
  <1> QED BY <1>2, <1>8 DEF rest

\* Changing one term changes the sum by as much, and no term exceeds the sum.
LEMMA SumUpdate ==
    ASSUME NEW S, IsFiniteSet(S), NEW f \in [S -> Nat], NEW x \in S, NEW v \in Nat
    PROVE  /\ SumOf([f EXCEPT ![x] = v]) = SumOf(f) - f[x] + v
           /\ f[x] <= SumOf(f)
  <1> DEFINE g == [f EXCEPT ![x] = v]
             restf == {u \in Units(f) : u[1] # x}
             restg == {u \in Units(g) : u[1] # x}
  <1>1. g \in [S -> Nat] /\ g[x] = v /\ f[x] \in Nat
    OBVIOUS
  <1>2. restf = restg
    BY DEF Units
  <1> HIDE DEF g
  <1>3. Cardinality(restf) \in Nat /\ SumOf(f) = Cardinality(restf) + f[x]
    BY SumSplit
  <1>4. SumOf(g) = Cardinality(restg) + v
    BY <1>1, SumSplit
  <1> HIDE DEF restf, restg
  <1>5. SumOf(g) = SumOf(f) - f[x] + v
    BY <1>1, <1>2, <1>3, <1>4
  <1>6. f[x] <= SumOf(f)
    BY <1>1, <1>3
  <1> QED BY <1>5, <1>6 DEF g

\* A sum of zeros is zero, and nothing else is.
LEMMA SumZero ==
    ASSUME NEW S, IsFiniteSet(S), NEW f \in [S -> Nat]
    PROVE  SumOf(f) = 0 <=> \A x \in S : f[x] = 0
  <1>1. IsFiniteSet(Units(f))
    BY SumType
  <1>2. SumOf(f) = 0 <=> Units(f) = {}
    BY <1>1, FS_EmptySet DEF SumOf
  <1>3. ASSUME \A x \in S : f[x] = 0 PROVE Units(f) = {}
    BY <1>3 DEF Units
  <1>4. ASSUME Units(f) = {}, NEW x \in S PROVE f[x] = 0
    <2>1. f[x] \in Nat
      OBVIOUS
    <2>2. f[x] # 0 => <<x, 1>> \in Units(f)
      BY <2>1 DEF Units
    <2> QED BY <1>4, <2>2
  <1> QED BY <1>2, <1>3, <1>4

-----------------------------------------------------------------------------
(* Sequences *)

\* What a sequence is after the removal of its i-th element.
LEMMA RemoveAtProperties ==
    ASSUME NEW S, NEW s \in Seq(S), NEW i \in 1..Len(s)
    PROVE  /\ RemoveAt(s, i) \in Seq(S) /\ Len(RemoveAt(s, i)) = Len(s) - 1
           /\ \A j \in 1..Len(s)-1 :
                  RemoveAt(s, i)[j] = IF j < i THEN s[j] ELSE s[j+1]
  <1> DEFINE a == SubSeq(s, 1, i-1)
             b == SubSeq(s, i+1, Len(s))
  <1>1. Len(s) \in Nat /\ i \in Nat /\ 1 <= i /\ i <= Len(s)
    OBVIOUS
  <1>2. /\ a \in Seq(S) /\ Len(a) = i - 1
        /\ \A j \in 1..i-1 : a[j] = s[j]
    <2>1. \A j \in 1..i-1 : s[j] \in S
      BY <1>1, ElementOfSeq
    <2>2. /\ a \in Seq(S) /\ Len(a) = IF 1 <= i-1 THEN i-1-1+1 ELSE 0
          /\ \A j \in 1..i-1-1+1 : a[j] = s[1+j-1]
      BY <1>1, <2>1, SubSeqProperties
    <2> HIDE DEF a
    <2> QED BY <1>1, <2>2
  <1>3. /\ b \in Seq(S) /\ Len(b) = Len(s) - i
        /\ \A j \in 1..Len(s)-i : b[j] = s[i+j]
    <2>1. \A j \in i+1..Len(s) : s[j] \in S
      BY <1>1, ElementOfSeq
    <2>2. /\ b \in Seq(S) /\ Len(b) = IF i+1 <= Len(s) THEN Len(s)-(i+1)+1 ELSE 0
          /\ \A j \in 1..Len(s)-(i+1)+1 : b[j] = s[i+1+j-1]
      BY <1>1, <2>1, SubSeqProperties
    <2> HIDE DEF b
    <2> QED BY <1>1, <2>2
  <1> HIDE DEF a, b
  <1>4. /\ a \o b \in Seq(S) /\ Len(a \o b) = Len(a) + Len(b)
        /\ \A j \in 1..Len(a) + Len(b) :
               (a \o b)[j] = IF j <= Len(a) THEN a[j] ELSE b[j - Len(a)]
    BY <1>2, <1>3, ConcatProperties
  <1>5. RemoveAt(s, i) = a \o b
    BY DEF RemoveAt, a, b
  <1>6. ASSUME NEW j \in 1..Len(s)-1
        PROVE  (a \o b)[j] = IF j < i THEN s[j] ELSE s[j+1]
    <2>1. CASE j < i
      BY <1>1, <1>2, <1>3, <1>4, <2>1
    <2>2. CASE ~(j < i)
      <3>1. j - (i - 1) \in 1..Len(s)-i /\ i + (j - (i - 1)) = j + 1
        BY <1>1, <2>2
      <3>2. (a \o b)[j] = b[j - (i - 1)]
        BY <1>1, <1>2, <1>3, <1>4, <2>2
      <3>3. b[j - (i - 1)] = s[j + 1]
        BY <1>3, <3>1
      <3> QED BY <2>2, <3>2, <3>3
    <2> QED BY <2>1, <2>2
  <1>7. Len(a \o b) = Len(s) - 1
    BY <1>1, <1>2, <1>3, <1>4
  <1>8. a \o b \in Seq(S)
    BY <1>4
  <1> HIDE DEF RemoveAt
  <1> QED BY <1>5, <1>6, <1>7, <1>8, Zenon

\* A sequence cut after its i-th element.
LEMMA CutProperties ==
    ASSUME NEW S, NEW s \in Seq(S), NEW i \in 0..Len(s)
    PROVE  /\ SubSeq(s, 1, i) \in Seq(S) /\ Len(SubSeq(s, 1, i)) = i
           /\ \A j \in 1..i : SubSeq(s, 1, i)[j] = s[j]
           /\ SubSeq(s, i+1, Len(s)) \in Seq(S)
           /\ Len(SubSeq(s, i+1, Len(s))) = Len(s) - i
           /\ \A j \in 1..Len(s)-i : SubSeq(s, i+1, Len(s))[j] = s[i+j]
  <1> DEFINE a == SubSeq(s, 1, i)
             b == SubSeq(s, i+1, Len(s))
  <1>1. Len(s) \in Nat /\ i \in Nat /\ i <= Len(s)
    OBVIOUS
  <1>2. a \in Seq(S) /\ Len(a) = i /\ \A j \in 1..i : a[j] = s[j]
    <2>1. \A j \in 1..i : s[j] \in S
      BY <1>1, ElementOfSeq
    <2>2. /\ a \in Seq(S) /\ Len(a) = IF 1 <= i THEN i-1+1 ELSE 0
          /\ \A j \in 1..i-1+1 : a[j] = s[1+j-1]
      BY <1>1, <2>1, SubSeqProperties
    <2> HIDE DEF a
    <2> QED BY <1>1, <2>2
  <1>3. /\ b \in Seq(S) /\ Len(b) = Len(s) - i
        /\ \A j \in 1..Len(s)-i : b[j] = s[i+j]
    <2>1. \A j \in i+1..Len(s) : s[j] \in S
      BY <1>1, ElementOfSeq
    <2>2. /\ b \in Seq(S) /\ Len(b) = IF i+1 <= Len(s) THEN Len(s)-(i+1)+1 ELSE 0
          /\ \A j \in 1..Len(s)-(i+1)+1 : b[j] = s[i+1+j-1]
      BY <1>1, <2>1, SubSeqProperties
    <2> HIDE DEF b
    <2> QED BY <1>1, <2>2
  <1> QED BY <1>2, <1>3

\* A sequence without its last element.
LEMMA FrontProperties ==
    ASSUME NEW S, NEW s \in Seq(S), s # <<>>
    PROVE  /\ Len(s) \in Nat \ {0} /\ Last(s) = s[Len(s)] /\ Last(s) \in S
           /\ Front(s) \in Seq(S) /\ Len(Front(s)) = Len(s) - 1
           /\ \A j \in 1..Len(s)-1 : Front(s)[j] = s[j]
  <1>1. Len(s) \in Nat \ {0}
    BY EmptySeq
  <1>2. Len(s) - 1 \in 0..Len(s) /\ Len(s) \in 1..Len(s)
    BY <1>1
  <1>3. Last(s) = s[Len(s)] /\ Last(s) \in S
    BY <1>2, ElementOfSeq DEF Last
  <1>4. Front(s) = SubSeq(s, 1, Len(s)-1)
    BY DEF Front
  <1>5. /\ SubSeq(s, 1, Len(s)-1) \in Seq(S)
        /\ Len(SubSeq(s, 1, Len(s)-1)) = Len(s) - 1
        /\ \A j \in 1..Len(s)-1 : SubSeq(s, 1, Len(s)-1)[j] = s[j]
    BY <1>2, CutProperties
  <1> HIDE DEF Front, Last
  <1> QED BY <1>1, <1>3, <1>4, <1>5

-----------------------------------------------------------------------------
(* Counting                                                                *)

\* Distinct values are as many as their indices.
LEMMA DistinctCount ==
    ASSUME NEW f, NEW k \in Nat, \A i, j \in 1..k : f[i] = f[j] => i = j,
           NEW T, T = {f[i] : i \in 1..k}
    PROVE  IsFiniteSet(T) /\ Cardinality(T) = k
  <1> DEFINE g == [i \in 1..k |-> f[i]]
  <1>1. g \in [1..k -> T]
    OBVIOUS
  <1>2. \A i, j \in 1..k : g[i] = g[j] => i = j
    OBVIOUS
  <1>3. \A t \in T : \E i \in 1..k : g[i] = t
    OBVIOUS
  <1>4. g \in Bijection(1..k, T)
    BY <1>1, <1>2, <1>3 DEF Bijection, Injection, Surjection, IsInjective
  <1>5. ExistsBijection(1..k, T)
    BY <1>4 DEF ExistsBijection
  <1> QED BY <1>5, FS_NatBijection, FS_CountingElements

\* A finite set has a subset of every smaller size.
LEMMA SubsetOfSize ==
    ASSUME NEW S, IsFiniteSet(S), NEW k \in 0..Cardinality(S)
    PROVE  \E T \in SUBSET S : Cardinality(T) = k
  <1>1. PICK n \in Nat : ExistsBijection(1..n, S)
    BY FS_NatBijection
  <1>2. Cardinality(S) = n /\ k \in Nat /\ k <= n
    BY <1>1, FS_CountingElements
  <1>3. PICK f : f \in Bijection(1..n, S)
    BY <1>1 DEF ExistsBijection
  <1>4. /\ f \in [1..n -> S]
        /\ \A i, j \in 1..n : f[i] = f[j] => i = j
    BY <1>3 DEF Bijection, Injection, Surjection, IsInjective
  <1>5. \A i \in 1..k : i \in 1..n
    BY <1>2
  <1>6. PICK T : T = {f[i] : i \in 1..k}
    OBVIOUS
  <1>7. T \in SUBSET S
    BY <1>4, <1>5, <1>6
  <1>8. \A i, j \in 1..k : f[i] = f[j] => i = j
    BY <1>4, <1>5
  <1>9. Cardinality(T) = k
    BY <1>2, <1>6, <1>8, DistinctCount
  <1> QED BY <1>7, <1>9
=============================================================================
