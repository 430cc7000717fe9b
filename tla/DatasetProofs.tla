--------------------------- MODULE DatasetProofs ---------------------------
(***************************************************************************)
(* Theorems about what is picked from a video, for any hashes; about the   *)
(* evaluation's arithmetic, for any number of detections and boxes and any *)
(* overlaps; about the types of a ground-truth sitting; and about the      *)
(* frames and their labels put together.                                   *)
(***************************************************************************)
EXTENDS MCDataset, EvaluationProofs, FramesProofs, ClassesProofs

-----------------------------------------------------------------------------
(* Recursion and order.                                                    *)

\* What holds of 0, and of each number if of the one before it, holds to the end.
LEMMA Climb ==
  ASSUME NEW n \in Nat, NEW T, 0 \in T, \A k \in 1 .. n : k - 1 \in T => k \in T
  PROVE  \A k \in 0 .. n : k \in T
<1> DEFINE bad == {k \in 0 .. n : k \notin T}
<1> SUFFICES ASSUME bad # {} PROVE FALSE
  OBVIOUS
<1>1. bad \in SUBSET Nat
  OBVIOUS
<1>2. PICK k \in bad : \A y \in bad : k <= y
  <2> HIDE DEF bad
  <2> QED BY <1>1, Least
<1>3. k \in 1 .. n /\ k - 1 \in 0 .. n /\ ~(k <= k - 1)
  BY <1>2
<1>4. k - 1 \in T
  BY <1>2, <1>3
<1> QED BY <1>2, <1>3, <1>4

\* A value computed from the one before it, n times over.
Computes(f, a, n, G) == f[0] = a /\ \A k \in 1 .. n : f[k] = G[<<k, f[k - 1]>>]

LEMMA Recursion ==
  ASSUME NEW S, NEW a \in S, NEW n \in Nat, NEW G \in [(1 .. n) \X S -> S]
  PROVE  \E f \in [0 .. n -> S] : Computes(f, a, n, G)
<1> DEFINE Upto(f, k) == f[0] = a /\ \A i \in 1 .. k : f[i] = G[<<i, f[i - 1]>>]
           good == {k \in 0 .. n : \E f \in [0 .. k -> S] : Upto(f, k)}
<1>1. 0 \in good
  <2> DEFINE f == [i \in 0 .. 0 |-> a]
  <2>1. f \in [0 .. 0 -> S] /\ Upto(f, 0)
    OBVIOUS
  <2> HIDE DEF f
  <2> QED BY <2>1
<1>2. ASSUME NEW k \in 1 .. n, k - 1 \in good PROVE k \in good
  <2>1. PICK f \in [0 .. k - 1 -> S] : Upto(f, k - 1)
    BY <1>2
  <2> DEFINE g == [i \in 0 .. k |-> IF i = k THEN G[<<k, f[k - 1]>>] ELSE f[i]]
  <2>2. G[<<k, f[k - 1]>>] \in S
    OBVIOUS
  <2>3. g \in [0 .. k -> S]
    <3>1. \A i \in 0 .. k : i # k => i \in 0 .. k - 1
      OBVIOUS
    <3> QED BY <2>2, <3>1
  <2>4. g[k] = G[<<k, f[k - 1]>>] /\ \A i \in 0 .. k - 1 : g[i] = f[i]
    OBVIOUS
  <2> HIDE DEF g
  <2>5. g[0] = a
    BY <2>1, <2>4
  <2>6. ASSUME NEW i \in 1 .. k PROVE g[i] = G[<<i, g[i - 1]>>]
    <3>1. i - 1 \in 0 .. k - 1 /\ g[i - 1] = f[i - 1]
      BY <2>4
    <3>2. CASE i = k
      BY <2>4, <3>1, <3>2
    <3>3. CASE i # k
      <4>1. i \in 1 .. k - 1 /\ g[i] = f[i]
        BY <2>4, <3>3
      <4> QED BY <2>1, <3>1, <4>1
    <3> QED BY <3>2, <3>3
  <2> QED BY <2>3, <2>5, <2>6
<1>3. n \in good
  <2>1. n \in 0 .. n
    OBVIOUS
  <2> HIDE DEF good
  <2> QED BY <1>1, <1>2, <2>1, Climb
<1> QED BY <1>3 DEF Computes

\* Two functions are one if they begin and go on alike.
Alike(f, g, n) ==
  /\ f = [k \in 0 .. n |-> f[k]] /\ g = [k \in 0 .. n |-> g[k]]
  /\ f[0] = g[0] /\ \A k \in 1 .. n : f[k - 1] = g[k - 1] => f[k] = g[k]

LEMMA OneFunction ==
  ASSUME NEW n \in Nat, NEW f, NEW g, Alike(f, g, n)
  PROVE  f = g
<1> DEFINE same == {k \in 0 .. n : f[k] = g[k]}
<1>1. 0 \in same
  BY DEF Alike
<1>2. ASSUME NEW k \in 1 .. n, k - 1 \in same PROVE k \in same
  <2>1. f[k - 1] = g[k - 1] => f[k] = g[k]
    BY Zenon DEF Alike
  <2> QED BY <1>2, <2>1
<1>3. \A k \in 0 .. n : k \in same
  <2> HIDE DEF same
  <2> QED BY <1>1, <1>2, Climb
<1>4. f = [k \in 0 .. n |-> f[k]] /\ g = [k \in 0 .. n |-> g[k]]
  BY Zenon DEF Alike
<1>5. [k \in 0 .. n |-> f[k]] = [k \in 0 .. n |-> g[k]]
  BY <1>3
<1> QED BY <1>4, <1>5, Zenon

\* A finite set in a strict total order has an arrangement.
LEMMA Arranged ==
  ASSUME NEW S, IsFiniteSet(S), NEW R,
         \A x \in S : <<x, x>> \notin R,
         \A x, y, z \in S : <<x, y>> \in R /\ <<y, z>> \in R => <<x, z>> \in R,
         \A x, y \in S : x = y \/ <<x, y>> \in R \/ <<y, x>> \in R
  PROVE  \E r \in [1 .. Cardinality(S) -> S] :
           \A m, n \in 1 .. Cardinality(S) : m < n => <<r[m], r[n]>> \in R
<1> DEFINE c == Cardinality(S)
           Upto(x) == {y \in S : y = x \/ <<y, x>> \in R}
           rank == [x \in S |-> Cardinality(Upto(x))]
<1>1. c \in Nat /\ IsFiniteSet(1 .. c) /\ Cardinality(1 .. c) = c
  <2>1. c \in Nat
    BY FS_CardinalityType
  <2>2. 1 \in Int /\ c \in Int
    BY <2>1
  <2> QED BY <2>1, <2>2, FS_Interval
<1>2. \A x \in S : /\ Upto(x) \in SUBSET S /\ x \in Upto(x)
                   /\ IsFiniteSet(Upto(x)) /\ Cardinality(Upto(x)) \in Nat
  <2> SUFFICES ASSUME NEW x \in S
               PROVE  /\ Upto(x) \in SUBSET S /\ x \in Upto(x)
                      /\ IsFiniteSet(Upto(x)) /\ Cardinality(Upto(x)) \in Nat
    OBVIOUS
  <2>1. Upto(x) \in SUBSET S /\ x \in Upto(x)
    OBVIOUS
  <2> HIDE DEF Upto
  <2> QED BY <2>1, FS_Subset, FS_CardinalityType
<1>3. \A x \in S : rank[x] \in 1 .. c
  <2> SUFFICES ASSUME NEW x \in S PROVE Cardinality(Upto(x)) \in 1 .. c
    OBVIOUS
  <2> HIDE DEF Upto
  <2>1. Cardinality(Upto(x)) <= c
    BY <1>2, FS_Subset
  <2>2. Cardinality(Upto(x)) # 0
    BY <1>2, FS_EmptySet
  <2> QED BY <1>1, <1>2, <2>1, <2>2
<1>4. ASSUME NEW x \in S, NEW y \in S, <<x, y>> \in R
      PROVE  rank[x] < rank[y]
  <2>1. Upto(x) \in SUBSET Upto(y) /\ y \in Upto(y) /\ y \notin Upto(x)
    BY <1>4
  <2> HIDE DEF Upto
  <2>2. Cardinality(Upto(x)) <= Cardinality(Upto(y))
    BY <1>2, <2>1, FS_Subset
  <2>3. Cardinality(Upto(x)) # Cardinality(Upto(y))
    BY <1>2, <2>1, FS_Subset
  <2>4. Cardinality(Upto(x)) \in Nat /\ Cardinality(Upto(y)) \in Nat
    BY <1>2
  <2> QED BY <2>2, <2>3, <2>4
<1>5. rank \in Injection(S, 1 .. c)
  <2>1. rank \in [S -> 1 .. c]
    BY <1>3
  <2>2. \A x, y \in S : rank[x] = rank[y] => x = y
    <3> SUFFICES ASSUME NEW x \in S, NEW y \in S, rank[x] = rank[y] PROVE x = y
      OBVIOUS
    <3> HIDE DEF rank
    <3>1. rank[x] \in Int /\ ~(rank[x] < rank[y]) /\ ~(rank[y] < rank[x])
      BY <1>1, <1>3
    <3> QED BY <1>4, <3>1
  <2> HIDE DEF rank, c
  <2> QED BY <2>1, <2>2, Fun_IsInj
<1>6. rank \in Surjection(S, 1 .. c)
  <2> HIDE DEF rank
  <2> QED BY <1>1, <1>5, FS_Injection
<1>7. \A m \in 1 .. c : \E x \in S : rank[x] = m
  <2> HIDE DEF rank
  <2> QED BY <1>6, Fun_SurjectionProperties
<1> DEFINE r == [m \in 1 .. c |-> CHOOSE x \in S : rank[x] = m]
<1>8. \A m \in 1 .. c : r[m] \in S /\ rank[r[m]] = m
  <2> HIDE DEF rank
  <2> QED BY <1>7
<1>9. \A m, n \in 1 .. c : m < n => <<r[m], r[n]>> \in R
  <2> SUFFICES ASSUME NEW m \in 1 .. c, NEW n \in 1 .. c, m < n
               PROVE  <<r[m], r[n]>> \in R
    OBVIOUS
  <2> HIDE DEF r, rank
  <2>1. r[m] # r[n] /\ ~(<<r[n], r[m]>> \in R)
    BY <1>1, <1>4, <1>8
  <2> QED BY <1>8, <2>1
<1>10. r \in [1 .. c -> S]
  BY <1>8
<1> HIDE DEF r
<1> QED BY <1>9, <1>10

\* The least of some naturals is the Min.
LEMMA FirstIs ==
  ASSUME NEW S \in SUBSET Nat, S # {}
  PROVE  Min(S) \in S /\ \A y \in S : Min(S) <= y
<1>1. \E m \in S : \A y \in S : m <= y
  BY Least
<1> QED BY <1>1, Zenon DEF Min

\* Among finitely many numbers one is the highest.
LEMMA Highest ==
  ASSUME NEW n \in Nat, NEW S \in SUBSET (1 .. n), S # {}, NEW f, \A i \in S : f[i] \in Nat
  PROVE  \E j \in S : \A i \in S : f[i] <= f[j]
<1> DEFINE Top(k) == \A i \in S : i <= k => \E j \in S : j <= k /\ \A x \in S : x <= k => f[x] <= f[j]
           good == {k \in 0 .. n : Top(k)}
<1>1. 0 \in good
  OBVIOUS
<1>2. ASSUME NEW k \in 1 .. n, k - 1 \in good PROVE k \in good
  <2>1. CASE k \notin S
    <3>1. \A i \in S : i <= k <=> i <= k - 1
      BY <2>1
    <3>2. Top(k - 1)
      BY <1>2
    <3> QED BY <3>1, <3>2
  <2>2. CASE k \in S /\ \A x \in S : x <= k => f[x] <= f[k]
    BY <2>2
  <2>3. CASE k \in S /\ \E y \in S : y <= k /\ ~(f[y] <= f[k])
    <3>1. PICK y \in S : y <= k /\ ~(f[y] <= f[k])
      BY <2>3
    <3>2. y <= k - 1
      BY <2>3, <3>1
    <3>3. PICK j \in S : j <= k - 1 /\ \A x \in S : x <= k - 1 => f[x] <= f[j]
      BY <1>2, <3>2
    <3>4. f[k] <= f[j]
      BY <2>3, <3>1, <3>2, <3>3
    <3>5. \A x \in S : x <= k => f[x] <= f[j]
      BY <3>3, <3>4
    <3>6. Top(k)
      BY <3>3, <3>5
    <3> QED BY <3>6
  <2> QED BY <2>1, <2>2, <2>3
<1>3. Top(n)
  <2>1. n \in 0 .. n
    OBVIOUS
  <2>2. n \in good
    <3> HIDE DEF good
    <3> QED BY <1>1, <1>2, <2>1, Climb
  <2> QED BY <2>2
<1>4. \A i \in S : i <= n
  OBVIOUS
<1> QED BY <1>3, <1>4

-----------------------------------------------------------------------------
(* WHAT IS PICKED FROM A VIDEO.                                            *)

Hashes == SUBSET Bits

\* How many bits differ: a distance, which no two hashes exceed the bits at.
LEMMA HammingIs ==
  ASSUME NEW a \in Hashes, NEW b \in Hashes
  PROVE  /\ Hamming(a, b) \in Nat /\ Hamming(a, b) < Infinite /\ Infinite \in Nat
         /\ Hamming(a, b) = Hamming(b, a)
         /\ a = b => Hamming(a, b) = 0
<1> DEFINE D == (a \ b) \cup (b \ a)
<1>1. IsFiniteSet(Bits) /\ Cardinality(Bits) \in Nat
  BY SamplingAssumption, FS_CardinalityType
<1>2. D \in SUBSET Bits
  BY DEF Hashes
<1>3. Cardinality(D) \in Nat /\ Cardinality(D) <= Cardinality(Bits)
  <2> HIDE DEF D
  <2> QED BY <1>1, <1>2, FS_Subset, FS_CardinalityType
<1>4. D = (b \ a) \cup (a \ b)
  OBVIOUS
<1>5. a = b => Cardinality(D) = 0
  <2>1. a = b => D = {}
    OBVIOUS
  <2> HIDE DEF D
  <2> QED BY <2>1, FS_EmptySet
<1>6. Hamming(a, b) = Cardinality(D) /\ Hamming(b, a) = Cardinality(D)
  BY <1>4, Zenon DEF Hamming
<1> HIDE DEF D
<1> QED BY <1>1, <1>3, <1>5, <1>6 DEF Infinite

LEMMA Triangle ==
  ASSUME NEW a \in Hashes, NEW b \in Hashes, NEW c \in Hashes
  PROVE  Hamming(a, c) <= Hamming(a, b) + Hamming(b, c)
<1> DEFINE D(x, y) == (x \ y) \cup (y \ x)
<1>1. D(a, c) \subseteq D(a, b) \cup D(b, c)
  OBVIOUS
<1>2. D(a, c) \in SUBSET Bits /\ D(a, b) \in SUBSET Bits /\ D(b, c) \in SUBSET Bits
  BY DEF Hashes
<1>3. Hamming(a, c) = Cardinality(D(a, c)) /\ Hamming(a, b) = Cardinality(D(a, b))
      /\ Hamming(b, c) = Cardinality(D(b, c))
  BY Zenon DEF Hamming
<1> HIDE DEF D
<1>4. IsFiniteSet(D(a, c)) /\ IsFiniteSet(D(a, b)) /\ IsFiniteSet(D(b, c))
  BY <1>2, SamplingAssumption, FS_Subset
<1> DEFINE P == D(a, b)
           Q == D(b, c)
           R == D(a, c)
<1> HIDE DEF P, Q, R
<1>5. IsFiniteSet(P) /\ IsFiniteSet(Q) /\ IsFiniteSet(R) /\ R \subseteq P \cup Q
  BY <1>1, <1>4 DEF P, Q, R
<1>6. IsFiniteSet(P \cup Q) /\ IsFiniteSet(P \cap Q)
      /\ Cardinality(P \cup Q) = Cardinality(P) + Cardinality(Q) - Cardinality(P \cap Q)
  BY <1>5, FS_Union, FS_Intersection
<1>7. Cardinality(R) <= Cardinality(P \cup Q)
  BY <1>5, <1>6, FS_Subset
<1>8. Cardinality(P) \in Nat /\ Cardinality(Q) \in Nat /\ Cardinality(R) \in Nat
      /\ Cardinality(P \cap Q) \in Nat
  BY <1>5, <1>6, FS_CardinalityType
<1>9. Cardinality(R) <= Cardinality(P) + Cardinality(Q)
  BY <1>6, <1>7, <1>8
<1> QED BY <1>3, <1>9 DEF P, Q, R

\* The nearest is as near as each, and one of them is.
LEMMA NearestIs ==
  ASSUME NEW hash \in Hashes, NEW others \in SUBSET Hashes
  PROVE  /\ Nearest(hash, others) \in Nat /\ Nearest(hash, others) <= Infinite
         /\ \A other \in others : Nearest(hash, others) <= Hamming(hash, other)
         /\ \/ Nearest(hash, others) = Infinite
            \/ \E other \in others : Nearest(hash, others) = Hamming(hash, other)
<1> DEFINE S == {Hamming(hash, other) : other \in others}
<1>1. \A other \in others : Hamming(hash, other) \in Nat /\ Hamming(hash, other) < Infinite
  BY HammingIs
<1>2. Infinite \in Nat
  BY HammingIs
<1>3. CASE others = {}
  BY <1>2, <1>3 DEF Nearest
<1>4. CASE others # {}
  <2>1. S \in SUBSET Nat /\ S # {}
    BY <1>1, <1>4
  <2>2. Nearest(hash, others) = Min(S)
    BY <1>4, Zenon DEF Nearest
  <2>3. Min(S) \in S /\ \A y \in S : Min(S) <= y
    <3> HIDE DEF S
    <3> QED BY <2>1, FirstIs
  <2>4. PICK other \in others : Min(S) = Hamming(hash, other)
    BY <2>3
  <2>5. \A x \in others : Hamming(hash, x) \in S
    OBVIOUS
  <2> HIDE DEF S
  <2> QED BY <1>1, <1>2, <2>2, <2>3, <2>4, <2>5
<1> QED BY <1>3, <1>4

\* The more there are, the nearer.
LEMMA NearerAmongMore ==
  ASSUME NEW hash \in Hashes, NEW few \in SUBSET Hashes, NEW many \in SUBSET Hashes,
         few \subseteq many
  PROVE  Nearest(hash, many) <= Nearest(hash, few)
<1>1. Nearest(hash, many) \in Nat /\ Nearest(hash, few) \in Nat
      /\ Nearest(hash, many) <= Infinite
  BY NearestIs
<1>2. CASE Nearest(hash, few) = Infinite
  BY <1>1, <1>2
<1>3. CASE \E other \in few : Nearest(hash, few) = Hamming(hash, other)
  <2>1. PICK other \in few : Nearest(hash, few) = Hamming(hash, other)
    BY <1>3
  <2>2. other \in many
    BY <2>1
  <2> QED BY <2>1, <2>2, NearestIs
<1> QED BY <1>2, <1>3, NearestIs

-----------------------------------------------------------------------------
(* Deduplication.                                                          *)

\* Of the first n frames each is kept, or near the one kept before it.
NearOrKept(hashes, threshold, kept, i) ==
  \/ i \in kept
  \/ LET before == {k \in kept : k < i}
     IN before # {} /\ Hamming(hashes[i], hashes[Max(before)]) < threshold

Deduped(hashes, threshold, kept, n) ==
  kept \in SUBSET (1 .. n) /\ \A i \in 1 .. n : NearOrKept(hashes, threshold, kept, i)

LEMMA KeptNextIs ==
  ASSUME NEW n \in Nat, NEW hashes \in [1 .. n -> Hashes], NEW threshold \in Int,
         NEW i \in 1 .. n, NEW kept, Deduped(hashes, threshold, kept, i - 1)
  PROVE  Deduped(hashes, threshold, KeptNext(hashes, threshold, kept, i), i)
<1> DEFINE next == KeptNext(hashes, threshold, kept, i)
<1>1. kept \in SUBSET (1 .. i - 1)
  BY DEF Deduped
<1>0. \A k \in kept : k \in 1 .. n /\ k < i
  <2> SUFFICES ASSUME NEW k \in kept PROVE k \in 1 .. n /\ k < i
    OBVIOUS
  <2>1. k \in 1 .. i - 1
    BY <1>1
  <2> QED BY <2>1
<1>2. next \in SUBSET (1 .. i) /\ next \subseteq kept \cup {i} /\ kept \subseteq next
  BY <1>1 DEF KeptNext
<1>3. \A j \in 1 .. i : {k \in next : k < j} = {k \in kept : k < j}
  <2> SUFFICES ASSUME NEW j \in 1 .. i PROVE {k \in next : k < j} = {k \in kept : k < j}
    OBVIOUS
  <2> HIDE DEF next
  <2>1. ~(i < j)
    OBVIOUS
  <2> QED BY <1>2, <2>1
<1>4. ASSUME NEW j \in 1 .. i - 1 PROVE NearOrKept(hashes, threshold, next, j)
  <2>1. NearOrKept(hashes, threshold, kept, j)
    BY DEF Deduped
  <2>2. {k \in next : k < j} = {k \in kept : k < j}
    BY <1>3
  <2> HIDE DEF next
  <2> QED BY <1>2, <2>1, <2>2 DEF NearOrKept
<1>5. NearOrKept(hashes, threshold, next, i)
  <2>1. CASE kept = {} \/ Hamming(hashes[i], hashes[Max(kept)]) >= threshold
    BY <2>1 DEF NearOrKept, KeptNext
  <2>2. CASE kept # {} /\ ~(Hamming(hashes[i], hashes[Max(kept)]) >= threshold)
    <3>1. Max(kept) \in kept
      <4>1. i - 1 \in Nat
        OBVIOUS
      <4> QED BY <1>1, <2>2, <4>1, Greatest
    <3>2. Hamming(hashes[i], hashes[Max(kept)]) \in Nat
      <4>1. hashes[i] \in Hashes /\ hashes[Max(kept)] \in Hashes
        BY <1>0, <3>1
      <4> QED BY <4>1, HammingIs
    <3>3. Hamming(hashes[i], hashes[Max(kept)]) < threshold
      BY <2>2, <3>2
    <3>4. {k \in kept : k < i} = kept
      BY <1>0
    <3>5. {k \in next : k < i} = kept
      <4> HIDE DEF next
      <4> QED BY <1>3, <3>4
    <3> HIDE DEF next
    <3> QED BY <2>2, <3>3, <3>5 DEF NearOrKept
  <2> QED BY <2>1, <2>2
<1> HIDE DEF next
<1>6. \A j \in 1 .. i : j = i \/ j \in 1 .. i - 1
  OBVIOUS
<1> QED BY <1>2, <1>4, <1>5, <1>6 DEF next, Deduped

LEMMA DedupKeeps ==
  ASSUME NEW n \in Nat, NEW hashes \in [1 .. n -> Hashes], NEW threshold \in Int
  PROVE  Deduped(hashes, threshold, KeptOf(hashes, threshold), n)
<1> DEFINE S == SUBSET (1 .. n)
           G == [p \in (1 .. n) \X S |-> KeptNext(hashes, threshold, p[2], p[1])]
           Made(g) == g = [k \in 0 .. n |->
                             IF k = 0 THEN {} ELSE KeptNext(hashes, threshold, g[k - 1], k)]
           kept == CHOOSE g : Made(g)
<1>1. /\ G \in [(1 .. n) \X S -> S]
      /\ \A k \in 1 .. n : \A b \in S : G[<<k, b>>] = KeptNext(hashes, threshold, b, k)
  <2>1. \A k \in 1 .. n : \A b \in S : KeptNext(hashes, threshold, b, k) \in S
    BY DEF KeptNext
  <2> QED BY <2>1
<1>2. PICK f \in [0 .. n -> S] : Computes(f, {}, n, G)
  <2>1. {} \in S
    OBVIOUS
  <2> HIDE DEF G, S
  <2> QED BY <1>1, <2>1, Recursion
<1>3. f[0] = {} /\ \A k \in 1 .. n : f[k] = KeptNext(hashes, threshold, f[k - 1], k)
  <2> SUFFICES ASSUME NEW k \in 1 .. n PROVE f[k] = KeptNext(hashes, threshold, f[k - 1], k)
    BY <1>2 DEF Computes
  <2> HIDE DEF G, S
  <2>1. f[k - 1] \in S /\ f[k] = G[<<k, f[k - 1]>>]
    BY <1>2 DEF Computes
  <2> QED BY <1>1, <2>1
<1>4. Made(f)
  <2>1. f = [k \in 0 .. n |-> f[k]]
    OBVIOUS
  <2>2. \A k \in 0 .. n :
          f[k] = IF k = 0 THEN {} ELSE KeptNext(hashes, threshold, f[k - 1], k)
    <3>1. \A k \in 0 .. n : k # 0 => k \in 1 .. n
      OBVIOUS
    <3> QED BY <1>3, <3>1
  <2> QED BY <2>1, <2>2, Zenon
<1>5. kept = f
  <2>1. Made(kept)
    <3> HIDE DEF Made
    <3> QED BY <1>4, Zenon
  <2> HIDE DEF kept
  <2>2. kept = [k \in 0 .. n |-> kept[k]]
    BY <2>1
  <2>3. \A k \in 0 .. n :
          kept[k] = IF k = 0 THEN {} ELSE KeptNext(hashes, threshold, kept[k - 1], k)
    BY <2>1
  <2> HIDE DEF G, S, Made
  <2>4. kept[0] = {} /\ \A k \in 1 .. n : kept[k] = KeptNext(hashes, threshold, kept[k - 1], k)
    <3>1. 0 \in 0 .. n /\ \A k \in 1 .. n : k \in 0 .. n /\ k # 0
      OBVIOUS
    <3> QED BY <2>3, <3>1
  <2>5. f = [k \in 0 .. n |-> f[k]]
    OBVIOUS
  <2>6. Alike(kept, f, n)
    BY <1>3, <2>2, <2>4, <2>5 DEF Alike
  <2> QED BY <2>6, OneFunction
<1>6. Len(hashes) = n
  OBVIOUS
<1>7. KeptOf(hashes, threshold) = kept[n]
  BY <1>6, Zenon DEF KeptOf
<1> HIDE DEF kept, G
<1> DEFINE good == {k \in 0 .. n : Deduped(hashes, threshold, f[k], k)}
<1>8. 0 \in good
  BY <1>3 DEF Deduped
<1>9. ASSUME NEW k \in 1 .. n, k - 1 \in good PROVE k \in good
  <2>1. Deduped(hashes, threshold, f[k - 1], k - 1)
    BY <1>9
  <2>2. Deduped(hashes, threshold, KeptNext(hashes, threshold, f[k - 1], k), k)
    BY <2>1, KeptNextIs
  <2> QED BY <1>3, <2>2
<1>10. n \in good
  <2>1. n \in 0 .. n
    OBVIOUS
  <2> HIDE DEF good
  <2> QED BY <1>8, <1>9, <2>1, Climb
<1> QED BY <1>5, <1>7, <1>10

LEMMA CaseDeduped == Case => DroppedAreNear
<1> SUFFICES ASSUME Case, Of("dedup") PROVE DroppedAreNear
  BY DEF DroppedAreNear
<1>1. sampling \in Dedups
  BY DEF Case, Of, Cuts, Draws, Picks
<1>2. MaxHashes \in Nat /\ Cardinality(Bits) \in Nat
  BY SamplingAssumption, FS_CardinalityType
<1>3. sampling.hashes \in [1 .. MaxHashes -> Hashes] /\ sampling.threshold \in Int
  BY <1>1, <1>2 DEF Dedups, HashSeqs, Hashes
<1>4. Deduped(sampling.hashes, sampling.threshold,
              KeptOf(sampling.hashes, sampling.threshold), MaxHashes)
  BY <1>2, <1>3, DedupKeeps
<1>5. DOMAIN sampling.hashes = 1 .. MaxHashes
  BY <1>3
<1> QED BY <1>4, <1>5, Zenon DEF DroppedAreNear, Deduped, NearOrKept

\* Dedup: a frame is dropped only for being near the last one kept before it,
\* so no slow pan drifts away from what is kept.
THEOREM DroppedStayNear == SamplingSpec => []DroppedAreNear
<1>1. SamplingInit => Case
  BY DEF SamplingInit, Case
<1>2. Case /\ [SamplingNext]_sampling => Case'
  BY DEF SamplingNext, Case
<1> QED  BY <1>1, <1>2, CaseDeduped, PTL DEF SamplingSpec

-----------------------------------------------------------------------------
(* The farthest-point draw.                                                *)

\* How near a frame of the pool is to the reference and the picks.
Away(pool, picks, reference, j) == Nearest(pool[j], MeasuredAgainst(pool, picks, reference))

\* No two picks are nearer than r, nor is one to the reference.
Apart(pool, picks, reference, r) ==
  /\ \A i \in picks : r <= Nearest(pool[i], reference)
  /\ \A i, j \in picks : i # j => r <= Hamming(pool[i], pool[j])

\* No frame of the pool is farther than r.
Within(pool, picks, reference, r) == \A j \in DOMAIN pool : Away(pool, picks, reference, j) <= r

LEMMA MeasuredIs ==
  ASSUME NEW n \in Nat, NEW pool \in [1 .. n -> Hashes], NEW reference \in SUBSET Hashes,
         NEW picks \in SUBSET (1 .. n)
  PROVE  /\ MeasuredAgainst(pool, picks, reference) \in SUBSET Hashes
         /\ reference \subseteq MeasuredAgainst(pool, picks, reference)
         /\ \A p \in picks : pool[p] \in MeasuredAgainst(pool, picks, reference)
         /\ \A h \in MeasuredAgainst(pool, picks, reference) :
              h \in reference \/ \E p \in picks : h = pool[p]
         /\ \A j \in 1 .. n : Away(pool, picks, reference, j) \in Nat
<1>1. \A p \in picks : pool[p] \in Hashes
  OBVIOUS
<1>2. MeasuredAgainst(pool, picks, reference) \in SUBSET Hashes
  BY <1>1 DEF MeasuredAgainst
<1>3. ASSUME NEW j \in 1 .. n PROVE Away(pool, picks, reference, j) \in Nat
  <2>1. pool[j] \in Hashes
    OBVIOUS
  <2> QED BY <1>2, <2>1, NearestIs DEF Away
<1> QED BY <1>2, <1>3 DEF MeasuredAgainst

\* The pick is a frame left, and none that is left is farther.
LEMMA FarthestIs ==
  ASSUME NEW n \in Nat, NEW pool \in [1 .. n -> Hashes], NEW reference \in SUBSET Hashes,
         NEW picks \in SUBSET (1 .. n), picks # 1 .. n
  PROVE  /\ FarthestOf(pool, picks, reference) \in (1 .. n) \ picks
         /\ \A j \in (1 .. n) \ picks :
              Away(pool, picks, reference, j)
                <= Away(pool, picks, reference, FarthestOf(pool, picks, reference))
<1> DEFINE left == (1 .. n) \ picks
           away == [j \in 1 .. n |-> Away(pool, picks, reference, j)]
           tops == {i \in left : \A j \in left : away[j] <= away[i]}
<1>1. \A j \in 1 .. n : away[j] = Away(pool, picks, reference, j) /\ away[j] \in Nat
  BY MeasuredIs
<1>2. left \in SUBSET (1 .. n) /\ left # {}
  OBVIOUS
<1>3. tops \in SUBSET Nat /\ tops # {}
  <2> HIDE DEF left, away
  <2>1. \A j \in left : away[j] \in Nat
    BY <1>1, <1>2
  <2>2. \E i \in left : \A j \in left : away[j] <= away[i]
    BY <1>2, <2>1, Highest
  <2>3. tops # {}
    BY <2>2
  <2>4. tops \subseteq left /\ left \subseteq Nat
    BY <1>2
  <2> QED BY <2>3, <2>4
<1>4. DOMAIN pool = 1 .. n
  OBVIOUS
<1>5. FarthestOf(pool, picks, reference)
        = Min({i \in left : \A j \in left :
                 Away(pool, picks, reference, j) <= Away(pool, picks, reference, i)})
  BY <1>4, Zenon DEF FarthestOf, Away
<1>6. tops = {i \in left : \A j \in left :
                 Away(pool, picks, reference, j) <= Away(pool, picks, reference, i)}
  <2> HIDE DEF away, left
  <2> QED BY <1>1, <1>2
<1>7. Min(tops) \in tops
  <2> HIDE DEF tops
  <2> QED BY <1>3, FirstIs
<1>8. FarthestOf(pool, picks, reference) = Min(tops)
  BY <1>5, <1>6, Zenon
<1> HIDE DEF away, left
<1>9. Min(tops) \in left /\ \A j \in left : away[j] <= away[Min(tops)]
  BY <1>7
<1>10. \A j \in left : Away(pool, picks, reference, j) <= Away(pool, picks, reference, Min(tops))
  BY <1>1, <1>2, <1>9
<1> QED BY <1>8, <1>9, <1>10 DEF left

\* Enlarging the picks brings every frame nearer.
LEMMA AwayShrinks ==
  ASSUME NEW n \in Nat, NEW pool \in [1 .. n -> Hashes], NEW reference \in SUBSET Hashes,
         NEW picks \in SUBSET (1 .. n), NEW more \in SUBSET (1 .. n), picks \subseteq more,
         NEW j \in 1 .. n
  PROVE  Away(pool, more, reference, j) <= Away(pool, picks, reference, j)
<1>1. MeasuredAgainst(pool, picks, reference) \subseteq MeasuredAgainst(pool, more, reference)
  BY DEF MeasuredAgainst
<1>2. /\ MeasuredAgainst(pool, picks, reference) \in SUBSET Hashes
      /\ MeasuredAgainst(pool, more, reference) \in SUBSET Hashes
      /\ pool[j] \in Hashes
  BY MeasuredIs
<1> QED BY <1>1, <1>2, NearerAmongMore DEF Away

\* A state of the draw: so many picks, as far apart as the frames left are near.
Spaced(pool, picks, reference, n, count) ==
  /\ picks \in SUBSET (1 .. n) /\ IsFiniteSet(picks) /\ Cardinality(picks) = count
  /\ \E r \in Nat : Apart(pool, picks, reference, r) /\ Within(pool, picks, reference, r)

\* The last pick is as far from the picks before it as any frame is, and no
\* two picks are nearer.
LEMMA PickIs ==
  ASSUME NEW n \in Nat, NEW pool \in [1 .. n -> Hashes], NEW reference \in SUBSET Hashes,
         NEW count \in Nat, count < n, NEW picks, Spaced(pool, picks, reference, n, count),
         NEW next, next = PickedNext(pool, reference, picks)
  PROVE  /\ next \in SUBSET (1 .. n) /\ IsFiniteSet(next) /\ Cardinality(next) = count + 1
         /\ \E r \in Nat : Apart(pool, next, reference, r) /\ Within(pool, picks, reference, r)
<1> DEFINE p == FarthestOf(pool, picks, reference)
           r == Away(pool, picks, reference, p)
<1>1. picks \in SUBSET (1 .. n) /\ IsFiniteSet(picks) /\ Cardinality(picks) = count
  BY DEF Spaced
<1>2. PICK s \in Nat : Apart(pool, picks, reference, s) /\ Within(pool, picks, reference, s)
  BY DEF Spaced
<1>3. picks # 1 .. n
  <2>1. Cardinality(1 .. n) = n
    <3>1. 1 \in Int /\ n \in Int
      OBVIOUS
    <3> QED BY <3>1, FS_Interval
  <2> QED BY <1>1, <2>1
<1>4. /\ p \in (1 .. n) \ picks
      /\ \A j \in (1 .. n) \ picks : Away(pool, picks, reference, j) <= r
  BY <1>1, <1>3, FarthestIs
<1>5. next = picks \cup {p}
  BY Zenon DEF PickedNext
<1> HIDE DEF p
<1>6. r \in Nat /\ DOMAIN pool = 1 .. n
  BY <1>1, <1>4, MeasuredIs
<1>7. r <= s
  BY <1>2, <1>4, <1>6 DEF Within
<1>8. Within(pool, picks, reference, r)
  <2> SUFFICES ASSUME NEW j \in 1 .. n PROVE Away(pool, picks, reference, j) <= r
    BY <1>6 DEF Within
  <2>1. CASE j \notin picks
    BY <1>4, <2>1
  <2>2. CASE j \in picks
    <3>1. pool[j] \in Hashes /\ pool[j] \in MeasuredAgainst(pool, picks, reference)
          /\ MeasuredAgainst(pool, picks, reference) \in SUBSET Hashes
      BY <1>1, <2>2, MeasuredIs
    <3>2. Away(pool, picks, reference, j) <= Hamming(pool[j], pool[j])
      BY <3>1, NearestIs DEF Away
    <3>3. Hamming(pool[j], pool[j]) = 0
      BY <3>1, HammingIs
    <3>4. Away(pool, picks, reference, j) \in Nat
      BY <1>1, MeasuredIs
    <3> HIDE DEF r
    <3> QED BY <1>6, <3>2, <3>3, <3>4
  <2> QED BY <2>1, <2>2
<1>9. r <= Nearest(pool[p], reference)
  <2>1. /\ pool[p] \in Hashes /\ reference \subseteq MeasuredAgainst(pool, picks, reference)
        /\ MeasuredAgainst(pool, picks, reference) \in SUBSET Hashes
    BY <1>1, <1>4, MeasuredIs
  <2> QED BY <2>1, NearerAmongMore DEF Away
<1>10. \A i \in picks : r <= Hamming(pool[p], pool[i]) /\ r <= Hamming(pool[i], pool[p])
  <2> SUFFICES ASSUME NEW i \in picks
               PROVE  r <= Hamming(pool[p], pool[i]) /\ r <= Hamming(pool[i], pool[p])
    OBVIOUS
  <2>1. pool[i] \in MeasuredAgainst(pool, picks, reference)
    BY <1>1, MeasuredIs
  <2>2. /\ pool[p] \in Hashes /\ pool[i] \in Hashes
        /\ MeasuredAgainst(pool, picks, reference) \in SUBSET Hashes
    BY <1>1, <1>4, MeasuredIs
  <2>3. r <= Hamming(pool[p], pool[i])
    BY <2>1, <2>2, NearestIs DEF Away
  <2>4. Hamming(pool[p], pool[i]) = Hamming(pool[i], pool[p])
    BY <2>2, HammingIs
  <2> QED BY <2>3, <2>4
<1> HIDE DEF r
<1>11. Apart(pool, next, reference, r)
  <2>1. \A i \in next : r <= Nearest(pool[i], reference)
    <3> SUFFICES ASSUME NEW i \in picks PROVE r <= Nearest(pool[i], reference)
      BY <1>5, <1>9
    <3>1. s <= Nearest(pool[i], reference)
      BY <1>2 DEF Apart
    <3>2. Nearest(pool[i], reference) \in Nat
      <4>1. pool[i] \in Hashes
        BY <1>1
      <4> QED BY <4>1, NearestIs
    <3> QED BY <1>6, <1>7, <3>1, <3>2
  <2>2. \A i, j \in picks : i # j => r <= Hamming(pool[i], pool[j])
    <3> SUFFICES ASSUME NEW i \in picks, NEW j \in picks, i # j
                 PROVE  r <= Hamming(pool[i], pool[j])
      OBVIOUS
    <3>1. s <= Hamming(pool[i], pool[j])
      BY <1>2 DEF Apart
    <3>2. Hamming(pool[i], pool[j]) \in Nat
      <4>1. pool[i] \in Hashes /\ pool[j] \in Hashes
        BY <1>1
      <4> QED BY <4>1, HammingIs
    <3> QED BY <1>6, <1>7, <3>1, <3>2
  <2>3. \A i, j \in next : i # j => r <= Hamming(pool[i], pool[j])
    BY <1>5, <1>10, <2>2
  <2> QED BY <2>1, <2>3 DEF Apart
<1>12. next \in SUBSET (1 .. n) /\ IsFiniteSet(next) /\ Cardinality(next) = count + 1
  BY <1>1, <1>4, <1>5, FS_AddElement
<1> QED BY <1>6, <1>8, <1>11, <1>12

LEMMA PickKeeps ==
  ASSUME NEW n \in Nat, NEW pool \in [1 .. n -> Hashes], NEW reference \in SUBSET Hashes,
         NEW count \in Nat, count < n, NEW picks, Spaced(pool, picks, reference, n, count)
  PROVE  Spaced(pool, PickedNext(pool, reference, picks), reference, n, count + 1)
<1>0. PICK next : next = PickedNext(pool, reference, picks)
  OBVIOUS
<1>1. next \in SUBSET (1 .. n) /\ IsFiniteSet(next) /\ Cardinality(next) = count + 1
  BY <1>0, PickIs
<1>2. PICK r \in Nat : Apart(pool, next, reference, r) /\ Within(pool, picks, reference, r)
  BY <1>0, PickIs
<1>3. picks \in SUBSET (1 .. n) /\ picks \subseteq next
  BY <1>0 DEF Spaced, PickedNext
<1>4. Within(pool, next, reference, r)
  <2> SUFFICES ASSUME NEW j \in 1 .. n PROVE Away(pool, next, reference, j) <= r
    BY DEF Within
  <2>1. Away(pool, next, reference, j) <= Away(pool, picks, reference, j)
    BY <1>1, <1>3, AwayShrinks
  <2>2. Away(pool, picks, reference, j) <= r
    BY <1>2 DEF Within
  <2>3. Away(pool, next, reference, j) \in Nat /\ Away(pool, picks, reference, j) \in Nat
    BY <1>1, <1>3, MeasuredIs
  <2> QED BY <2>1, <2>2, <2>3
<1> QED BY <1>0, <1>1, <1>2, <1>4 DEF Spaced

\* The draw of a budget that is smaller than the pool.
Drawn(pool, reference, n, budget, chosen) ==
  /\ chosen \in SUBSET (1 .. n) /\ IsFiniteSet(chosen) /\ Cardinality(chosen) = budget
  /\ \E picks, r : /\ Spaced(pool, picks, reference, n, budget - 1) /\ r \in Nat
                   /\ Apart(pool, chosen, reference, r) /\ Within(pool, picks, reference, r)

LEMMA DiverseIs ==
  ASSUME NEW n \in Nat, NEW pool \in [1 .. n -> Hashes], NEW reference \in SUBSET Hashes,
         NEW budget \in 1 .. n - 1
  PROVE  Drawn(pool, reference, n, budget, Diverse(pool, reference, budget))
<1> DEFINE S == SUBSET (1 .. n)
           G == [p \in (1 .. budget) \X S |->
                   IF p[2] = 1 .. n THEN p[2] ELSE PickedNext(pool, reference, p[2])]
           Made(g) == g = [k \in 0 .. budget |->
                             IF k = 0 THEN {} ELSE PickedNext(pool, reference, g[k - 1])]
           picked == CHOOSE g : Made(g)
<1>0. budget \in Nat /\ budget < n /\ DOMAIN pool = 1 .. n /\ Len(pool) = n
  OBVIOUS
<1>1. /\ G \in [(1 .. budget) \X S -> S]
      /\ \A k \in 1 .. budget : \A b \in S :
           b # 1 .. n => G[<<k, b>>] = PickedNext(pool, reference, b)
  <2>1. ASSUME NEW b \in S, b # 1 .. n PROVE PickedNext(pool, reference, b) \in S
    <3>1. FarthestOf(pool, b, reference) \in 1 .. n
      BY <2>1, FarthestIs
    <3> QED BY <3>1 DEF PickedNext
  <2>2. \A b \in S : b # 1 .. n => PickedNext(pool, reference, b) \in S
    BY <2>1
  <2> HIDE DEF S
  <2> QED BY <2>2
<1>2. PICK f \in [0 .. budget -> S] : Computes(f, {}, budget, G)
  <2>1. {} \in S
    OBVIOUS
  <2> HIDE DEF G, S
  <2> QED BY <1>0, <1>1, <2>1, Recursion
<1>3. f[0] = {}
  BY <1>2 DEF Computes
<1>4. Spaced(pool, {}, reference, n, 0)
  <2>1. IsFiniteSet({}) /\ Cardinality({}) = 0
    BY FS_EmptySet
  <2>2. Infinite \in Nat
    <3>1. {} \in Hashes
      BY DEF Hashes
    <3> QED BY <3>1, HammingIs
  <2>3. Within(pool, {}, reference, Infinite)
    <3> SUFFICES ASSUME NEW j \in 1 .. n PROVE Away(pool, {}, reference, j) <= Infinite
      BY <1>0 DEF Within
    <3>1. pool[j] \in Hashes /\ MeasuredAgainst(pool, {}, reference) \in SUBSET Hashes
      BY MeasuredIs
    <3> QED BY <3>1, NearestIs DEF Away
  <2> QED BY <2>1, <2>2, <2>3 DEF Spaced, Apart
<1>5. ASSUME NEW k \in 1 .. budget, Spaced(pool, f[k - 1], reference, n, k - 1)
      PROVE  /\ f[k] = PickedNext(pool, reference, f[k - 1])
             /\ Spaced(pool, f[k], reference, n, k)
  <2>1. k - 1 \in Nat /\ k - 1 < n /\ k - 1 + 1 = k
    OBVIOUS
  <2>2. f[k - 1] # 1 .. n
    <3>1. Cardinality(1 .. n) = n
      <4>1. 1 \in Int /\ n \in Int
        OBVIOUS
      <4> QED BY <4>1, FS_Interval
    <3> QED BY <1>5, <2>1, <3>1 DEF Spaced
  <2> HIDE DEF G, S
  <2>3. f[k - 1] \in S /\ f[k] = G[<<k, f[k - 1]>>]
    BY <1>2 DEF Computes
  <2>4. f[k] = PickedNext(pool, reference, f[k - 1])
    BY <1>1, <2>2, <2>3
  <2>5. Spaced(pool, PickedNext(pool, reference, f[k - 1]), reference, n, k - 1 + 1)
    BY <1>5, <2>1, PickKeeps
  <2> QED BY <2>1, <2>4, <2>5
<1> HIDE DEF G
<1>6. \A k \in 0 .. budget : Spaced(pool, f[k], reference, n, k)
  <2> DEFINE good == {k \in 0 .. budget : Spaced(pool, f[k], reference, n, k)}
  <2>1. 0 \in good
    <3>1. 0 \in 0 .. budget
      OBVIOUS
    <3> QED BY <1>3, <1>4, <3>1, Zenon
  <2>2. ASSUME NEW k \in 1 .. budget, k - 1 \in good PROVE k \in good
    BY <1>5, <2>2
  <2>3. \A k \in 0 .. budget : k \in good
    <3> HIDE DEF good
    <3> QED BY <1>0, <2>1, <2>2, Climb
  <2> QED BY <2>3
<1>7. \A k \in 1 .. budget : f[k] = PickedNext(pool, reference, f[k - 1])
  <2> SUFFICES ASSUME NEW k \in 1 .. budget PROVE f[k] = PickedNext(pool, reference, f[k - 1])
    OBVIOUS
  <2>1. k - 1 \in 0 .. budget
    OBVIOUS
  <2> QED BY <1>5, <1>6, <2>1
<1>8. Made(f)
  <2>1. f = [k \in 0 .. budget |-> f[k]]
    OBVIOUS
  <2>2. \A k \in 0 .. budget :
          f[k] = IF k = 0 THEN {} ELSE PickedNext(pool, reference, f[k - 1])
    <3>1. \A k \in 0 .. budget : k # 0 => k \in 1 .. budget
      OBVIOUS
    <3> QED BY <1>3, <1>7, <3>1
  <2> QED BY <2>1, <2>2, Zenon
<1>9. picked = f
  <2>1. Made(picked)
    <3> HIDE DEF Made
    <3> QED BY <1>8, Zenon
  <2> HIDE DEF picked
  <2>2. picked = [k \in 0 .. budget |-> picked[k]]
    BY <2>1
  <2>3. \A k \in 0 .. budget :
          picked[k] = IF k = 0 THEN {} ELSE PickedNext(pool, reference, picked[k - 1])
    BY <2>1
  <2> HIDE DEF Made
  <2>4. picked[0] = {} /\ \A k \in 1 .. budget : picked[k] = PickedNext(pool, reference, picked[k - 1])
    <3>1. 0 \in 0 .. budget /\ \A k \in 1 .. budget : k \in 0 .. budget /\ k # 0
      OBVIOUS
    <3> QED BY <2>3, <3>1
  <2>5. f = [k \in 0 .. budget |-> f[k]]
    OBVIOUS
  <2>6. Alike(picked, f, budget)
    BY <1>3, <1>7, <2>2, <2>4, <2>5 DEF Alike
  <2> QED BY <1>0, <2>6, OneFunction
<1>10. Diverse(pool, reference, budget) = picked[budget]
  <2>1. ~(Len(pool) <= budget)
    BY <1>0
  <2> QED BY <2>1, Zenon DEF Diverse
<1> HIDE DEF picked
<1> DEFINE before == f[budget - 1]
           chosen == f[budget]
<1>11. /\ Spaced(pool, before, reference, n, budget - 1) /\ budget - 1 \in Nat
       /\ budget - 1 < n /\ chosen = PickedNext(pool, reference, before) /\ budget - 1 + 1 = budget
  BY <1>6, <1>7
<1> HIDE DEF before, chosen
<1>12. /\ chosen \in SUBSET (1 .. n) /\ IsFiniteSet(chosen) /\ Cardinality(chosen) = budget - 1 + 1
       /\ \E r \in Nat : Apart(pool, chosen, reference, r) /\ Within(pool, before, reference, r)
  <2>1. PICK count \in Nat : count = budget - 1
    BY <1>11
  <2>2. Spaced(pool, before, reference, n, count) /\ count < n /\ count + 1 = budget - 1 + 1
    BY <1>11, <2>1
  <2>3. /\ chosen \in SUBSET (1 .. n) /\ IsFiniteSet(chosen) /\ Cardinality(chosen) = count + 1
        /\ \E r \in Nat : Apart(pool, chosen, reference, r) /\ Within(pool, before, reference, r)
    BY <1>11, <2>2, PickIs
  <2> QED BY <2>1, <2>3
<1>13. Drawn(pool, reference, n, budget, chosen)
  BY <1>11, <1>12 DEF Drawn
<1> QED BY <1>9, <1>10, <1>13 DEF chosen

\* The spread of a choice is the least of its distances.
LEMMA SpreadIs ==
  ASSUME NEW n \in Nat, NEW pool \in [1 .. n -> Hashes], NEW reference \in SUBSET Hashes,
         NEW choice \in SUBSET (1 .. n), choice # {}
  PROVE  /\ Spread(pool, choice, reference) \in Nat
         /\ Apart(pool, choice, reference, Spread(pool, choice, reference))
         /\ \A r \in Nat : Apart(pool, choice, reference, r) => r <= Spread(pool, choice, reference)
<1> DEFINE pairs == {p \in choice \X choice : p[1] # p[2]}
           T == {Nearest(pool[i], reference) : i \in choice}
                  \cup {Hamming(pool[pair[1]], pool[pair[2]]) : pair \in pairs}
<1>1. \A i \in choice : Nearest(pool[i], reference) \in Nat
  <2> SUFFICES ASSUME NEW i \in choice PROVE Nearest(pool[i], reference) \in Nat
    OBVIOUS
  <2>1. pool[i] \in Hashes
    OBVIOUS
  <2> QED BY <2>1, NearestIs
<1>2. \A i, j \in choice : Hamming(pool[i], pool[j]) \in Nat
  <2> SUFFICES ASSUME NEW i \in choice, NEW j \in choice PROVE Hamming(pool[i], pool[j]) \in Nat
    OBVIOUS
  <2>1. pool[i] \in Hashes /\ pool[j] \in Hashes
    OBVIOUS
  <2> QED BY <2>1, HammingIs
<1>3. /\ \A i \in choice : Nearest(pool[i], reference) \in T
      /\ \A i, j \in choice : i # j => Hamming(pool[i], pool[j]) \in T
  <2>1. ASSUME NEW i \in choice, NEW j \in choice, i # j PROVE Hamming(pool[i], pool[j]) \in T
    <3>1. <<i, j>> \in pairs /\ <<i, j>>[1] = i /\ <<i, j>>[2] = j
      BY <2>1
    <3> HIDE DEF pairs
    <3> QED BY <3>1, Zenon
  <2> QED BY <2>1
<1>4. \A t \in T : \/ \E i \in choice : t = Nearest(pool[i], reference)
                   \/ \E i, j \in choice : i # j /\ t = Hamming(pool[i], pool[j])
  <2>1. \A pair \in pairs : pair[1] \in choice /\ pair[2] \in choice /\ pair[1] # pair[2]
    OBVIOUS
  <2> HIDE DEF pairs
  <2> QED BY <2>1, Zenon
<1>5. Spread(pool, choice, reference) = Min(T)
  BY Zenon DEF Spread
<1> HIDE DEF T
<1>6. T \in SUBSET Nat /\ T # {}
  <2>1. \A t \in T : t \in Nat
    BY <1>1, <1>2, <1>4, Zenon
  <2>2. T # {}
    BY <1>3, Zenon
  <2> QED BY <2>1, <2>2
<1>7. Min(T) \in T /\ \A t \in T : Min(T) <= t
  BY <1>6, FirstIs
<1>8. Apart(pool, choice, reference, Min(T))
  BY <1>3, <1>7 DEF Apart
<1>9. ASSUME NEW r \in Nat, Apart(pool, choice, reference, r) PROVE r <= Min(T)
  BY <1>4, <1>7, <1>9 DEF Apart
<1> QED BY <1>5, <1>6, <1>7, <1>8, <1>9

\* A choice has a frame within r of the reference, or two that are within r of
\* one pick, as there are fewer picks than frames in it.
LEMMA SpreadBounded ==
  ASSUME NEW n \in Nat, NEW pool \in [1 .. n -> Hashes], NEW reference \in SUBSET Hashes,
         NEW picks \in SUBSET (1 .. n), IsFiniteSet(picks),
         NEW r \in Nat, Within(pool, picks, reference, r),
         NEW choice \in SUBSET (1 .. n), IsFiniteSet(choice),
         Cardinality(picks) < Cardinality(choice)
  PROVE  Spread(pool, choice, reference) <= 2 * r
<1> DEFINE spread == Spread(pool, choice, reference)
           Near(i, p) == Hamming(pool[i], pool[p]) <= r
<1>1. choice # {}
  <2>1. Cardinality(picks) \in Nat
    BY FS_CardinalityType
  <2> QED BY <2>1, FS_EmptySet
<1>2. spread \in Nat /\ Apart(pool, choice, reference, spread)
  BY <1>1, SpreadIs
<1> HIDE DEF spread
<1>3. \A i \in choice : pool[i] \in Hashes /\ i \in 1 .. n
  OBVIOUS
<1>4. DOMAIN pool = 1 .. n
  OBVIOUS
<1>5. ASSUME NEW i \in choice, Nearest(pool[i], reference) <= r
      PROVE  spread <= 2 * r
  <2>1. spread <= Nearest(pool[i], reference)
    BY <1>2 DEF Apart
  <2>2. Nearest(pool[i], reference) \in Nat
    BY <1>3, NearestIs
  <2> QED BY <1>2, <1>5, <2>1, <2>2
<1>6. ASSUME NEW i \in choice, ~(Nearest(pool[i], reference) <= r)
      PROVE  \E p \in picks : Near(i, p)
  <2> DEFINE others == MeasuredAgainst(pool, picks, reference)
  <2>1. others \in SUBSET Hashes /\ pool[i] \in Hashes
        /\ \A h \in others : h \in reference \/ \E p \in picks : h = pool[p]
    <3>1. \A h \in others : h \in reference \/ \E p \in picks : h = pool[p]
      BY DEF MeasuredAgainst
    <3>2. others \in SUBSET Hashes
      BY MeasuredIs
    <3> HIDE DEF others
    <3> QED BY <1>3, <3>1, <3>2
  <2>2. Nearest(pool[i], others) <= r
    BY <1>3, <1>4 DEF Within, Away
  <2> HIDE DEF others
  <2>3. Nearest(pool[i], reference) \in Nat /\ Nearest(pool[i], reference) <= Infinite
        /\ Infinite \in Nat
    BY <2>1, NearestIs, HammingIs
  <2>4. CASE Nearest(pool[i], others) = Infinite
    BY <1>6, <2>2, <2>3, <2>4
  <2>5. CASE \E h \in others : Nearest(pool[i], others) = Hamming(pool[i], h)
    <3>1. PICK h \in others : Nearest(pool[i], others) = Hamming(pool[i], h)
      BY <2>5
    <3>2. CASE h \in reference
      <4>1. Nearest(pool[i], reference) <= Hamming(pool[i], h)
        BY <2>1, <3>2, NearestIs
      <4>2. Hamming(pool[i], h) \in Nat
        BY <2>1, <3>1, HammingIs
      <4> QED BY <1>6, <2>2, <2>3, <3>1, <4>1, <4>2
    <3>3. CASE \E p \in picks : h = pool[p]
      BY <2>2, <3>1, <3>3
    <3> QED BY <2>1, <3>2, <3>3
  <2> QED BY <2>1, <2>4, <2>5, NearestIs
<1>7. ASSUME \A i \in choice : \E p \in picks : Near(i, p)
      PROVE  spread <= 2 * r
  <2> DEFINE f == [i \in choice |-> CHOOSE p \in picks : Near(i, p)]
  <2>1. \A i \in choice : f[i] \in picks /\ Near(i, f[i])
    <3> HIDE DEF Near
    <3> QED BY <1>7
  <2>2. f \in [choice -> picks]
    <3> HIDE DEF Near
    <3> QED BY <1>7
  <2> HIDE DEF f, Near
  <2>3. PICK i, j \in choice : i # j /\ f[i] = f[j]
    BY <2>2, FS_PigeonHole
  <2>4. /\ Hamming(pool[i], pool[f[i]]) <= r /\ Hamming(pool[j], pool[f[i]]) <= r
    BY <2>1, <2>3 DEF Near
  <2>5. pool[i] \in Hashes /\ pool[j] \in Hashes /\ pool[f[i]] \in Hashes
    BY <1>3, <2>1
  <2> DEFINE hi == pool[i]
             hj == pool[j]
             hp == pool[f[i]]
  <2>6. hi \in Hashes /\ hj \in Hashes /\ hp \in Hashes
        /\ Hamming(hi, hp) <= r /\ Hamming(hj, hp) <= r
    BY <2>4, <2>5
  <2>7. spread <= Hamming(hi, hj)
    BY <1>2, <2>3 DEF Apart
  <2> HIDE DEF hi, hj, hp
  <2>8. Hamming(hi, hj) <= Hamming(hi, hp) + Hamming(hp, hj)
    BY <2>6, Triangle
  <2>9. Hamming(hp, hj) = Hamming(hj, hp)
    BY <2>6, HammingIs
  <2>10. Hamming(hi, hj) \in Nat /\ Hamming(hi, hp) \in Nat /\ Hamming(hj, hp) \in Nat
    BY <2>6, HammingIs
  <2> QED BY <1>2, <2>6, <2>7, <2>8, <2>9, <2>10
<1> HIDE DEF Near
<1> QED BY <1>5, <1>6, <1>7 DEF spread

LEMMA DrawnSpreads ==
  ASSUME NEW n \in Nat, NEW pool \in [1 .. n -> Hashes], NEW reference \in SUBSET Hashes,
         NEW budget \in Nat \ {0}, NEW chosen, Drawn(pool, reference, n, budget, chosen),
         NEW choice \in SUBSET (1 .. n), IsFiniteSet(choice), Cardinality(choice) = budget
  PROVE  Spread(pool, choice, reference) <= 2 * Spread(pool, chosen, reference)
<1>1. PICK picks, r : /\ Spaced(pool, picks, reference, n, budget - 1) /\ r \in Nat
                      /\ Apart(pool, chosen, reference, r) /\ Within(pool, picks, reference, r)
  BY DEF Drawn
<1>2. chosen \in SUBSET (1 .. n) /\ chosen # {}
  BY FS_EmptySet DEF Drawn
<1>3. choice # {}
  BY FS_EmptySet
<1>4. picks \in SUBSET (1 .. n) /\ IsFiniteSet(picks) /\ Cardinality(picks) < Cardinality(choice)
  BY <1>1 DEF Spaced
<1>5. Spread(pool, choice, reference) <= 2 * r
  BY <1>1, <1>4, SpreadBounded
<1>6. Spread(pool, chosen, reference) \in Nat /\ r <= Spread(pool, chosen, reference)
  BY <1>1, <1>2, SpreadIs
<1>7. Spread(pool, choice, reference) \in Nat
  BY <1>3, SpreadIs
<1> QED BY <1>1, <1>5, <1>6, <1>7

LEMMA CaseSpread == Case => HalfAsSpreadAsAny
<1> SUFFICES ASSUME Case, Of("pick") PROVE HalfAsSpreadAsAny
  BY DEF HalfAsSpreadAsAny
<1> DEFINE hashes == sampling.hashes
           reference == sampling.reference
           budget == sampling.budget
           chosen == Diverse(hashes, reference, budget)
<1>1. sampling \in Picks
  BY DEF Case, Of, Cuts, Draws, Dedups
<1>2. /\ MaxHashes \in Nat /\ hashes \in [1 .. MaxHashes -> Hashes]
      /\ reference \in SUBSET Hashes /\ budget \in 1 .. MaxHashes - 1
  BY <1>1, SamplingAssumption DEF Picks, HashSeqs, Hashes
<1> HIDE DEF hashes, reference, budget
<1>3. DOMAIN hashes = 1 .. MaxHashes /\ budget \in Nat \ {0}
  BY <1>2
<1>4. Drawn(hashes, reference, MaxHashes, budget, chosen)
  BY <1>2, DiverseIs
<1> HIDE DEF chosen
<1>5. ASSUME NEW choice \in kSubset(budget, DOMAIN hashes)
      PROVE  Spread(hashes, choice, reference) <= 2 * Spread(hashes, chosen, reference)
  <2>1. choice \in SUBSET (1 .. MaxHashes) /\ Cardinality(choice) = budget
    BY <1>3 DEF kSubset
  <2>2. IsFiniteSet(choice)
    <3>1. IsFiniteSet(1 .. MaxHashes)
      <4>1. 1 \in Int /\ MaxHashes \in Int
        BY <1>2
      <4> QED BY <4>1, FS_Interval
    <3> QED BY <2>1, <3>1, FS_Subset
  <2> QED BY <1>2, <1>3, <1>4, <2>1, <2>2, DrawnSpreads
<1>6. Cardinality(chosen) = budget
  BY <1>4 DEF Drawn
<1> QED BY <1>5, <1>6, Zenon DEF HalfAsSpreadAsAny, hashes, reference, budget, chosen

\* selectDiverse: the draw has its budget of distinct frames, and no choice of
\* as many is more than twice as spread.
THEOREM DrawHalfAsSpread == SamplingSpec => []HalfAsSpreadAsAny
<1>1. SamplingInit => Case
  BY DEF SamplingInit, Case
<1>2. Case /\ [SamplingNext]_sampling => Case'
  BY DEF SamplingNext, Case
<1> QED  BY <1>1, <1>2, CaseSpread, PTL DEF SamplingSpec

-----------------------------------------------------------------------------
(* THE SCORE OF A RUN.                                                     *)

\* A sum is reached one term at a time.
LEMMA TotalIs ==
  ASSUME NEW n \in Nat, NEW terms \in [1 .. n -> Int]
  PROVE  \E sum \in [0 .. n -> Int] :
           /\ sum[0] = 0 /\ \A k \in 1 .. n : sum[k] = sum[k - 1] + terms[k]
           /\ Total(terms) = sum[n]
<1> DEFINE G == [p \in (1 .. n) \X Int |-> p[2] + terms[p[1]]]
           Sums(f) == f = [k \in 0 .. n |-> IF k = 0 THEN 0 ELSE f[k - 1] + terms[k]]
           sum == CHOOSE f : Sums(f)
<1>1. /\ G \in [(1 .. n) \X Int -> Int]
      /\ \A k \in 1 .. n : \A x \in Int : G[<<k, x>>] = x + terms[k]
  OBVIOUS
<1>2. PICK f \in [0 .. n -> Int] : Computes(f, 0, n, G)
  <2> HIDE DEF G
  <2>1. \A a \in Int : \E f \in [0 .. n -> Int] : Computes(f, a, n, G)
    BY <1>1, Recursion, Zenon
  <2> QED BY <2>1
<1>3. f[0] = 0 /\ \A k \in 1 .. n : f[k - 1] \in Int /\ f[k] = f[k - 1] + terms[k]
  <2> SUFFICES ASSUME NEW k \in 1 .. n PROVE f[k - 1] \in Int /\ f[k] = f[k - 1] + terms[k]
    BY <1>2 DEF Computes
  <2> HIDE DEF G
  <2>1. f[k - 1] \in Int /\ f[k] = G[<<k, f[k - 1]>>]
    BY <1>2 DEF Computes
  <2> QED BY <1>1, <2>1
<1>4. Sums(f)
  <2>1. f = [k \in 0 .. n |-> f[k]]
    OBVIOUS
  <2>2. \A k \in 0 .. n : f[k] = IF k = 0 THEN 0 ELSE f[k - 1] + terms[k]
    <3>1. \A k \in 0 .. n : k # 0 => k \in 1 .. n
      OBVIOUS
    <3> QED BY <1>3, <3>1
  <2> QED BY <2>1, <2>2, Zenon
<1>5. Sums(sum)
  <2> HIDE DEF Sums
  <2> QED BY <1>4, Zenon
<1>6. sum = f
  <2>1. sum = [k \in 0 .. n |-> sum[k]]
    <3> HIDE DEF sum
    <3> QED BY <1>5
  <2>2. \A k \in 0 .. n : sum[k] = IF k = 0 THEN 0 ELSE sum[k - 1] + terms[k]
    <3> HIDE DEF sum
    <3> QED BY <1>5
  <2>3. f = [k \in 0 .. n |-> f[k]]
    OBVIOUS
  <2> HIDE DEF sum, Sums
  <2>4. sum[0] = 0 /\ \A k \in 1 .. n : sum[k] = sum[k - 1] + terms[k]
    <3>1. 0 \in 0 .. n /\ \A k \in 1 .. n : k \in 0 .. n /\ k # 0
      OBVIOUS
    <3> QED BY <2>2, <3>1
  <2>5. Alike(sum, f, n)
    BY <1>3, <2>1, <2>3, <2>4 DEF Alike
  <2> QED BY <2>5, OneFunction
<1>7. Len(terms) = n
  <2>1. terms \in Seq(Int)
    BY SeqDef
  <2> QED BY <2>1, LenProperties
<1>8. Total(terms) = sum[n]
  BY <1>7, Zenon DEF Total
<1> HIDE DEF sum
<1> QED BY <1>3, <1>6, <1>8

\* Equal terms, equal sums; and a sum of naturals is at most that of larger ones.
LEMMA TotalsGrow ==
  ASSUME NEW n \in Nat, NEW low \in [1 .. n -> Int], NEW high \in [1 .. n -> Int],
         \A k \in 1 .. n : low[k] <= high[k]
  PROVE  Total(low) <= Total(high)
<1>1. PICK below \in [0 .. n -> Int] :
        /\ below[0] = 0 /\ \A k \in 1 .. n : below[k] = below[k - 1] + low[k]
        /\ Total(low) = below[n]
  BY TotalIs
<1>2. PICK above \in [0 .. n -> Int] :
        /\ above[0] = 0 /\ \A k \in 1 .. n : above[k] = above[k - 1] + high[k]
        /\ Total(high) = above[n]
  BY TotalIs
<1> DEFINE under == {k \in 0 .. n : below[k] <= above[k]}
<1>3. 0 \in under
  BY <1>1, <1>2
<1>4. ASSUME NEW k \in 1 .. n, k - 1 \in under PROVE k \in under
  <2>1. below[k] = below[k - 1] + low[k] /\ above[k] = above[k - 1] + high[k]
    BY <1>1, <1>2
  <2>2. below[k - 1] <= above[k - 1] /\ low[k] <= high[k]
    BY <1>4
  <2>3. below[k - 1] \in Int /\ above[k - 1] \in Int /\ low[k] \in Int /\ high[k] \in Int
    OBVIOUS
  <2> QED BY <2>1, <2>2, <2>3
<1>5. n \in under
  <2>1. n \in 0 .. n
    OBVIOUS
  <2> HIDE DEF under
  <2> QED BY <1>3, <1>4, <2>1, Climb
<1> QED BY <1>1, <1>2, <1>5

\* The best of some numbers and 0 is one of them.
Values(f, T) == {0} \cup {f[i] : i \in T}

LEMMA BestOf ==
  ASSUME NEW n \in Nat, NEW T \in SUBSET (1 .. n), NEW f, \A i \in T : f[i] \in Nat
  PROVE  /\ Values(f, T) \subseteq Nat /\ Max(Values(f, T)) \in Values(f, T)
         /\ \A x \in Values(f, T) : Max(Values(f, T)) >= x
<1> DEFINE V == Values(f, T)
<1>0. /\ 0 \in V /\ \A i \in T : f[i] \in V
      /\ \A x \in V : x = 0 \/ \E i \in T : x = f[i]
  BY Zenon DEF Values
<1> HIDE DEF V
<1>1. \E x \in V : \A y \in V : x >= y
  <2>1. CASE T = {}
    BY <1>0, <2>1
  <2>2. CASE T # {}
    <3>1. PICK j \in T : \A i \in T : f[i] <= f[j]
      BY <2>2, Highest
    <3>2. \A y \in V : f[j] >= y
      <4> SUFFICES ASSUME NEW y \in V PROVE f[j] >= y
        OBVIOUS
      <4>1. f[j] \in Nat
        OBVIOUS
      <4> QED BY <1>0, <3>1, <4>1
    <3> QED BY <1>0, <3>2
  <2> QED BY <2>1, <2>2
<1>2. V \subseteq Nat
  BY <1>0
<1>3. Max(V) \in V /\ \A x \in V : Max(V) >= x
  BY <1>1, Zenon DEF Max
<1> QED BY <1>2, <1>3 DEF V

\* A precision is a natural number of Parts.
LEMMA PrecisionIs ==
  ASSUME NEW a \in Nat, NEW i \in Nat \ {0}
  PROVE  (a * Parts) \div i \in Nat
<1>1. Parts \in Nat
  BY ScoringAssumption
<1>2. a * Parts \in Nat
  BY <1>1
<1>3. \A x \in Nat : x \div i \in Nat
  OBVIOUS
<1> QED BY <1>2, <1>3

\* The curve only climbs, one true positive at a time.
Climbs(cum, n) == \A k \in 1 .. n : cum[k] = cum[k - 1] \/ cum[k] = cum[k - 1] + 1

LEMMA Monotone ==
  ASSUME NEW n \in Nat, NEW cum \in [0 .. n -> Nat], Climbs(cum, n), NEW i \in 0 .. n
  PROVE  \A k \in 0 .. n : i <= k => cum[i] <= cum[k]
<1> DEFINE good == {k \in 0 .. n : i <= k => cum[i] <= cum[k]}
<1>1. 0 \in good
  OBVIOUS
<1>2. ASSUME NEW k \in 1 .. n, k - 1 \in good PROVE k \in good
  <2>1. cum[k] \in Nat /\ cum[k - 1] \in Nat /\ cum[i] \in Nat
    OBVIOUS
  <2>2. cum[k - 1] <= cum[k]
    BY <2>1 DEF Climbs
  <2>3. CASE i = k
    BY <2>1, <2>3
  <2>4. CASE i # k
    BY <1>2, <2>1, <2>2, <2>4
  <2> QED BY <2>3, <2>4
<1>3. \A k \in 0 .. n : k \in good
  <2> HIDE DEF good
  <2> QED BY <1>1, <1>2, Climb
<1> QED BY <1>3

\* The points at which m boxes are recalled: none if they never are, and
\* otherwise all from the one where the m-th is.
LEMMA Recalled ==
  ASSUME NEW n \in Nat, NEW cum \in [0 .. n -> Nat], Climbs(cum, n), NEW m \in Nat
  PROVE  /\ m > cum[n] => {i \in 1 .. n : cum[i] >= m} = {}
         /\ \A k \in 1 .. n : cum[k] = m /\ cum[k - 1] # m =>
              {i \in 1 .. n : cum[i] >= m} = k .. n
<1>1. \A i, k \in 0 .. n : i <= k => cum[i] <= cum[k]
  BY Monotone
<1>2. ASSUME m > cum[n] PROVE {i \in 1 .. n : cum[i] >= m} = {}
  <2>1. \A i \in 1 .. n : cum[i] <= cum[n] /\ cum[i] \in Nat /\ cum[n] \in Nat
    BY <1>1
  <2> QED BY <1>2, <2>1
<1>3. ASSUME NEW k \in 1 .. n, cum[k] = m, cum[k - 1] # m
      PROVE  {i \in 1 .. n : cum[i] >= m} = k .. n
  <2>1. cum[k - 1] < m
    BY <1>1, <1>3 DEF Climbs
  <2>2. \A i \in 1 .. n : i >= k => cum[i] >= m
    BY <1>1, <1>3
  <2>3. \A i \in 1 .. n : ~(i >= k) => ~(cum[i] >= m)
    <3> SUFFICES ASSUME NEW i \in 1 .. n, ~(i >= k) PROVE ~(cum[i] >= m)
      OBVIOUS
    <3>1. i <= k - 1 /\ k - 1 \in 0 .. n
      OBVIOUS
    <3>2. cum[i] <= cum[k - 1] /\ cum[i] \in Nat /\ cum[k - 1] \in Nat
      BY <1>1, <3>1
    <3> QED BY <2>1, <3>2
  <2> QED BY <2>2, <2>3
<1> QED BY <1>2, <1>3

LEMMA OneUp ==
  ASSUME NEW m \in Nat, NEW c \in 0 .. m, NEW d \in 0 .. m, d = c + 1
  PROVE  d \in 1 .. m /\ c + 1 \in 1 .. m /\ c + 1 - 1 = c
OBVIOUS

\* Two sums agree if a step of the curve adds to one what its number adds to
\* the other.
Counts(cum, n, m) ==
  cum \in [0 .. n -> Nat] /\ Climbs(cum, n) /\ cum[0] = 0 /\ cum[n] <= m

Telescopes(cum, n, m, terms, bests) ==
  /\ terms \in [1 .. n + 1 -> Int] /\ bests \in [1 .. m -> Int]
  /\ \A k \in 1 .. n : cum[k] = cum[k - 1] => terms[k] = 0
  /\ \A k \in 1 .. n : cum[k] = cum[k - 1] + 1 => terms[k] = bests[cum[k]]
  /\ terms[n + 1] = 0 /\ \A j \in 1 .. m : j > cum[n] => bests[j] = 0

LEMMA Telescoped ==
  ASSUME NEW n \in Nat, NEW m \in Nat, NEW cum, Counts(cum, n, m),
         NEW terms, NEW bests, Telescopes(cum, n, m, terms, bests)
  PROVE  Total(terms) = Total(bests)
<1>0. /\ cum \in [0 .. n -> Nat] /\ Climbs(cum, n) /\ cum[0] = 0 /\ cum[n] <= m
      /\ terms \in [1 .. n + 1 -> Int] /\ bests \in [1 .. m -> Int]
  BY DEF Counts, Telescopes
<1> USE <1>0
<1>1. PICK sum \in [0 .. m -> Int] :
        /\ sum[0] = 0 /\ \A k \in 1 .. m : sum[k] = sum[k - 1] + bests[k]
        /\ Total(bests) = sum[m]
  BY TotalIs
<1>2. PICK area \in [0 .. n + 1 -> Int] :
        /\ area[0] = 0 /\ \A k \in 1 .. n + 1 : area[k] = area[k - 1] + terms[k]
        /\ Total(terms) = area[n + 1]
  <2>1. n + 1 \in Nat
    OBVIOUS
  <2> QED BY <2>1, TotalIs
<1>3. \A k \in 0 .. n : cum[k] \in 0 .. m
  <2>1. \A i, k \in 0 .. n : i <= k => cum[i] <= cum[k]
    BY Monotone
  <2>2. \A k \in 0 .. n : cum[k] <= cum[n] /\ cum[k] \in Nat /\ cum[n] \in Nat
    BY <2>1
  <2> QED BY <2>2
<1> DEFINE met == {k \in 0 .. n : area[k] = sum[cum[k]]}
           flat == {j \in 0 .. m : j >= cum[n] => sum[j] = sum[cum[n]]}
<1>4. ASSUME NEW k \in 1 .. n, k - 1 \in met PROVE k \in met
  <2>1. k - 1 \in 0 .. n /\ k \in 0 .. n /\ k \in 1 .. n + 1
    OBVIOUS
  <2>2. area[k] = area[k - 1] + terms[k] /\ area[k - 1] = sum[cum[k - 1]]
    BY <1>2, <1>4, <2>1
  <2>3. cum[k] \in 0 .. m /\ cum[k - 1] \in 0 .. m /\ area[k - 1] \in Int
    <3>1. cum[k] \in 0 .. m /\ cum[k - 1] \in 0 .. m
      BY <1>3, <2>1, Zenon
    <3>2. k - 1 \in 0 .. n + 1
      OBVIOUS
    <3>3. area[k - 1] \in Int
      BY <3>2, Zenon
    <3> QED BY <3>1, <3>3
  <2>4. CASE cum[k] = cum[k - 1]
    <3>1. terms[k] = 0
      BY <2>4 DEF Telescopes
    <3>2. area[k] = sum[cum[k]]
      BY <2>2, <2>3, <2>4, <3>1
    <3> QED BY <2>1, <3>2
  <2>5. CASE cum[k] = cum[k - 1] + 1
    <3>1. PICK c \in 0 .. m : c = cum[k - 1]
      BY <2>3
    <3>2. c + 1 \in 1 .. m /\ c + 1 - 1 = c /\ cum[k] = c + 1
      BY <2>3, <2>5, <3>1, OneUp
    <3>3. sum[c + 1] = sum[c] + bests[c + 1]
      BY <1>1, <3>2
    <3>4. terms[k] = bests[c + 1]
      BY <2>5, <3>2 DEF Telescopes
    <3>5. area[k] = sum[cum[k]]
      BY <2>2, <3>1, <3>2, <3>3, <3>4
    <3> QED BY <2>1, <3>5
  <2> QED BY <2>4, <2>5 DEF Climbs
<1>5. area[n] = sum[cum[n]]
  <2>1. n \in 0 .. n /\ 0 \in met
    BY <1>1, <1>2
  <2>2. n \in met
    <3> HIDE DEF met
    <3> QED BY <1>4, <2>1, Climb
  <2> QED BY <2>2
<1>6. ASSUME NEW j \in 1 .. m, j - 1 \in flat PROVE j \in flat
  <2>1. cum[n] \in 0 .. m /\ j \in 0 .. m
    BY <1>3
  <2>2. CASE j > cum[n]
    <3>1. sum[j] = sum[j - 1] + 0 /\ sum[j - 1] \in Int
      BY <1>1, <2>2 DEF Telescopes
    <3>2. sum[j - 1] = sum[cum[n]]
      BY <1>6, <2>1, <2>2
    <3> QED BY <2>1, <3>1, <3>2
  <2>3. CASE ~(j > cum[n])
    BY <2>1, <2>3
  <2> QED BY <2>2, <2>3
<1>7. sum[m] = sum[cum[n]]
  <2>1. m \in 0 .. m /\ 0 \in flat /\ cum[n] \in 0 .. m
    BY <1>3
  <2>2. m \in flat
    <3> HIDE DEF flat
    <3> QED BY <1>6, <2>1, Climb
  <2> QED BY <2>1, <2>2
<1>8. area[n + 1] = area[n]
  <2>1. area[n + 1] = area[n + 1 - 1] + terms[n + 1] /\ area[n] \in Int /\ n + 1 - 1 = n
    BY <1>2
  <2>2. terms[n + 1] = 0
    BY DEF Telescopes
  <2> QED BY <2>1, <2>2
<1> QED BY <1>1, <1>2, <1>5, <1>7, <1>8

Follows(tp, cum, n) == \A k \in 1 .. n : tp[k] = cum[k]

\* The area under a curve that climbs: what one more box recalled adds is the
\* best precision at which that many are.
LEMMA AreaIs ==
  ASSUME NEW n \in Nat, NEW m \in Nat, NEW cum, Counts(cum, n, m),
         NEW found, Len(found) = m, NEW tp \in [1 .. n -> Nat], Follows(tp, cum, n)
  PROVE  /\ [j \in 1 .. m |-> Best(tp, j)] \in [1 .. m -> Nat]
         /\ Area(tp, found) = Total([j \in 1 .. m |-> Best(tp, j)])
<1>0. cum \in [0 .. n -> Nat] /\ Climbs(cum, n) /\ cum[0] = 0 /\ cum[n] <= m
  BY DEF Counts
<1> USE <1>0
<1> DEFINE at(i) == (tp[i] * Parts) \div i
           curve == [i \in 1 .. n |-> at(i)]
           From(T) == Values(curve, T)
           last == Len(tp) + 1
           recall == [i \in 0 .. last |-> IF i = 0 THEN 0 ELSE IF i = last THEN Len(found) ELSE tp[i]]
           precision == [i \in 0 .. last |-> IF i \in {0, last} THEN 0 ELSE (tp[i] * Parts) \div i]
           best == Envelope(precision)
           terms == [i \in 1 .. last |-> (recall[i] - recall[i - 1]) * best[i]]
           bests == [j \in 1 .. m |-> Best(tp, j)]
<1>1. Area(tp, found) = IF Len(found) = 0 THEN 0 ELSE Total(terms)
  BY Zenon DEF Area
<1>2. last = n + 1 /\ DOMAIN tp = 1 .. n
  <2>1. tp \in Seq(Nat) /\ Len(tp) = n
    <3>1. tp \in Seq(Nat)
      BY SeqDef
    <3> QED BY <3>1, LenProperties
  <2> QED BY <2>1
<1>3. \A i \in 1 .. n : tp[i] = cum[i] /\ curve[i] \in Nat /\ curve[i] = at(i)
  <2> SUFFICES ASSUME NEW i \in 1 .. n PROVE tp[i] = cum[i] /\ curve[i] \in Nat /\ curve[i] = at(i)
    OBVIOUS
  <2>1. tp[i] = cum[i] /\ cum[i] \in Nat /\ i \in Nat \ {0}
    BY DEF Follows
  <2>2. at(i) \in Nat
    BY <2>1, PrecisionIs
  <2>3. curve[i] = at(i)
    OBVIOUS
  <2> HIDE DEF curve, at
  <2> QED BY <2>1, <2>2, <2>3
<1>4. \A T \in SUBSET (1 .. n) :
        /\ Max(From(T)) \in Nat /\ Max(From(T)) \in From(T)
        /\ From(T) = {0} \cup {at(i) : i \in T}
  <2> SUFFICES ASSUME NEW T \in SUBSET (1 .. n)
               PROVE  /\ Max(From(T)) \in Nat /\ Max(From(T)) \in From(T)
                      /\ From(T) = {0} \cup {at(i) : i \in T}
    OBVIOUS
  <2>1. \A i \in T : curve[i] \in Nat /\ curve[i] = at(i)
    BY <1>3
  <2> HIDE DEF curve, at
  <2>2. Max(From(T)) \in Nat /\ Max(From(T)) \in From(T)
    BY <2>1, BestOf
  <2>3. From(T) = {0} \cup {at(i) : i \in T}
    BY <2>1 DEF Values
  <2> QED BY <2>2, <2>3
<1>5. \A j \in 1 .. m : Best(tp, j) = Max(From({i \in 1 .. n : cum[i] >= j}))
  <2> SUFFICES ASSUME NEW j \in 1 .. m
               PROVE  Best(tp, j) = Max(From({i \in 1 .. n : cum[i] >= j}))
    OBVIOUS
  <2> DEFINE T == {i \in 1 .. n : cum[i] >= j}
  <2>1. {i \in DOMAIN tp : tp[i] >= j} = T
    BY <1>2, <1>3
  <2>2. Best(tp, j) = Max({0} \cup {at(i) : i \in T})
    BY <2>1, Zenon DEF Best
  <2>3. T \in SUBSET (1 .. n)
    OBVIOUS
  <2>4. Best(tp, j) = Max(From(T))
    <3> HIDE DEF T, From, at
    <3>1. From(T) = {0} \cup {at(i) : i \in T}
      BY <1>4, <2>3
    <3> QED BY <2>2, <3>1, Zenon
  <2> QED BY <2>4
<1>6. bests \in [1 .. m -> Nat]
  <2>1. \A j \in 1 .. m : Best(tp, j) \in Nat
    <3> HIDE DEF From
    <3> QED BY <1>4, <1>5
  <2> QED BY <2>1
<1>7. /\ \A k \in 1 .. n : best[k] = Max(From(k .. n))
      /\ best[n + 1] = 0
  <2>1. DOMAIN precision = 0 .. n + 1
    BY <1>2
  <2>2. precision[n + 1] = 0 /\ \A i \in 1 .. n : precision[i] = at(i)
    BY <1>2
  <2>3. ASSUME NEW k \in 1 .. n PROVE best[k] = Max(From(k .. n))
    <3>1. {precision[j] : j \in {j \in DOMAIN precision : k <= j}} = {0} \cup {at(i) : i \in k .. n}
      <4>1. {j \in DOMAIN precision : k <= j} = (k .. n) \cup {n + 1}
        BY <2>1
      <4>2. \A i \in k .. n : precision[i] = at(i)
        BY <2>2
      <4> HIDE DEF precision, at
      <4>3. ASSUME NEW x \in {precision[j] : j \in {j \in DOMAIN precision : k <= j}}
            PROVE  x \in {0} \cup {at(i) : i \in k .. n}
        BY <2>2, <4>1, <4>2
      <4>4. ASSUME NEW x \in {0} \cup {at(i) : i \in k .. n}
            PROVE  x \in {precision[j] : j \in {j \in DOMAIN precision : k <= j}}
        BY <2>2, <4>1, <4>2
      <4> QED BY <4>3, <4>4
    <3>2. k .. n \in SUBSET (1 .. n)
      OBVIOUS
    <3>3. k \in DOMAIN precision
      BY <2>1
    <3>4. best[k] = Max({precision[j] : j \in {j \in DOMAIN precision : k <= j}})
      <4> HIDE DEF precision
      <4> QED BY <3>3 DEF Envelope
    <3> HIDE DEF From, at, precision
    <3> QED BY <1>4, <3>1, <3>2, <3>4
  <2>4. best[n + 1] = 0
    <3>1. {j \in DOMAIN precision : n + 1 <= j} = {n + 1} /\ n + 1 \in DOMAIN precision
      BY <2>1
    <3>2. best[n + 1] = Max({precision[j] : j \in {j \in DOMAIN precision : n + 1 <= j}})
      <4> HIDE DEF precision
      <4> QED BY <3>1 DEF Envelope
    <3>3. {precision[j] : j \in {j \in DOMAIN precision : n + 1 <= j}} = {0}
      <4> HIDE DEF precision
      <4> QED BY <2>2, <3>1
    <3>4. From({}) = {0} /\ {} \in SUBSET (1 .. n)
      BY DEF Values
    <3>5. Max({0}) = 0
      <4> HIDE DEF From
      <4>1. Max(From({})) \in From({})
        BY <1>4, <3>4
      <4>2. Max({0}) \in {0}
        BY <3>4, <4>1, Zenon
      <4> QED BY <4>2
    <3> QED BY <3>2, <3>3, <3>5, Zenon
  <2> HIDE DEF From, best
  <2> QED BY <2>3, <2>4
<1>8. \A k \in 1 .. n : best[k] \in Nat
  <2>1. \A k \in 1 .. n : k .. n \in SUBSET (1 .. n)
    OBVIOUS
  <2>2. \A k \in 1 .. n : Max(From(k .. n)) \in Nat
    <3> HIDE DEF From
    <3> QED BY <1>4, <2>1
  <2> HIDE DEF From, best
  <2> QED BY <1>7, <2>2
<1>9. /\ terms \in [1 .. n + 1 -> Int]
      /\ \A k \in 1 .. n : terms[k] = (cum[k] - cum[k - 1]) * best[k]
      /\ m # 0 => terms[n + 1] = 0
  <2>1. /\ DOMAIN recall = 0 .. n + 1 /\ recall[n + 1] = m
        /\ \A k \in 0 .. n : recall[k] = cum[k]
    BY <1>2, <1>3
  <2>2. \A k \in 1 .. n + 1 : best[k] \in Nat
    <3>1. \A k \in 1 .. n + 1 : k \in 1 .. n \/ k = n + 1
      OBVIOUS
    <3> HIDE DEF From, best
    <3> QED BY <1>7, <1>8, <3>1
  <2>3. \A k \in 1 .. n + 1 : recall[k] \in Nat /\ recall[k - 1] \in Nat
    <3>1. \A k \in 0 .. n + 1 : k \in 0 .. n \/ k = n + 1
      OBVIOUS
    <3>2. \A k \in 0 .. n + 1 : recall[k] \in Nat
      <4> HIDE DEF recall
      <4> QED BY <2>1, <3>1
    <3> HIDE DEF recall
    <3> QED BY <3>2
  <2>4. \A k \in 1 .. n + 1 : (recall[k] - recall[k - 1]) * best[k] \in Int
    <3> HIDE DEF recall, best
    <3> QED BY <2>2, <2>3
  <2>5. terms = [k \in 1 .. n + 1 |-> (recall[k] - recall[k - 1]) * best[k]]
    BY <1>2
  <2> HIDE DEF recall, best, terms
  <2>6. terms \in [1 .. n + 1 -> Int]
    BY <2>4, <2>5
  <2>7. ASSUME NEW k \in 1 .. n PROVE terms[k] = (cum[k] - cum[k - 1]) * best[k]
    <3>1. k \in 1 .. n + 1 /\ k \in 0 .. n /\ k - 1 \in 0 .. n
      OBVIOUS
    <3>2. recall[k] = cum[k] /\ recall[k - 1] = cum[k - 1]
      BY <2>1, <3>1
    <3>3. terms[k] = (recall[k] - recall[k - 1]) * best[k]
      BY <2>5, <3>1
    <3> QED BY <3>2, <3>3
  <2>8. terms[n + 1] = 0
    <3>1. terms[n + 1] = (recall[n + 1] - recall[n]) * best[n + 1]
      BY <2>5
    <3>2. recall[n + 1] - recall[n] \in Int /\ best[n + 1] = 0
      BY <1>7, <2>1
    <3>3. \A x \in Int : x * 0 = 0
      OBVIOUS
    <3> QED BY <3>1, <3>2, <3>3
  <2> QED BY <2>6, <2>7, <2>8
<1>10. \A k \in 1 .. n : cum[k] = cum[k - 1] => terms[k] = 0
  <2> SUFFICES ASSUME NEW k \in 1 .. n, cum[k] = cum[k - 1] PROVE terms[k] = 0
    OBVIOUS
  <2> HIDE DEF terms, best, From
  <2>1. terms[k] = (cum[k] - cum[k - 1]) * best[k]
    BY <1>9
  <2>2. best[k] \in Int /\ cum[k] - cum[k - 1] = 0
    BY <1>8
  <2>3. \A x \in Int : 0 * x = 0
    OBVIOUS
  <2> QED BY <2>1, <2>2, <2>3
<1>11. \A k \in 1 .. n : cum[k] = cum[k - 1] + 1 => terms[k] = bests[cum[k]]
  <2> SUFFICES ASSUME NEW k \in 1 .. n, cum[k] = cum[k - 1] + 1
               PROVE  terms[k] = bests[cum[k]]
    OBVIOUS
  <2> HIDE DEF terms, best, From
  <2>1. cum[k - 1] \in Nat /\ cum[k] \in Nat /\ cum[k] \in 1 .. m
    <3>1. \A i, j \in 0 .. n : i <= j => cum[i] <= cum[j]
      BY Monotone
    <3>2. k \in 0 .. n /\ k - 1 \in 0 .. n /\ n \in 0 .. n /\ k <= n
      OBVIOUS
    <3>3. cum[k] <= cum[n]
      BY <3>1, <3>2, Zenon
    <3>4. cum[k] \in Nat /\ cum[k - 1] \in Nat /\ cum[n] \in Nat
      BY <3>2, Zenon
    <3>5. \A x, y, z \in Nat : x <= y /\ y <= m /\ x = z + 1 => x \in 1 .. m
      OBVIOUS
    <3> QED BY <3>3, <3>4, <3>5
  <2>2. terms[k] = best[k]
    <3>1. terms[k] = (cum[k] - cum[k - 1]) * best[k]
      BY <1>9
    <3>2. best[k] \in Int /\ cum[k] - cum[k - 1] = 1
      BY <1>8, <2>1
    <3>3. \A x \in Int : 1 * x = x
      OBVIOUS
    <3> QED BY <3>1, <3>2, <3>3
  <2>3. {i \in 1 .. n : cum[i] >= cum[k]} = k .. n
    <3>1. cum[k - 1] # cum[k]
      BY <2>1
    <3> QED BY <2>1, <3>1, Recalled
  <2>4. bests[cum[k]] = Best(tp, cum[k])
    BY <2>1
  <2>5. Best(tp, cum[k]) = Max(From(k .. n))
    BY <1>5, <2>1, <2>3, Zenon
  <2> HIDE DEF bests
  <2> QED BY <1>7, <2>2, <2>4, <2>5
<1>12. \A j \in 1 .. m : j > cum[n] => bests[j] = 0
  <2> SUFFICES ASSUME NEW j \in 1 .. m, j > cum[n] PROVE bests[j] = 0
    OBVIOUS
  <2>1. {i \in 1 .. n : cum[i] >= j} = {}
    <3>1. j \in Nat
      OBVIOUS
    <3> QED BY <3>1, Recalled, Zenon
  <2>2. bests[j] = Best(tp, j)
    OBVIOUS
  <2>3. Best(tp, j) = Max(From({}))
    <3> HIDE DEF From
    <3> QED BY <1>5, <2>1, Zenon
  <2>4. Max(From({})) \in From({}) /\ From({}) = {0}
    <3>1. From({}) = {0}
      BY DEF Values
    <3> HIDE DEF From
    <3> QED BY <1>4, <3>1
  <2> HIDE DEF bests, From
  <2> QED BY <2>2, <2>3, <2>4
<1>13. m # 0 => Total(terms) = Total(bests)
  <2> HIDE DEF terms, bests, From, best
  <2>1. bests \in [1 .. m -> Int]
    BY <1>6
  <2> SUFFICES ASSUME m # 0 PROVE Total(terms) = Total(bests)
    OBVIOUS
  <2>2. Telescopes(cum, n, m, terms, bests)
    BY <1>9, <1>10, <1>11, <1>12, <2>1, Zenon DEF Telescopes
  <2> QED BY <2>2, Telescoped
<1>14. m = 0 => Total(bests) = 0
  <2> HIDE DEF bests
  <2>1. bests \in [1 .. m -> Int]
    BY <1>6
  <2>2. PICK sum \in [0 .. m -> Int] :
          /\ sum[0] = 0 /\ \A k \in 1 .. m : sum[k] = sum[k - 1] + bests[k]
          /\ Total(bests) = sum[m]
    BY <2>1, TotalIs
  <2> QED BY <2>2
<1>15. Area(tp, found) = Total(bests)
  <2> HIDE DEF terms, bests
  <2> QED BY <1>1, <1>13, <1>14
<1> QED BY <1>6, <1>15

-----------------------------------------------------------------------------
(* The ranking and the matching.                                           *)

\* A list of detections has its stable ranking.
LEMMA RankedIs ==
  ASSUME NEW n \in Nat, NEW ds, DOMAIN ds = 1 .. n,
         \A d \in 1 .. n : ds[d].confidence \in Nat
  PROVE  /\ Ranked(ds) \in [1 .. n -> 1 .. n]
         /\ \A i, j \in 1 .. n : i < j => RankedBefore(ds, Ranked(ds)[i], Ranked(ds)[j])
<1> DEFINE S == 1 .. n
           R == {p \in S \X S : RankedBefore(ds, p[1], p[2])}
           Sorts(r) == \A i, j \in S : i < j => RankedBefore(ds, r[i], r[j])
<1>1. IsFiniteSet(S) /\ Cardinality(S) = n
  <2>1. 1 \in Int /\ n \in Int
    OBVIOUS
  <2> QED BY <2>1, FS_Interval
<1>2. \A x, y \in S : <<x, y>> \in R <=> RankedBefore(ds, x, y)
  OBVIOUS
<1>3. \A x \in S : ~RankedBefore(ds, x, x)
  BY DEF RankedBefore
<1>4. \A x, y, z \in S :
        RankedBefore(ds, x, y) /\ RankedBefore(ds, y, z) => RankedBefore(ds, x, z)
  BY DEF RankedBefore
<1>5. \A x, y \in S : x = y \/ RankedBefore(ds, x, y) \/ RankedBefore(ds, y, x)
  BY DEF RankedBefore
<1>6. PICK r \in [S -> S] : \A i, j \in S : i < j => <<r[i], r[j]>> \in R
  <2> HIDE DEF R
  <2>1. /\ \A x \in S : <<x, x>> \notin R
        /\ \A x, y, z \in S : <<x, y>> \in R /\ <<y, z>> \in R => <<x, z>> \in R
        /\ \A x, y \in S : x = y \/ <<x, y>> \in R \/ <<y, x>> \in R
    <3> HIDE DEF S
    <3> QED BY <1>2, <1>3, <1>4, <1>5, Zenon
  <2>2. \E r \in [1 .. Cardinality(S) -> S] :
           \A i, j \in 1 .. Cardinality(S) : i < j => <<r[i], r[j]>> \in R
    <3> HIDE DEF S
    <3> QED BY <1>1, <2>1, Arranged, Zenon
  <2> QED BY <1>1, <2>2, Zenon
<1>7. Sorts(r)
  <2> SUFFICES ASSUME NEW i \in S, NEW j \in S, i < j PROVE RankedBefore(ds, r[i], r[j])
    OBVIOUS
  <2>1. r[i] \in S /\ r[j] \in S /\ <<r[i], r[j]>> \in R
    BY <1>6, Zenon
  <2> HIDE DEF R, S
  <2> QED BY <1>2, <2>1
<1>8. Ranked(ds) = CHOOSE ranking \in [S -> S] : Sorts(ranking)
  BY Zenon DEF Ranked
<1>9. Ranked(ds) \in [S -> S] /\ Sorts(Ranked(ds))
  <2> HIDE DEF Sorts, S
  <2> QED BY <1>7, <1>8, Zenon
<1> QED BY <1>9

\* One of the boxes open to a detection is claimed.
BestBoxes(detection, free) ==
  {g \in free : \A h \in free : detection.iou[h] <= detection.iou[g]}

LEMMA ClaimIs ==
  ASSUME NEW m \in Nat, NEW detection, \A g \in 1 .. m : detection.iou[g] \in Nat,
         NEW free \in SUBSET (1 .. m), free # {}
  PROVE  \E g \in BestBoxes(detection, free) :
           /\ Claim(detection, free) = {g} /\ \A h \in BestBoxes(detection, free) : g <= h
<1> DEFINE iou == detection.iou
           tops == BestBoxes(detection, free)
<1>1. PICK g \in free : \A h \in free : iou[h] <= iou[g]
  <2>1. \A h \in free : iou[h] \in Nat
    OBVIOUS
  <2> HIDE DEF iou
  <2> QED BY <2>1, Highest
<1>2. g \in tops /\ tops \in SUBSET Nat
  <2>1. g \in tops
    BY <1>1, Zenon DEF BestBoxes
  <2>2. tops \subseteq free
    BY DEF BestBoxes
  <2>3. free \subseteq Nat
    OBVIOUS
  <2> HIDE DEF tops
  <2> QED BY <2>1, <2>2, <2>3
<1>3. Claim(detection, free) = {Min(tops)}
  BY Zenon DEF Claim, BestBoxes
<1> HIDE DEF tops
<1>4. Min(tops) \in tops /\ \A h \in tops : Min(tops) <= h
  BY <1>2, FirstIs
<1> QED BY <1>3, <1>4, Zenon DEF tops

\* What is claimed of m boxes, and how many times one was.
Progress(m) == [claimed : SUBSET (1 .. m), tp : Nat]

Claims(detection, free, before, next, m) ==
  \/ free = {} /\ next = before
  \/ \E g \in BestBoxes(detection, free) :
       /\ g \in (1 .. m) \ before.claimed
       /\ \A h \in BestBoxes(detection, free) : g <= h
       /\ next = [claimed |-> before.claimed \cup {g}, tp |-> before.tp + 1]

LEMMA MatchedNextIs ==
  ASSUME NEW m \in Nat, NEW detection \in Detections(m), NEW found \in [1 .. m -> Images],
         NEW before \in Progress(m), NEW threshold
  PROVE  Claims(detection, OpenTo(detection, found, before.claimed, threshold), before,
                MatchedNext(detection, found, before, threshold), m)
<1> DEFINE next == MatchedNext(detection, found, before, threshold)
           free == OpenTo(detection, found, before.claimed, threshold)
<1>1. free \in SUBSET ((1 .. m) \ before.claimed)
  BY DEF OpenTo
<1>2. \A g \in 1 .. m : detection.iou[g] \in Nat
  <2>1. detection.iou \in [1 .. m -> Tenths]
    BY DEF Detections
  <2> QED BY <2>1, ScoringAssumption
<1>3. next = IF free = {} THEN before
             ELSE [claimed |-> before.claimed \cup Claim(detection, free), tp |-> before.tp + 1]
  BY Zenon DEF MatchedNext
<1> HIDE DEF next, free
<1>4. CASE free = {}
  BY <1>3, <1>4 DEF next, free, Claims
<1>5. CASE free # {}
  <2>1. PICK g \in BestBoxes(detection, free) :
          /\ Claim(detection, free) = {g} /\ \A h \in BestBoxes(detection, free) : g <= h
    BY <1>1, <1>2, <1>5, ClaimIs
  <2>2. next = [claimed |-> before.claimed \cup {g}, tp |-> before.tp + 1]
    BY <1>3, <1>5, <2>1, Zenon
  <2>3. g \in (1 .. m) \ before.claimed
    BY <1>1 DEF BestBoxes
  <2> QED BY <2>1, <2>2, <2>3, Zenon DEF next, free, Claims
<1> QED BY <1>4, <1>5

LEMMA ProgressKept ==
  ASSUME NEW m \in Nat, NEW detection \in Detections(m), NEW found \in [1 .. m -> Images],
         NEW before \in Progress(m), NEW threshold
  PROVE  MatchedNext(detection, found, before, threshold) \in Progress(m)
<1> DEFINE next == MatchedNext(detection, found, before, threshold)
<1>1. before.claimed \in SUBSET (1 .. m) /\ before.tp \in Nat /\ before.tp + 1 \in Nat
  BY DEF Progress
<1>2. CASE next = before
  BY <1>2
<1>3. ASSUME NEW g \in 1 .. m,
             next = [claimed |-> before.claimed \cup {g}, tp |-> before.tp + 1]
      PROVE  next \in Progress(m)
  <2> HIDE DEF next
  <2>1. before.claimed \cup {g} \in SUBSET (1 .. m)
    BY <1>1
  <2> QED BY <1>1, <1>3, <2>1 DEF Progress
<1>4. next = before \/ \E g \in 1 .. m :
        next = [claimed |-> before.claimed \cup {g}, tp |-> before.tp + 1]
  <2>1. Claims(detection, OpenTo(detection, found, before.claimed, threshold), before, next, m)
    BY MatchedNextIs
  <2> HIDE DEF next
  <2> QED BY <2>1, Zenon DEF Claims
<1> HIDE DEF next
<1> QED BY <1>2, <1>3, <1>4 DEF next

\* The matching is reached one detection at a time, the best ranked first.
Matches(step, ds, found, threshold, n) ==
  /\ step[0] = [claimed |-> {}, tp |-> 0]
  /\ \A k \in 1 .. n :
       step[k] = MatchedNext(ds[Ranked(ds)[k]], found, step[k - 1], threshold)

LEMMA MatchedIs ==
  ASSUME NEW n \in Nat, NEW m \in Nat, NEW ds \in [1 .. n -> Detections(m)],
         NEW found \in [1 .. m -> Images], NEW threshold
  PROVE  /\ Matched(ds, found, threshold) \in [0 .. n -> Progress(m)]
         /\ Matches(Matched(ds, found, threshold), ds, found, threshold, n)
         /\ \A k \in 1 .. n : ds[Ranked(ds)[k]] \in Detections(m)
         /\ Len(ds) = n
<1> DEFINE none == [claimed |-> {}, tp |-> 0]
           det(k) == ds[Ranked(ds)[k]]
           G == [p \in (1 .. n) \X Progress(m) |-> MatchedNext(det(p[1]), found, p[2], threshold)]
           Steps(f) == f = [k \in 0 .. n |->
                              IF k = 0 THEN none ELSE MatchedNext(det(k), found, f[k - 1], threshold)]
           step == CHOOSE f : Steps(f)
<1>1. \A k \in 1 .. n : det(k) \in Detections(m)
  <2>1. \A d \in 1 .. n : ds[d].confidence \in Nat
    BY ScoringAssumption DEF Detections
  <2>2. Ranked(ds) \in [1 .. n -> 1 .. n]
    BY <2>1, RankedIs
  <2>3. \A k \in 1 .. n : Ranked(ds)[k] \in 1 .. n
    BY <2>2
  <2> QED BY <2>3
<1>2. none \in Progress(m)
  BY DEF Progress
<1> HIDE DEF det
<1>3. /\ G \in [(1 .. n) \X Progress(m) -> Progress(m)]
      /\ \A k \in 1 .. n : \A b \in Progress(m) :
           /\ G[<<k, b>>] = MatchedNext(det(k), found, b, threshold)
           /\ MatchedNext(det(k), found, b, threshold) \in Progress(m)
  <2>1. \A k \in 1 .. n : \A b \in Progress(m) :
          MatchedNext(det(k), found, b, threshold) \in Progress(m)
    BY <1>1, ProgressKept
  <2>2. \A p \in (1 .. n) \X Progress(m) : p[1] \in 1 .. n /\ p[2] \in Progress(m)
    OBVIOUS
  <2> QED BY <2>1, <2>2
<1>4. PICK f \in [0 .. n -> Progress(m)] : Computes(f, none, n, G)
  <2> HIDE DEF G, none
  <2> QED BY <1>2, <1>3, Recursion
<1>5. /\ f[0] = none
      /\ \A k \in 1 .. n : f[k] = MatchedNext(det(k), found, f[k - 1], threshold)
  <2> SUFFICES ASSUME NEW k \in 1 .. n
               PROVE  f[k] = MatchedNext(det(k), found, f[k - 1], threshold)
    BY <1>4 DEF Computes
  <2> HIDE DEF G, none
  <2>1. f[k - 1] \in Progress(m) /\ f[k] = G[<<k, f[k - 1]>>]
    BY <1>4 DEF Computes
  <2> QED BY <1>3, <2>1
<1>6. Steps(f)
  <2>1. f = [k \in 0 .. n |-> f[k]]
    OBVIOUS
  <2>2. \A k \in 0 .. n :
          f[k] = IF k = 0 THEN none ELSE MatchedNext(det(k), found, f[k - 1], threshold)
    <3>1. \A k \in 0 .. n : k # 0 => k \in 1 .. n
      OBVIOUS
    <3> HIDE DEF none
    <3> QED BY <1>5, <3>1
  <2> QED BY <2>1, <2>2, Zenon
<1>7. Steps(step)
  <2> HIDE DEF Steps
  <2> QED BY <1>6, Zenon
<1>8. step = f
  <2>1. step = [k \in 0 .. n |-> step[k]]
    <3> HIDE DEF step
    <3> QED BY <1>7
  <2>2. \A k \in 0 .. n :
          step[k] = IF k = 0 THEN none ELSE MatchedNext(det(k), found, step[k - 1], threshold)
    <3> HIDE DEF step, none
    <3> QED BY <1>7
  <2>3. f = [k \in 0 .. n |-> f[k]]
    OBVIOUS
  <2> HIDE DEF step, none, Steps
  <2>4. /\ step[0] = none
        /\ \A k \in 1 .. n : step[k] = MatchedNext(det(k), found, step[k - 1], threshold)
    <3>1. 0 \in 0 .. n /\ \A k \in 1 .. n : k \in 0 .. n /\ k # 0
      OBVIOUS
    <3> QED BY <2>2, <3>1
  <2>5. Alike(step, f, n)
    BY <1>5, <2>1, <2>3, <2>4 DEF Alike
  <2> QED BY <2>5, OneFunction
<1>9. Len(ds) = n
  <2>1. ds \in Seq(Detections(m))
    BY SeqDef
  <2> QED BY <2>1, LenProperties
<1>10. Matched(ds, found, threshold) = step
  BY <1>9, Zenon DEF Matched, det
<1> HIDE DEF step
<1>11. Matches(f, ds, found, threshold, n)
  BY <1>5, Zenon DEF Matches, det
<1>12. \A k \in 1 .. n : ds[Ranked(ds)[k]] \in Detections(m)
  BY <1>1 DEF det
<1> QED BY <1>8, <1>9, <1>10, <1>11, <1>12

\* Every true positive has a box of its own.
LEMMA ExactNext ==
  ASSUME NEW m \in Nat, NEW detection \in Detections(m), NEW found \in [1 .. m -> Images],
         NEW before \in Progress(m), NEW threshold,
         before.tp = Cardinality(before.claimed), NEW next,
         next = MatchedNext(detection, found, before, threshold)
  PROVE  /\ next.tp = Cardinality(next.claimed)
         /\ next.tp = before.tp \/ next.tp = before.tp + 1
<1>1. Claims(detection, OpenTo(detection, found, before.claimed, threshold), before, next, m)
  BY MatchedNextIs
<1>2. CASE next = before
  BY <1>2
<1>3. ASSUME NEW g \in (1 .. m) \ before.claimed,
             next = [claimed |-> before.claimed \cup {g}, tp |-> before.tp + 1]
      PROVE  next.tp = Cardinality(next.claimed) /\ next.tp = before.tp + 1
  <2>1. next.claimed = before.claimed \cup {g} /\ next.tp = before.tp + 1
    BY <1>3
  <2>2. IsFiniteSet(before.claimed)
    <3>1. 1 \in Int /\ m \in Int
      OBVIOUS
    <3>2. IsFiniteSet(1 .. m)
      BY <3>1, FS_Interval
    <3>3. before.claimed \in SUBSET (1 .. m)
      BY DEF Progress
    <3> QED BY <3>2, <3>3, FS_Subset
  <2>3. Cardinality(before.claimed \cup {g}) = Cardinality(before.claimed) + 1
    BY <1>3, <2>2, FS_AddElement
  <2> QED BY <2>1, <2>3
<1>4. next = before \/ \E g \in (1 .. m) \ before.claimed :
        next = [claimed |-> before.claimed \cup {g}, tp |-> before.tp + 1]
  BY <1>1, Zenon DEF Claims
<1> QED BY <1>2, <1>3, <1>4

LEMMA ExactIs ==
  ASSUME NEW n \in Nat, NEW m \in Nat, NEW ds \in [1 .. n -> Detections(m)],
         NEW found \in [1 .. m -> Images], NEW threshold, NEW step,
         step = Matched(ds, found, threshold)
  PROVE  /\ \A k \in 0 .. n : step[k].tp = Cardinality(step[k].claimed)
         /\ \A k \in 1 .. n : step[k].tp = step[k - 1].tp \/ step[k].tp = step[k - 1].tp + 1
<1>0. /\ step \in [0 .. n -> Progress(m)] /\ Matches(step, ds, found, threshold, n)
      /\ \A k \in 1 .. n : ds[Ranked(ds)[k]] \in Detections(m)
  BY MatchedIs
<1> DEFINE Exact(k) == step[k].tp = Cardinality(step[k].claimed)
           Rises(k) == step[k].tp = step[k - 1].tp \/ step[k].tp = step[k - 1].tp + 1
           good == {k \in 0 .. n : Exact(k)}
<1>1. ASSUME NEW k \in 1 .. n, Exact(k - 1) PROVE Exact(k) /\ Rises(k)
  <2>1. step[k] = MatchedNext(ds[Ranked(ds)[k]], found, step[k - 1], threshold)
    BY <1>0, Zenon DEF Matches
  <2>2. step[k - 1] \in Progress(m) /\ ds[Ranked(ds)[k]] \in Detections(m)
    BY <1>0
  <2> QED BY <1>1, <2>1, <2>2, ExactNext
<1>2. 0 \in good
  <2>1. step[0].tp = 0 /\ step[0].claimed = {}
    BY <1>0 DEF Matches
  <2>2. Cardinality({}) = 0
    BY FS_EmptySet
  <2>3. Exact(0)
    BY <2>1, <2>2, Zenon
  <2> HIDE DEF Exact
  <2> QED BY <2>3
<1>3. \A k \in 1 .. n : k - 1 \in good => k \in good
  BY <1>1
<1>4. \A k \in 0 .. n : k \in good
  <2> HIDE DEF good
  <2> QED BY <1>2, <1>3, Climb
<1>5. \A k \in 1 .. n : Rises(k)
  <2> SUFFICES ASSUME NEW k \in 1 .. n PROVE Rises(k)
    OBVIOUS
  <2>1. k - 1 \in 0 .. n
    OBVIOUS
  <2>2. Exact(k - 1)
    BY <1>4, <2>1
  <2> HIDE DEF Exact, Rises
  <2> QED BY <1>1, <2>2
<1> QED BY <1>4, <1>5

Curve(step, n) == [k \in 0 .. n |-> step[k].tp]

LEMMA CurveIs ==
  ASSUME NEW n \in Nat, NEW m \in Nat, NEW ds \in [1 .. n -> Detections(m)],
         NEW found \in [1 .. m -> Images], NEW threshold
  PROVE  /\ Counts(Curve(Matched(ds, found, threshold), n), n, m)
         /\ TruePositives(ds, found, threshold) \in [1 .. n -> Nat]
         /\ Follows(TruePositives(ds, found, threshold),
                    Curve(Matched(ds, found, threshold), n), n)
<1> DEFINE step == Matched(ds, found, threshold)
           cum == Curve(step, n)
           tp == TruePositives(ds, found, threshold)
<1>1. /\ step \in [0 .. n -> Progress(m)] /\ Matches(step, ds, found, threshold, n)
      /\ \A k \in 1 .. n : ds[Ranked(ds)[k]] \in Detections(m)
      /\ Len(ds) = n
  BY MatchedIs
<1>2. tp = [k \in 1 .. n |-> step[k].tp]
  BY <1>1 DEF TruePositives
<1>3. /\ \A k \in 0 .. n : step[k].tp = Cardinality(step[k].claimed)
      /\ \A k \in 1 .. n : step[k].tp = step[k - 1].tp \/ step[k].tp = step[k - 1].tp + 1
  BY ExactIs
<1> HIDE DEF step, tp
<1>4. \A k \in 0 .. n : step[k] \in Progress(m) /\ step[k].tp \in Nat /\ cum[k] = step[k].tp
  BY <1>1 DEF Progress, Curve
<1>5. cum \in [0 .. n -> Nat]
  BY <1>4 DEF Curve
<1>6. Climbs(cum, n)
  <2> SUFFICES ASSUME NEW k \in 1 .. n PROVE cum[k] = cum[k - 1] \/ cum[k] = cum[k - 1] + 1
    BY DEF Climbs
  <2>1. k \in 0 .. n /\ k - 1 \in 0 .. n
    OBVIOUS
  <2> HIDE DEF cum
  <2> QED BY <1>3, <1>4, <2>1
<1>7. cum[0] = 0
  <2>1. step[0].tp = 0 /\ 0 \in 0 .. n
    BY <1>1 DEF Matches
  <2> HIDE DEF cum
  <2> QED BY <1>4, <2>1
<1>8. cum[n] <= m
  <2>1. 1 \in Int /\ m \in Int /\ n \in 0 .. n
    OBVIOUS
  <2>2. IsFiniteSet(1 .. m) /\ Cardinality(1 .. m) = m
    BY <2>1, FS_Interval
  <2>3. step[n].claimed \in SUBSET (1 .. m)
    BY <1>4, <2>1 DEF Progress
  <2>4. Cardinality(step[n].claimed) <= Cardinality(1 .. m)
    BY <2>2, <2>3, FS_Subset
  <2>5. cum[n] = Cardinality(step[n].claimed)
    <3> HIDE DEF cum
    <3> QED BY <1>3, <1>4, <2>1
  <2> QED BY <2>2, <2>4, <2>5
<1>9. tp \in [1 .. n -> Nat] /\ Follows(tp, cum, n)
  <2>1. \A k \in 1 .. n : k \in 0 .. n
    OBVIOUS
  <2>2. \A k \in 1 .. n : tp[k] = step[k].tp /\ tp[k] \in Nat
    BY <1>2, <1>4, <2>1
  <2>3. \A k \in 1 .. n : tp[k] = cum[k]
    <3> HIDE DEF cum
    <3> QED BY <1>4, <2>1, <2>2
  <2>4. tp \in [1 .. n -> Nat]
    BY <1>2, <2>2
  <2>5. Follows(tp, cum, n)
    <3> HIDE DEF cum
    <3> QED BY <2>3 DEF Follows
  <2> QED BY <2>4, <2>5
<1>10. Counts(cum, n, m)
  <2> HIDE DEF cum
  <2> QED BY <1>5, <1>6, <1>7, <1>8 DEF Counts
<1> QED BY <1>9, <1>10 DEF step, tp

-----------------------------------------------------------------------------
(* The average precision.                                                  *)

IsCase(ds, found, n, m) ==
  ds \in [1 .. n -> Detections(m)] /\ found \in [1 .. m -> Images]

ScoringInv == \E n \in Nat, m \in Nat : IsCase(scoring.detections, scoring.truth, n, m)

LEMMA CaseIsScored == ScoringInit => ScoringInv
<1> SUFFICES ASSUME NEW n \in 0 .. MaxDetections, NEW m \in 0 .. MaxTruth,
                    scoring \in Cases(n, m)
             PROVE  ScoringInv
  BY DEF ScoringInit
<1>1. n \in Nat /\ m \in Nat
  BY ScoringAssumption
<1>2. IsCase(scoring.detections, scoring.truth, n, m)
  BY DEF Cases, Truths, IsCase
<1> QED BY <1>1, <1>2 DEF ScoringInv

LEMMA ScoringKeeps == ScoringSpec => []ScoringInv
<1>1. ScoringInv /\ [ScoringNext]_scoring => ScoringInv'
  BY DEF ScoringInv, ScoringNext
<1> QED BY <1>1, CaseIsScored, PTL DEF ScoringSpec

\* The best precisions, one for each box.
Bests(ds, found, threshold) ==
  [j \in DOMAIN found |-> Best(TruePositives(ds, found, threshold), j)]

LEMMA PrecisionOf ==
  ASSUME NEW n \in Nat, NEW m \in Nat, NEW ds, NEW found, IsCase(ds, found, n, m),
         NEW threshold
  PROVE  /\ Bests(ds, found, threshold) \in [1 .. m -> Nat]
         /\ AveragePrecision(ds, found, threshold) = Total(Bests(ds, found, threshold))
<1>0. ds \in [1 .. n -> Detections(m)] /\ found \in [1 .. m -> Images]
  BY DEF IsCase
<1> USE <1>0
<1>1. Len(found) = m
  <2>1. found \in Seq(Images)
    BY SeqDef
  <2> QED BY <2>1, LenProperties
<1> DEFINE tp == TruePositives(ds, found, threshold)
           cum == Curve(Matched(ds, found, threshold), n)
<1>2. Counts(cum, n, m) /\ tp \in [1 .. n -> Nat] /\ Follows(tp, cum, n)
  BY CurveIs
<1>3. AveragePrecision(ds, found, threshold) = Area(tp, found)
  BY DEF AveragePrecision
<1> HIDE DEF tp, cum
<1>4. /\ [j \in 1 .. m |-> Best(tp, j)] \in [1 .. m -> Nat]
      /\ Area(tp, found) = Total([j \in 1 .. m |-> Best(tp, j)])
  BY <1>1, <1>2, AreaIs
<1>5. Bests(ds, found, threshold) = [j \in 1 .. m |-> Best(tp, j)]
  BY DEF Bests, tp
<1> QED BY <1>3, <1>4, <1>5, Zenon

LEMMA MeansFollow == ScoringInv => MeanOfBestPrecisions
<1> SUFFICES ASSUME NEW n \in Nat, NEW m \in Nat,
                    IsCase(scoring.detections, scoring.truth, n, m),
                    NEW threshold \in Thresholds
             PROVE  AveragePrecision(scoring.detections, scoring.truth, threshold)
                      = Total(Bests(scoring.detections, scoring.truth, threshold))
  BY Zenon DEF ScoringInv, MeanOfBestPrecisions, AveragePrecision, Bests
<1> QED BY PrecisionOf

\* The average precision is, over all the boxes of ground truth, the mean of
\* the best precision at which each next one is recalled: AveragePrecision and
\* areaUnderCurve, for any number of detections and boxes.
THEOREM MeansOfBest == ScoringSpec => []MeanOfBestPrecisions
BY MeansFollow, ScoringKeeps, PTL

-----------------------------------------------------------------------------
(* A stricter overlap.                                                     *)

\* What a detection claims at the higher threshold it claims at the lower one
\* too, unless an earlier one did.
LEMMA CoveredNext ==
  ASSUME NEW m \in Nat, NEW detection \in Detections(m), NEW found \in [1 .. m -> Images],
         NEW strict \in Progress(m), NEW lax \in Progress(m),
         NEW low \in Nat, NEW high \in Nat, low < high,
         strict.claimed \subseteq lax.claimed
  PROVE  MatchedNext(detection, found, strict, high).claimed
           \subseteq MatchedNext(detection, found, lax, low).claimed
<1> DEFINE sn == MatchedNext(detection, found, strict, high)
           ln == MatchedNext(detection, found, lax, low)
           so == OpenTo(detection, found, strict.claimed, high)
           lo == OpenTo(detection, found, lax.claimed, low)
           iou == detection.iou
<1>1. Claims(detection, so, strict, sn, m) /\ Claims(detection, lo, lax, ln, m)
  BY MatchedNextIs
<1>2. \A g \in 1 .. m : iou[g] \in Nat
  <2>1. detection.iou \in [1 .. m -> Tenths]
    BY DEF Detections
  <2> QED BY <2>1, ScoringAssumption
<1>3. /\ \A g \in so : g \in 1 .. m /\ iou[g] >= high
      /\ \A g \in lo : g \in 1 .. m /\ g \notin lax.claimed
      /\ \A g \in so : g \in lax.claimed \/ g \in lo
      /\ \A g \in lo : iou[g] >= high => g \in so
  <2>1. DOMAIN found = 1 .. m
    OBVIOUS
  <2>2. ASSUME NEW g \in 1 .. m
        PROVE  /\ g \in so <=> g \notin strict.claimed /\ found[g] = detection.image /\ iou[g] >= high
               /\ g \in lo <=> g \notin lax.claimed /\ found[g] = detection.image /\ iou[g] >= low
    BY <2>1, Zenon DEF OpenTo
  <2>3. (\A g \in so : g \in 1 .. m) /\ (\A g \in lo : g \in 1 .. m)
    BY <2>1, Zenon DEF OpenTo
  <2>4. \A g \in 1 .. m : iou[g] >= high => iou[g] >= low
    BY <1>2
  <2> HIDE DEF so, lo, iou
  <2> QED BY <2>2, <2>3, <2>4
<1> HIDE DEF sn, ln, so, lo
<1>4. lax.claimed \subseteq ln.claimed
  <2>1. ASSUME NEW g, ln = [claimed |-> lax.claimed \cup {g}, tp |-> lax.tp + 1]
        PROVE  lax.claimed \subseteq ln.claimed
    BY <2>1
  <2>2. ln = lax \/ \E g : ln = [claimed |-> lax.claimed \cup {g}, tp |-> lax.tp + 1]
    BY <1>1, Zenon DEF Claims
  <2> QED BY <2>1, <2>2
<1>5. ASSUME sn = strict PROVE sn.claimed \subseteq ln.claimed
  BY <1>4, <1>5
<1>6. ASSUME NEW g \in BestBoxes(detection, so),
             \A h \in BestBoxes(detection, so) : g <= h,
             sn = [claimed |-> strict.claimed \cup {g}, tp |-> strict.tp + 1],
             g \notin lax.claimed
      PROVE  g \in ln.claimed
  <2>1. g \in so /\ g \in lo /\ \A h \in so : iou[h] <= iou[g]
    BY <1>3, <1>6 DEF BestBoxes
  <2>2. PICK f \in BestBoxes(detection, lo) :
          /\ \A h \in BestBoxes(detection, lo) : f <= h
          /\ ln = [claimed |-> lax.claimed \cup {f}, tp |-> lax.tp + 1]
    BY <1>1, <2>1, Zenon DEF Claims
  <2>3. f \in lo /\ \A h \in lo : iou[h] <= iou[f]
    BY DEF BestBoxes
  <2>4. f \in 1 .. m /\ g \in 1 .. m /\ iou[f] \in Nat /\ iou[g] \in Nat
    BY <1>2, <1>3, <2>1, <2>3
  <2>5. iou[g] <= iou[f] /\ iou[g] >= high
    BY <1>3, <2>1, <2>3
  <2>6. f \in so
    <3>1. iou[f] >= high
      BY <2>4, <2>5
    <3> QED BY <1>3, <2>3, <3>1
  <2>7. iou[f] = iou[g]
    <3>1. iou[f] <= iou[g]
      BY <2>1, <2>6
    <3> HIDE DEF iou
    <3> QED BY <2>4, <2>5, <3>1
  <2>8. f \in BestBoxes(detection, so) /\ g \in BestBoxes(detection, lo)
    BY <2>1, <2>3, <2>6, <2>7 DEF BestBoxes
  <2>9. f <= g /\ g <= f
    BY <1>6, <2>2, <2>8
  <2>10. f = g
    BY <2>4, <2>9
  <2> QED BY <2>2, <2>10
<1>7. sn = strict \/ \E g \in BestBoxes(detection, so) :
        /\ \A h \in BestBoxes(detection, so) : g <= h
        /\ sn = [claimed |-> strict.claimed \cup {g}, tp |-> strict.tp + 1]
  BY <1>1, Zenon DEF Claims
<1>8. ASSUME NEW g \in BestBoxes(detection, so),
             \A h \in BestBoxes(detection, so) : g <= h,
             sn = [claimed |-> strict.claimed \cup {g}, tp |-> strict.tp + 1]
      PROVE  sn.claimed \subseteq ln.claimed
  <2>1. sn.claimed = strict.claimed \cup {g}
    BY <1>8
  <2>2. g \in ln.claimed
    BY <1>4, <1>6, <1>8
  <2> QED BY <1>4, <2>1, <2>2
<1>9. sn.claimed \subseteq ln.claimed
  BY <1>5, <1>7, <1>8
<1> QED BY <1>9 DEF sn, ln

LEMMA FewerTruePositives ==
  ASSUME NEW n \in Nat, NEW m \in Nat, NEW ds \in [1 .. n -> Detections(m)],
         NEW found \in [1 .. m -> Images], NEW low \in Nat, NEW high \in Nat, low < high
  PROVE  \A k \in 1 .. n : TruePositives(ds, found, high)[k] <= TruePositives(ds, found, low)[k]
<1> DEFINE strict == Matched(ds, found, high)
           lax == Matched(ds, found, low)
           within == {k \in 0 .. n : strict[k].claimed \subseteq lax[k].claimed}
<1>1. /\ strict \in [0 .. n -> Progress(m)] /\ Matches(strict, ds, found, high, n)
      /\ \A k \in 1 .. n : ds[Ranked(ds)[k]] \in Detections(m)
      /\ lax \in [0 .. n -> Progress(m)] /\ Matches(lax, ds, found, low, n)
      /\ Len(ds) = n
  BY MatchedIs
<1>2. /\ \A k \in 0 .. n : strict[k].tp = Cardinality(strict[k].claimed)
      /\ \A k \in 0 .. n : lax[k].tp = Cardinality(lax[k].claimed)
  <2>1. ASSUME NEW threshold, NEW step, step = Matched(ds, found, threshold)
        PROVE  \A k \in 0 .. n : step[k].tp = Cardinality(step[k].claimed)
    BY <2>1, ExactIs
  <2> QED BY <2>1, Zenon
<1>3. /\ TruePositives(ds, found, high) = [k \in 1 .. n |-> strict[k].tp]
      /\ TruePositives(ds, found, low) = [k \in 1 .. n |-> lax[k].tp]
  BY <1>1 DEF TruePositives
<1> HIDE DEF strict, lax
<1>4. 0 \in within
  <2>1. strict[0].claimed = {}
    BY <1>1 DEF Matches
  <2> QED BY <2>1
<1>5. ASSUME NEW k \in 1 .. n, k - 1 \in within PROVE k \in within
  <2>1. /\ strict[k] = MatchedNext(ds[Ranked(ds)[k]], found, strict[k - 1], high)
        /\ lax[k] = MatchedNext(ds[Ranked(ds)[k]], found, lax[k - 1], low)
    BY <1>1, Zenon DEF Matches
  <2>2. /\ ds[Ranked(ds)[k]] \in Detections(m)
        /\ strict[k - 1] \in Progress(m) /\ lax[k - 1] \in Progress(m)
        /\ strict[k - 1].claimed \subseteq lax[k - 1].claimed
    BY <1>1, <1>5
  <2>3. \A d \in Detections(m) : \A a, b \in Progress(m) :
          a.claimed \subseteq b.claimed =>
            MatchedNext(d, found, a, high).claimed \subseteq MatchedNext(d, found, b, low).claimed
    BY CoveredNext
  <2>4. strict[k].claimed \subseteq lax[k].claimed
    BY <2>1, <2>2, <2>3, Zenon
  <2> QED BY <2>4
<1>6. \A k \in 0 .. n : k \in within
  <2> HIDE DEF within
  <2> QED BY <1>4, <1>5, Climb
<1> SUFFICES ASSUME NEW k \in 1 .. n PROVE strict[k].tp <= lax[k].tp
  BY <1>3
<1>7. strict[k].claimed \in SUBSET lax[k].claimed /\ lax[k].claimed \in SUBSET (1 .. m)
  <2>1. k \in 0 .. n
    OBVIOUS
  <2>2. lax[k] \in Progress(m)
    BY <1>1, <2>1
  <2> QED BY <1>6, <2>1, <2>2 DEF Progress
<1>8. IsFiniteSet(lax[k].claimed)
  <2>1. 1 \in Int /\ m \in Int
    OBVIOUS
  <2>2. IsFiniteSet(1 .. m)
    BY <2>1, FS_Interval
  <2> QED BY <1>7, <2>2, FS_Subset
<1>9. Cardinality(strict[k].claimed) <= Cardinality(lax[k].claimed)
  BY <1>7, <1>8, FS_Subset
<1> QED BY <1>2, <1>9

\* More true positives at a rank are no less precise.
LEMMA MorePrecise ==
  ASSUME NEW a \in Nat, NEW b \in Nat, a <= b, NEW i \in Nat \ {0}
  PROVE  (a * Parts) \div i <= (b * Parts) \div i
<1>1. Parts \in Nat
  BY ScoringAssumption
<1>2. a * Parts <= b * Parts
  BY <1>1
<1>3. \A x, y \in Nat : x <= y => x \div i <= y \div i
  OBVIOUS
<1> QED BY <1>1, <1>2, <1>3

LEMMA BestsGrow ==
  ASSUME NEW n \in Nat, NEW low \in [1 .. n -> Nat], NEW high \in [1 .. n -> Nat],
         \A k \in 1 .. n : high[k] <= low[k], NEW j \in Nat
  PROVE  Best(high, j) <= Best(low, j)
<1> DEFINE hat(i) == (high[i] * Parts) \div i
           lat(i) == (low[i] * Parts) \div i
           hcurve == [i \in 1 .. n |-> hat(i)]
           lcurve == [i \in 1 .. n |-> lat(i)]
           hs == {i \in 1 .. n : high[i] >= j}
           ls == {i \in 1 .. n : low[i] >= j}
<1>1. \A i \in 1 .. n : hat(i) \in Nat /\ lat(i) \in Nat /\ hat(i) <= lat(i)
  <2> SUFFICES ASSUME NEW i \in 1 .. n
               PROVE  hat(i) \in Nat /\ lat(i) \in Nat /\ hat(i) <= lat(i)
    OBVIOUS
  <2>1. high[i] \in Nat /\ low[i] \in Nat /\ i \in Nat \ {0} /\ high[i] <= low[i]
    OBVIOUS
  <2> QED BY <2>1, PrecisionIs, MorePrecise
<1>2. /\ Best(high, j) = Max({0} \cup {hat(i) : i \in hs})
      /\ Best(low, j) = Max({0} \cup {lat(i) : i \in ls})
  <2>1. DOMAIN high = 1 .. n /\ DOMAIN low = 1 .. n
    OBVIOUS
  <2> QED BY <2>1, Zenon DEF Best
<1> HIDE DEF hat, lat
<1>3. /\ \A i \in 1 .. n : hcurve[i] = hat(i) /\ hcurve[i] \in Nat
      /\ \A i \in 1 .. n : lcurve[i] = lat(i) /\ lcurve[i] \in Nat
  BY <1>1
<1>4. hs \in SUBSET (1 .. n) /\ ls \in SUBSET (1 .. n) /\ hs \subseteq ls
  OBVIOUS
<1> HIDE DEF hcurve, lcurve, hs, ls
<1>5. {hat(i) : i \in hs} = {hcurve[i] : i \in hs} /\ {lat(i) : i \in ls} = {lcurve[i] : i \in ls}
  BY <1>3, <1>4
<1>6. /\ Best(high, j) = Max(Values(hcurve, hs)) /\ Best(low, j) = Max(Values(lcurve, ls))
  BY <1>2, <1>5, Zenon DEF Values
<1>7. /\ \A i \in hs : hcurve[i] \in Nat
      /\ \A i \in ls : lcurve[i] \in Nat
  BY <1>3, <1>4
<1>8. /\ Best(high, j) \in Values(hcurve, hs)
      /\ Best(low, j) \in Nat /\ \A x \in Values(lcurve, ls) : Best(low, j) >= x
  BY <1>4, <1>6, <1>7, BestOf
<1>9. CASE Best(high, j) = 0
  BY <1>8, <1>9
<1>10. ASSUME NEW i \in hs, Best(high, j) = hcurve[i] PROVE Best(high, j) <= Best(low, j)
  <2>1. lcurve[i] \in Values(lcurve, ls)
    BY <1>4, <1>10 DEF Values
  <2>2. hcurve[i] <= lcurve[i] /\ hcurve[i] \in Nat /\ lcurve[i] \in Nat
    BY <1>1, <1>3, <1>4
  <2> QED BY <1>8, <1>10, <2>1, <2>2
<1>11. Best(high, j) = 0 \/ \E i \in hs : Best(high, j) = hcurve[i]
  BY <1>8, Zenon DEF Values
<1> QED BY <1>9, <1>10, <1>11

LEMMA StricterOf ==
  ASSUME NEW n \in Nat, NEW m \in Nat, NEW ds, NEW found, IsCase(ds, found, n, m),
         NEW low \in Nat, NEW high \in Nat, low < high
  PROVE  AveragePrecision(ds, found, high) <= AveragePrecision(ds, found, low)
<1>1. ds \in [1 .. n -> Detections(m)] /\ found \in [1 .. m -> Images]
  BY DEF IsCase
<1>2. /\ Bests(ds, found, high) \in [1 .. m -> Nat]
      /\ AveragePrecision(ds, found, high) = Total(Bests(ds, found, high))
      /\ Bests(ds, found, low) \in [1 .. m -> Nat]
      /\ AveragePrecision(ds, found, low) = Total(Bests(ds, found, low))
  BY PrecisionOf
<1> DEFINE htp == TruePositives(ds, found, high)
           ltp == TruePositives(ds, found, low)
<1>3. /\ htp \in [1 .. n -> Nat] /\ ltp \in [1 .. n -> Nat]
      /\ \A k \in 1 .. n : htp[k] <= ltp[k]
  BY <1>1, CurveIs, FewerTruePositives
<1>4. \A j \in 1 .. m : /\ Bests(ds, found, high)[j] = Best(htp, j)
                        /\ Bests(ds, found, low)[j] = Best(ltp, j)
  BY <1>1 DEF Bests
<1> HIDE DEF htp, ltp
<1>5. \A j \in Nat : Best(htp, j) <= Best(ltp, j)
  BY <1>3, BestsGrow
<1>6. \A j \in 1 .. m : Bests(ds, found, high)[j] <= Bests(ds, found, low)[j]
  BY <1>4, <1>5
<1>7. Total(Bests(ds, found, high)) <= Total(Bests(ds, found, low))
  <2>1. /\ Bests(ds, found, high) \in [1 .. m -> Int]
        /\ Bests(ds, found, low) \in [1 .. m -> Int]
    BY <1>2
  <2> QED BY <1>6, <2>1, TotalsGrow
<1> QED BY <1>2, <1>7

\* A detector never scores better against a stricter overlap, so the COCO
\* average over the thresholds is at most the score at the laxest one: the
\* greedy matching of AveragePrecision, which gives each detection the box it
\* overlaps most, loses nothing by it as the threshold falls.
THEOREM StricterNeverBetter == ScoringSpec => []StricterIsNoBetter
<1>1. ScoringInv => StricterIsNoBetter
  <2> SUFFICES ASSUME NEW n \in Nat, NEW m \in Nat,
                      IsCase(scoring.detections, scoring.truth, n, m),
                      NEW low \in Thresholds, NEW high \in Thresholds, low < high
               PROVE  AveragePrecision(scoring.detections, scoring.truth, high)
                        <= AveragePrecision(scoring.detections, scoring.truth, low)
    BY Zenon DEF ScoringInv, StricterIsNoBetter
  <2>1. low \in Nat /\ high \in Nat
    BY ScoringAssumption DEF Thresholds
  <2> QED BY <2>1, StricterOf
<1> QED BY <1>1, ScoringKeeps, PTL

-----------------------------------------------------------------------------
(* A ground-truth sitting.                                                 *)

\* The screen's part of the types.
ScreenTyped ==
  /\ page \in Lists /\ batch \in Lists
  /\ poolFetch \in [at : {"idle", "asked", "answered"}, answer : Lists]
  /\ poolError \in BOOLEAN /\ failed \in BOOLEAN
  /\ place \in Nat \ {0}
  /\ loaded \in [marked : SUBSET Classes, drawn : SUBSET Classes, there : BOOLEAN]
  /\ writes \in Seq(Writes)

LEMMA SittingParts == SittingTypeOK <=> GroundTypeOK /\ ScreenTyped
BY DEF SittingTypeOK, ScreenTyped

\* Some images are put in the order of the worklist.
LEMMA InOrderIs ==
  ASSUME NEW images \in SUBSET Pool
  PROVE  InOrder(images) \in Seq(Pool)
<1> DEFINE last == Cardinality(images)
           R == {p \in images \X images : p[1] < p[2]}
           Sorted(line) == \A m, n \in 1 .. last : m < n => line[m] < line[n]
<1>1. IsFiniteSet(images) /\ images \subseteq Nat
  BY GroundTruthAssumption, FS_Subset
<1>2. last \in Nat
  BY <1>1, FS_CardinalityType
<1>3. \A x, y \in images : <<x, y>> \in R <=> x < y
  OBVIOUS
<1>4. /\ \A x \in images : <<x, x>> \notin R
      /\ \A x, y, z \in images : <<x, y>> \in R /\ <<y, z>> \in R => <<x, z>> \in R
      /\ \A x, y \in images : x = y \/ <<x, y>> \in R \/ <<y, x>> \in R
  <2> HIDE DEF R
  <2> QED BY <1>1, <1>3
<1>5. PICK line \in [1 .. last -> images] : \A m, n \in 1 .. last : m < n => <<line[m], line[n]>> \in R
  <2> HIDE DEF R
  <2> QED BY <1>1, <1>4, Arranged
<1> HIDE DEF last
<1>6. Sorted(line)
  BY <1>3, <1>5
<1>7. InOrder(images) \in [1 .. last -> images]
  <2>1. InOrder(images) = CHOOSE l \in [1 .. last -> images] : Sorted(l)
    BY DEF InOrder, last
  <2> HIDE DEF Sorted
  <2> QED BY <1>5, <1>6, <2>1, Zenon
<1> HIDE DEF Sorted
<1>8. InOrder(images) \in [1 .. last -> Pool]
  BY <1>7
<1> QED BY <1>2, <1>8

\* A write on the server touches the boxes or the marks of one pair.
LEMMA WritesTyped ==
  ASSUME GroundTypeOK, NEW i \in Pool, NEW c \in Classes,
         \/ DrawBox(i, c) \/ DeleteBox(i, c)
         \/ \E exhaustive \in BOOLEAN : SetExhaustive(i, c, exhaustive)
  PROVE  GroundTypeOK'
<1>1. <<i, c>> \in Pairs
  BY DEF Pairs
<1>2. truth[<<i, c>>] \in Nat
  BY <1>1 DEF GroundTypeOK
<1>3. CASE DrawBox(i, c)
  <2>1. truth[<<i, c>>] + 1 \in Nat
    BY <1>2
  <2>2. truth' = [truth EXCEPT ![<<i, c>>] = truth[<<i, c>>] + 1]
    BY <1>3 DEF DrawBox
  <2> QED BY <1>3, <2>1, <2>2 DEF GroundTypeOK, DrawBox
<1>4. CASE DeleteBox(i, c)
  <2>1. truth[<<i, c>>] - 1 \in Nat
    BY <1>2, <1>4 DEF DeleteBox
  <2>2. truth' = [truth EXCEPT ![<<i, c>>] = truth[<<i, c>>] - 1]
    BY <1>4 DEF DeleteBox
  <2> QED BY <1>4, <2>1, <2>2 DEF GroundTypeOK, DeleteBox
<1>5. CASE \E exhaustive \in BOOLEAN : SetExhaustive(i, c, exhaustive)
  <2>1. PICK exhaustive \in BOOLEAN : SetExhaustive(i, c, exhaustive)
    BY <1>5
  <2>2. marks' \subseteq Pairs
    BY <1>1, <2>1 DEF SetExhaustive, GroundTypeOK
  <2> QED BY <2>1, <2>2 DEF SetExhaustive, GroundTypeOK
<1> QED BY <1>3, <1>4, <1>5

LEMMA AdoptedTyped ==
  \A walked, data \in Lists : \A fetching \in BOOLEAN : Adopted(walked, data, fetching) \in Lists
BY DEF Adopted

LEMMA NothingListed == NoWorklist \in Lists /\ NotLoaded \in
                         [marked : SUBSET Classes, drawn : SUBSET Classes, there : BOOLEAN]
<1>1. <<>> \in Seq(Pool)
  OBVIOUS
<1> QED BY <1>1 DEF NoWorklist, NotLoaded, Lists

\* The worklist asked for, served and settled.
LEMMA FetchTyped ==
  ASSUME ScreenTyped, AskPool \/ ServePool \/ PoolArrives \/ PoolFails
  PROVE  ScreenTyped'
<1>1. CASE AskPool
  <2>1. batch' \in Lists
    BY <1>1, AdoptedTyped DEF AskPool, ScreenTyped
  <2>2. poolFetch' \in [at : {"idle", "asked", "answered"}, answer : Lists]
    BY <1>1, NothingListed DEF AskPool, Asked
  <2> QED BY <1>1, <2>1, <2>2 DEF AskPool, ScreenTyped
<1>2. CASE ServePool
  <2> DEFINE images == WorklistPage(PageSize)
  <2>1. images \in SUBSET Pool
    BY DEF WorklistPage, FirstOf
  <2>2. InOrder(images) \in Seq(Pool)
    <3> HIDE DEF images
    <3> QED BY <2>1, InOrderIs
  <2>3. poolFetch' = [at |-> "answered", answer |->
                        [images |-> InOrder(images), there |-> TRUE, fresh |-> TRUE]]
    BY <1>2 DEF ServePool
  <2> HIDE DEF images
  <2>4. poolFetch' \in [at : {"idle", "asked", "answered"}, answer : Lists]
    BY <2>2, <2>3 DEF Lists
  <2> QED BY <1>2, <2>4 DEF ServePool, ScreenTyped
<1>3. CASE PoolArrives
  <2>1. page' \in Lists
    BY <1>3 DEF PoolArrives, ScreenTyped
  <2>2. batch' \in Lists
    BY <1>3, <2>1, AdoptedTyped DEF PoolArrives, ScreenTyped
  <2>3. poolFetch' \in [at : {"idle", "asked", "answered"}, answer : Lists]
    BY <1>3, NothingListed DEF PoolArrives, NotFetching
  <2> QED BY <1>3, <2>1, <2>2, <2>3 DEF PoolArrives, ScreenTyped
<1>4. CASE PoolFails
  <2>1. batch' \in Lists
    BY <1>4, AdoptedTyped DEF PoolFails, ScreenTyped
  <2>2. poolFetch' \in [at : {"idle", "asked", "answered"}, answer : Lists]
    BY <1>4, NothingListed DEF PoolFails, NotFetching
  <2> QED BY <1>4, <2>1, <2>2 DEF PoolFails, ScreenTyped
<1> QED BY <1>1, <1>2, <1>3, <1>4

\* A step of the walk.
LEMMA WalkTyped ==
  ASSUME GroundTypeOK, ScreenTyped, Previous \/ NextFrame \/ LoadNextBatch \/ AnnotationArrives
  PROVE  ScreenTyped'
<1>1. CASE Previous
  <2>1. place' \in Nat \ {0}
    BY <1>1 DEF Previous, ScreenTyped
  <2> QED BY <1>1, <2>1, NothingListed DEF Previous, ScreenTyped
<1>2. CASE NextFrame
  <2>1. place' \in Nat \ {0}
    BY <1>2 DEF NextFrame, ScreenTyped
  <2> QED BY <1>2, <2>1, NothingListed DEF NextFrame, ScreenTyped
<1>3. CASE LoadNextBatch
  <2>1. page' \in Lists
    BY <1>3 DEF LoadNextBatch, ScreenTyped, Lists
  <2>2. batch' \in Lists
    BY <1>3, <2>1, NothingListed, AdoptedTyped DEF LoadNextBatch
  <2>3. poolFetch' \in [at : {"idle", "asked", "answered"}, answer : Lists]
    BY <1>3, NothingListed DEF LoadNextBatch, Asked
  <2>4. place' \in Nat \ {0} /\ failed' \in BOOLEAN
    <3>1. place' = 1
      BY <1>3, Zenon DEF LoadNextBatch
    <3>2. place' \in Nat \ {0}
      BY <3>1
    <3>3. failed' \in BOOLEAN
      BY <1>3, Zenon DEF LoadNextBatch
    <3> QED BY <3>2, <3>3
  <2> QED BY <1>3, <2>1, <2>2, <2>3, <2>4, NothingListed DEF LoadNextBatch, ScreenTyped
<1>4. CASE AnnotationArrives
  <2>1. loaded' \in [marked : SUBSET Classes, drawn : SUBSET Classes, there : BOOLEAN]
    BY <1>4 DEF AnnotationArrives, GroundTypeOK
  <2> QED BY <1>4, <2>1 DEF AnnotationArrives, ScreenTyped
<1> QED BY <1>1, <1>2, <1>3, <1>4

\* A write is sent, on the frame shown.
LEMMA SendTyped ==
  ASSUME ScreenTyped, NEW op \in Kinds, NEW c \in Classes, NEW on \in BOOLEAN, Write(op, c, on)
  PROVE  ScreenTyped'
<1> DEFINE write == [op |-> op, image |-> Frame, class |-> c, on |-> on,
                    watched |-> TRUE, served |-> FALSE]
           Now(w) == IF w.op = op THEN [w EXCEPT !.watched = FALSE] ELSE w
           before == [k \in DOMAIN writes |-> Now(writes[k])]
<1>1. writes' = Append(before, write)
  BY DEF Write
<1>2. Frame \in Pool
  <2>1. batch.images \in Seq(Pool) /\ place \in DOMAIN batch.images
    BY DEF ScreenTyped, Lists, Write, Shown
  <2> QED BY <2>1 DEF Frame
<1>3. write \in Writes
  BY <1>2 DEF Writes
<1>4. writes \in Seq(Writes)
  BY DEF ScreenTyped
<1>5. \A k \in DOMAIN writes : before[k] \in Writes
  <2> SUFFICES ASSUME NEW k \in DOMAIN writes PROVE Now(writes[k]) \in Writes
    OBVIOUS
  <2>1. writes[k] \in Writes
    BY <1>4
  <2> QED BY <2>1 DEF Writes
<1>6. Len(writes) \in Nat /\ DOMAIN writes = 1 .. Len(writes) /\ DOMAIN before = 1 .. Len(writes)
  BY <1>4
<1> HIDE DEF before, write
<1>7. before \in Seq(Writes)
  <2>1. before \in [1 .. Len(writes) -> Writes]
    BY <1>5, <1>6 DEF before
  <2> QED BY <1>6, <2>1
<1>8. writes' \in Seq(Writes)
  BY <1>1, <1>3, <1>7
<1> QED BY <1>8 DEF Write, ScreenTyped

\* A write is served.
LEMMA ServeTyped ==
  ASSUME GroundTypeOK, ScreenTyped, NEW k \in DOMAIN writes, ServeWrite(k)
  PROVE  GroundTypeOK' /\ ScreenTyped'
<1>1. writes \in Seq(Writes) /\ writes[k] \in Writes
  BY DEF ScreenTyped
<1>2. /\ writes[k].image \in Pool /\ writes[k].class \in Classes
      /\ writes[k].op \in Kinds /\ writes[k].on \in BOOLEAN
  BY <1>1 DEF Writes
<1>3. \/ DrawBox(writes[k].image, writes[k].class)
      \/ DeleteBox(writes[k].image, writes[k].class)
      \/ SetExhaustive(writes[k].image, writes[k].class, writes[k].on)
  BY <1>2 DEF ServeWrite, Kinds
<1>4. ASSUME NEW i \in Pool, NEW c \in Classes, NEW on \in BOOLEAN,
             DrawBox(i, c) \/ DeleteBox(i, c) \/ SetExhaustive(i, c, on)
      PROVE  GroundTypeOK'
  BY <1>4, WritesTyped
<1>5. GroundTypeOK'
  BY <1>2, <1>3, <1>4, Zenon
<1>6. writes' = [writes EXCEPT ![k] = [writes[k] EXCEPT !.served = TRUE]]
  BY DEF ServeWrite
<1>7. [writes[k] EXCEPT !.served = TRUE] \in Writes
  BY <1>1 DEF Writes
<1>8. writes' \in Seq(Writes)
  BY <1>1, <1>6, <1>7
<1> QED BY <1>5, <1>8 DEF ServeWrite, ScreenTyped

\* An answer to a write, or none.
LEMMA HeardTyped ==
  ASSUME ScreenTyped, NEW k \in DOMAIN writes, WriteHeard(k) \/ WriteFails(k)
  PROVE  ScreenTyped'
<1>1. writes \in Seq(Writes)
  BY DEF ScreenTyped
<1>2. writes' = RemoveAt(writes, k)
  BY DEF WriteHeard, WriteFails
<1>3. writes' \in Seq(Writes)
  BY <1>1, <1>2, Removed
<1>4. CASE WriteHeard(k)
  <2>1. batch' \in Lists
    BY <1>4, AdoptedTyped DEF WriteHeard, ScreenTyped
  <2>2. poolFetch' \in [at : {"idle", "asked", "answered"}, answer : Lists]
    BY <1>4, NothingListed DEF WriteHeard, Asked
  <2> QED BY <1>3, <1>4, <2>1, <2>2 DEF WriteHeard, ScreenTyped
<1>5. CASE WriteFails(k)
  BY <1>3, <1>5 DEF WriteFails, ScreenTyped
<1> QED BY <1>4, <1>5

LEMMA SittingBegins == ScreenInit => ScreenTyped
<1> SUFFICES ASSUME ScreenInit PROVE ScreenTyped
  OBVIOUS
<1>1. poolFetch \in [at : {"idle", "asked", "answered"}, answer : Lists]
  BY NothingListed DEF ScreenInit, NotFetching
<1>2. writes \in Seq(Writes) /\ place \in Nat \ {0}
  BY DEF ScreenInit
<1> QED BY <1>1, <1>2, NothingListed DEF ScreenInit, ScreenTyped

LEMMA GroundBegins == GroundInit => GroundTypeOK
BY DEF GroundInit, GroundTypeOK, Pairs

LEMMA SittingKeeps ==
  GroundTypeOK /\ ScreenTyped /\ [SittingNext]_walkVars => GroundTypeOK' /\ ScreenTyped'
<1> SUFFICES ASSUME GroundTypeOK, ScreenTyped, [SittingNext]_walkVars
             PROVE  GroundTypeOK' /\ ScreenTyped'
  OBVIOUS
<1>1. ASSUME UNCHANGED ground PROVE GroundTypeOK'
  BY <1>1 DEF ground, GroundTypeOK
<1>2. ASSUME UNCHANGED sitting PROVE ScreenTyped'
  BY <1>2 DEF sitting, ScreenTyped
<1>3. CASE UNCHANGED walkVars
  BY <1>1, <1>2, <1>3 DEF walkVars
<1>4. CASE SecondAnnotator
  <2>1. PICK i \in Pool, c \in Classes : SetExhaustive(i, c, <<i, c>> \notin marks)
    BY <1>4 DEF SecondAnnotator
  <2>2. (<<i, c>> \notin marks) \in BOOLEAN
    OBVIOUS
  <2>3. GroundTypeOK'
    BY <2>1, <2>2, WritesTyped
  <2> QED BY <1>2, <1>4, <2>3 DEF SecondAnnotator
<1>5. CASE AskPool \/ ServePool \/ PoolArrives \/ PoolFails
  BY <1>1, <1>5, FetchTyped DEF AskPool, ServePool, PoolArrives, PoolFails
<1>6. CASE Previous \/ NextFrame \/ LoadNextBatch \/ AnnotationArrives
  BY <1>1, <1>6, WalkTyped DEF Previous, NextFrame, LoadNextBatch, AnnotationArrives
<1>7. ASSUME NEW c \in Classes, Draw(c) \/ Delete(c) \/ Mark(c)
      PROVE  GroundTypeOK' /\ ScreenTyped'
  <2>1. ASSUME NEW op \in Kinds, NEW on \in BOOLEAN, Write(op, c, on)
        PROVE  GroundTypeOK' /\ ScreenTyped'
    BY <1>1, <2>1, SendTyped DEF Write
  <2>2. (c \notin loaded.marked) \in BOOLEAN
    OBVIOUS
  <2>3. \E op \in Kinds : \E on \in BOOLEAN : Write(op, c, on)
    BY <1>7, <2>2, Zenon DEF Draw, Delete, Mark, Kinds
  <2> QED BY <2>1, <2>3
<1>8. ASSUME NEW k \in DOMAIN writes, ServeWrite(k) \/ WriteHeard(k) \/ WriteFails(k)
      PROVE  GroundTypeOK' /\ ScreenTyped'
  <2>1. CASE ServeWrite(k)
    BY <2>1, ServeTyped
  <2>2. CASE WriteHeard(k) \/ WriteFails(k)
    BY <1>1, <2>2, HeardTyped DEF WriteHeard, WriteFails
  <2> QED BY <1>8, <2>1, <2>2
<1> QED BY <1>3, <1>4, <1>5, <1>6, <1>7, <1>8 DEF SittingNext

\* The sitting keeps its types: the frame under the annotator's hands is of
\* the pool, and a box that is deleted twice takes no count below zero, though
\* a second annotator and late answers interleave with every write.
THEOREM SittingTypeCorrect == SittingSpec => []SittingTypeOK
<1>1. SittingInit => GroundTypeOK /\ ScreenTyped
  BY SittingBegins, GroundBegins DEF SittingInit, Prepared
<1> QED BY <1>1, SittingKeeps, SittingParts, PTL DEF SittingSpec

-----------------------------------------------------------------------------
(* The frames and their labels put together: each part runs as its own      *)
(* specification says, whatever the others are at.                          *)

LEMMA StoreRuns == DatasetSpec => StoreSpec
<1>1. DatasetInit => StoreInit
  BY DEF DatasetInit
<1>2. [DatasetNext]_dataset_vars => [StoreNext]_store
  BY DEF DatasetNext, dataset_vars
<1> QED BY <1>1, <1>2, PTL DEF DatasetSpec, StoreSpec

LEMMA ClassesRun == DatasetSpec => PromptSpec
<1>1. DatasetInit => PromptInit
  BY DEF DatasetInit
<1>2. [DatasetNext]_dataset_vars => [PromptNext]_roster_vars
  BY DEF DatasetNext, dataset_vars
<1> QED BY <1>1, <1>2, PTL DEF DatasetSpec, PromptSpec

LEMMA GridRuns == DatasetSpec => GridSpec
<1>1. DatasetInit => GridInit
  BY DEF DatasetInit
<1>2. [DatasetNext]_dataset_vars => [GridNext]_frame_grid
  BY DEF DatasetNext, dataset_vars
<1> QED BY <1>1, <1>2, PTL DEF DatasetSpec, GridSpec

\* The frozen pool is annotated under a snapshot that is built, or in a
\* sitting.
Snapshots == part = "snapshot"

LEMMA PartStays == [DatasetNext]_dataset_vars => part' = part
BY DEF DatasetNext, dataset_vars

LEMMA SnapshotsRun == DatasetSpec /\ Snapshots => EvaluationSpec
<1>1. DatasetInit /\ Snapshots => EvaluationInit
  BY DEF DatasetInit, Snapshots, EvaluationInit
<1>2. Snapshots /\ [DatasetNext]_dataset_vars => Snapshots' /\ [EvaluationNext]_evaluation
  <2> SUFFICES ASSUME Snapshots, [DatasetNext]_dataset_vars
               PROVE  Snapshots' /\ [EvaluationNext]_evaluation
    OBVIOUS
  <2>1. Snapshots'
    BY PartStays DEF Snapshots
  <2>2. CASE UNCHANGED dataset_vars
    BY <2>1, <2>2 DEF dataset_vars, build_vars, evaluation
  <2>3. CASE DatasetNext
    <3>1. EvaluationNext \/ UNCHANGED <<ground, build_vars>>
      BY <2>3, Zenon DEF DatasetNext, Snapshots
    <3> QED BY <2>1, <3>1 DEF build_vars, evaluation
  <2> QED BY <2>1, <2>2, <2>3
<1> QED BY <1>1, <1>2, PTL DEF DatasetSpec, EvaluationSpec

LEMMA SittingRuns == DatasetSpec /\ ~Snapshots => SittingSpec
<1>1. DatasetInit /\ ~Snapshots => SittingInit
  BY DEF DatasetInit, Snapshots, SittingInit
<1>2. ~Snapshots /\ [DatasetNext]_dataset_vars => ~Snapshots' /\ [SittingNext]_walkVars
  <2> SUFFICES ASSUME ~Snapshots, [DatasetNext]_dataset_vars
               PROVE  ~Snapshots' /\ [SittingNext]_walkVars
    OBVIOUS
  <2>1. ~Snapshots'
    BY PartStays DEF Snapshots
  <2>2. CASE UNCHANGED dataset_vars
    BY <2>1, <2>2 DEF dataset_vars, walk_vars, walkVars
  <2>3. CASE DatasetNext
    <3>1. SittingNext \/ UNCHANGED <<ground, walk_vars>>
      BY <2>3, Zenon DEF DatasetNext, Snapshots
    <3> QED BY <2>1, <3>1 DEF walk_vars, walkVars
  <2> QED BY <2>1, <2>2, <2>3
<1> QED BY <1>1, <1>2, PTL DEF DatasetSpec, SittingSpec

\* While no snapshot is built there are no rulings and no runs, and while one
\* is the screen stays shut.
Unbuilt ==
  /\ log = <<>> /\ trusted \in BOOLEAN /\ build = Idle /\ runs = 0 /\ edits = 0
  /\ artifacts = [j \in Jobs |-> [objects |-> {}, manifest |-> NoManifest]]
  /\ catalogue = <<>>

LEMMA NothingBuilt == DatasetSpec /\ ~Snapshots => []Unbuilt
<1>1. DatasetInit => Unbuilt
  BY Zenon DEF DatasetInit, BuildInit, Unbuilt
<1>2. Unbuilt /\ ~Snapshots /\ [DatasetNext]_dataset_vars => Unbuilt' /\ ~Snapshots'
  <2> SUFFICES ASSUME Unbuilt, ~Snapshots, [DatasetNext]_dataset_vars
               PROVE  Unbuilt' /\ ~Snapshots'
    OBVIOUS
  <2>1. ~Snapshots'
    BY PartStays DEF Snapshots
  <2>2. UNCHANGED build_vars
    BY Zenon DEF DatasetNext, Snapshots, dataset_vars
  <2> QED BY <2>1, <2>2 DEF build_vars, Unbuilt
<1> QED BY <1>1, <1>2, PTL DEF DatasetSpec

Shut == ScreenTyped /\ batch = NoWorklist

LEMMA ScreenShut == DatasetSpec /\ Snapshots => []Shut
<1>1. DatasetInit => Shut
  BY SittingBegins DEF DatasetInit, Shut, ScreenInit
<1>2. Shut /\ Snapshots /\ [DatasetNext]_dataset_vars => Shut' /\ Snapshots'
  <2> SUFFICES ASSUME Shut, Snapshots, [DatasetNext]_dataset_vars
               PROVE  Shut' /\ Snapshots'
    OBVIOUS
  <2>1. Snapshots'
    BY PartStays DEF Snapshots
  <2>2. UNCHANGED sitting
    BY Zenon DEF DatasetNext, Snapshots, dataset_vars, walk_vars
  <2> QED BY <2>1, <2>2 DEF sitting, ScreenTyped, Shut
<1> QED BY <1>1, <1>2, PTL DEF DatasetSpec

LEMMA UnbuiltTyped == GroundTypeOK /\ Unbuilt => EvaluationTypeOK
<1> SUFFICES ASSUME GroundTypeOK, Unbuilt PROVE EvaluationTypeOK
  OBVIOUS
<1>1. DOMAIN log = {} /\ DOMAIN catalogue = {}
  BY DEF Unbuilt
<1>2. \A j \in Jobs : artifacts[j].objects = {} /\ artifacts[j].manifest = NoManifest
  BY DEF Unbuilt
<1>3. NoManifest.images = {}
  BY DEF NoManifest
<1>4. trusted \in BOOLEAN /\ runs \in Nat /\ edits \in Nat /\ build = Idle
  BY DEF Unbuilt
<1> QED BY <1>1, <1>2, <1>3, <1>4 DEF EvaluationTypeOK

\* Every part of the dataset keeps its types: the box's disk, the frames'
\* grid, the classes, a ground-truth sitting and a snapshot that is built.
THEOREM DatasetTypeCorrect == DatasetSpec => []DatasetTypeOK
<1>1. DatasetSpec => [](StoreTypeOK /\ PromptTypeOK /\ GridTypeOK)
  BY StoreRuns, ClassesRun, GridRuns, StoreTypeCorrect, PromptTypeCorrect, GridTypeCorrect, PTL
<1>2. DatasetSpec /\ Snapshots => [](SittingTypeOK /\ EvaluationTypeOK)
  <2>1. EvaluationTypeOK => GroundTypeOK
    BY DEF EvaluationTypeOK
  <2>2. Shut => ScreenTyped
    BY DEF Shut
  <2> QED BY <2>1, <2>2, SnapshotsRun, ScreenShut, EvaluationTypeCorrect, SittingParts, PTL
<1>3. DatasetSpec /\ ~Snapshots => [](SittingTypeOK /\ EvaluationTypeOK)
  BY SittingRuns, NothingBuilt, UnbuiltTyped, SittingTypeCorrect, SittingParts, PTL
<1>4. StoreTypeOK /\ PromptTypeOK /\ GridTypeOK /\ SittingTypeOK /\ EvaluationTypeOK
        => DatasetTypeOK
  BY DEF DatasetTypeOK
<1> QED BY <1>1, <1>2, <1>3, <1>4, PTL

-----------------------------------------------------------------------------
(* Everything that is checked of the dataset.                              *)

\* Outside its own part the sampling is of a video a second long, and the
\* scoring of no detection against no box.
LEMMA SamplingRuns == DatasetSpec => [](CoveredOnce /\ DrawnAcross)
<1> DEFINE Second == sampling = [kind |-> "cut", duration |-> 1]
<1>1. DatasetInit => Case \/ Second
  BY DEF DatasetInit, SamplingInit, Case
<1>2. (Case \/ Second) /\ [DatasetNext]_dataset_vars => (Case \/ Second)'
  BY DEF DatasetNext, dataset_vars, SamplingNext, Case
<1>3. Case => CoveredOnce /\ DrawnAcross
  BY CaseCovered, CaseDrawn
<1>4. Second => CoveredOnce /\ DrawnAcross
  <2> SUFFICES ASSUME Second PROVE CoveredOnce /\ DrawnAcross
    OBVIOUS
  <2>1. sampling.kind = "cut" /\ sampling.duration = 1
    OBVIOUS
  <2>2. sampling.duration \in Nat \ {0}
    BY <2>1
  <2>3. CoveredOnce
    BY <2>2, CutCovers DEF CoveredOnce
  <2>4. DrawnAcross
    BY <2>1 DEF DrawnAcross, Of
  <2> QED BY <2>3, <2>4
<1> QED BY <1>1, <1>2, <1>3, <1>4, PTL DEF DatasetSpec

LEMMA ScoringRuns == DatasetSpec => []MeanOfBestPrecisions
<1>1. DatasetInit => ScoringInv
  <2>1. scoring = [detections |-> <<>>, truth |-> <<>>] => ScoringInv
    <3> SUFFICES ASSUME scoring = [detections |-> <<>>, truth |-> <<>>] PROVE ScoringInv
      OBVIOUS
    <3>1. scoring.detections = <<>> /\ scoring.truth = <<>>
      OBVIOUS
    <3>2. <<>> \in [1 .. 0 -> Detections(0)] /\ <<>> \in [1 .. 0 -> Images]
      OBVIOUS
    <3>3. IsCase(scoring.detections, scoring.truth, 0, 0)
      BY <3>1, <3>2 DEF IsCase
    <3> QED BY <3>3 DEF ScoringInv
  <2>2. ScoringInit => ScoringInv
    BY CaseIsScored
  <2> QED BY <2>1, <2>2 DEF DatasetInit
<1>2. ScoringInv /\ [DatasetNext]_dataset_vars => ScoringInv'
  <2>1. [DatasetNext]_dataset_vars => UNCHANGED scoring
    BY DEF DatasetNext, dataset_vars, ScoringNext
  <2> QED BY <2>1 DEF ScoringInv
<1> QED BY <1>1, <1>2, MeansFollow, PTL DEF DatasetSpec

LEMMA UnbuiltHolds ==
  /\ Unbuilt => ScoredWasExamined /\ SplitsHold /\ ManifestIsWhole
  /\ Unbuilt => ~(\E i \in Pool, k \in DOMAIN log : log[k].image = i /\ log[k].source = "admin")
<1> SUFFICES ASSUME Unbuilt
             PROVE  /\ ScoredWasExamined /\ SplitsHold /\ ManifestIsWhole
                    /\ ~(\E i \in Pool, k \in DOMAIN log :
                           log[k].image = i /\ log[k].source = "admin")
  OBVIOUS
<1>1. build = Idle /\ DOMAIN log = {} /\ DOMAIN catalogue = {}
  BY DEF Unbuilt
<1>2. \A j \in Jobs : artifacts[j].manifest.images = {}
  BY DEF Unbuilt, NoManifest
<1>3. ScoredWasExamined /\ SplitsHold
  BY <1>1 DEF ScoredWasExamined, SplitsHold
<1>4. ManifestIsWhole
  BY <1>1, <1>2 DEF ManifestIsWhole, ImagesOf
<1> QED BY <1>1, <1>3, <1>4

\* What is checked of the dataset on a small instance holds of any: of any
\* videos, frames, classes, pools, detections and passes, and in each part's
\* own specification.
THEOREM DatasetHolds ==
  DatasetSpec =>
    /\ [](/\ DatasetTypeOK /\ RowsHaveObjects /\ ScoredWasExamined /\ ManifestIsWhole
          /\ SplitsHold /\ AdoptsFresh /\ RowsFit
          /\ OneWordingUnlessRaced /\ CoveredOnce /\ DrawnAcross /\ MeanOfBestPrecisions)
    /\ DoomedByAgeAlone /\ AdminLabelStands
<1>1. DatasetSpec => /\ [](RowsHaveObjects /\ RowsFit /\ OneWordingUnlessRaced)
                     /\ DoomedByAgeAlone
  BY StoreRuns, ClassesRun, GridRuns, RowsAlwaysHaveObjects, FramesShownFit, VersionsTell,
     DoomedOnlyByAge, PTL
<1>2. DatasetSpec /\ Snapshots =>
        /\ [](ScoredWasExamined /\ ManifestIsWhole /\ SplitsHold /\ AdoptsFresh)
        /\ AdminLabelStands
  <2>1. Shut => AdoptsFresh
    BY DEF Shut, AdoptsFresh, NoWorklist
  <2> QED BY <2>1, SnapshotsRun, ScreenShut, ScoredWasSeen, ManifestsAreWhole, SplitsStand,
             AdminHasTheWord, PTL
<1>3. DatasetSpec /\ ~Snapshots =>
        /\ [](ScoredWasExamined /\ ManifestIsWhole /\ SplitsHold /\ AdoptsFresh)
        /\ AdminLabelStands
  <2> DEFINE Overruled == \E i \in Pool, k \in DOMAIN log :
                            log[k].image = i /\ log[k].source = "admin"
             Stands ==
               \A i \in Pool :
                 (\E k \in DOMAIN log : log[k].image = i /\ log[k].source = "admin")
                   /\ LabelOf(i)' # LabelOf(i)
                 => Last(log').source = "admin" /\ Last(log').image = i
  <2>1. ~Overruled => Stands
    OBVIOUS
  <2>2. Unbuilt => ScoredWasExamined /\ ManifestIsWhole /\ SplitsHold /\ ~Overruled
    BY UnbuiltHolds
  <2> HIDE DEF Overruled
  <2>3. Unbuilt => [Stands]_evaluation
    BY <2>1, <2>2
  <2> HIDE DEF Stands
  <2>4. DatasetSpec /\ ~Snapshots => [][Stands]_evaluation
    BY <2>3, NothingBuilt, PTL
  <2>5. DatasetSpec /\ ~Snapshots => AdminLabelStands
    BY <2>4 DEF AdminLabelStands, Stands
  <2> QED BY <2>2, <2>5, SittingRuns, NothingBuilt, BatchIsFresh, PTL
<1> QED BY <1>1, <1>2, <1>3, DatasetTypeCorrect, SamplingRuns, ScoringRuns, PTL

=============================================================================
