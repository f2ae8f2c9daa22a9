----------------------------- MODULE IvfProofs -----------------------------
(* Proofs about KMeans and Ivf: an index through trainings, insertions,    *)
(* saves, crashes and loads.                                               *)
EXTENDS Ivf, HnswGraphProofs

-----------------------------------------------------------------------------
(* Centroids, ordered by their distance from p and then by their number.   *)

Centroid == [sum : Nat, count : Nat \ {0}]

LEMMA GapIsDist == \A p, q : Gap(p, q) = Dist(p, q)
    BY DEF Gap, Dist

LEMMA Scales ==
    ASSUME NEW m \in Nat, NEW n \in Nat, NEW k \in Nat
    PROVE  /\ m * k \in Nat
           /\ m <= n => m * k <= n * k
           /\ k # 0 /\ m < n => m * k < n * k
    <1>1. m * k \in Nat
        OBVIOUS
    <1>2. ASSUME m <= n PROVE m * k <= n * k
        <2>1. PICK d \in Nat : n = m + d
            <3>1. n - m \in Nat /\ n = m + (n - m)
                BY <1>2
            <3> QED
                BY <3>1
        <2>2. n * k = m * k + d * k /\ d * k \in Nat
            BY <2>1
        <2> QED
            BY <1>1, <2>2
    <1>3. ASSUME k # 0, m < n PROVE m * k < n * k
        <2>1. PICK d \in Nat \ {0} : n = m + d
            <3>1. n - m \in Nat \ {0} /\ n = m + (n - m)
                BY <1>3
            <3> QED
                BY <3>1
        <2>2. n * k = m * k + d * k
            BY <2>1
        <2>3. d * k > 0 /\ d * k \in Nat
            BY <1>3, <2>1
        <2> QED
            BY <1>1, <2>2, <2>3
    <1> QED
        BY <1>1, <1>2, <1>3

\* x / a <= y / b and y / b <= z / c, as products.
LEMMA Fractions ==
    ASSUME NEW x \in Nat, NEW y \in Nat, NEW z \in Nat,
           NEW a \in Nat \ {0}, NEW b \in Nat \ {0}, NEW c \in Nat \ {0},
           x * b <= y * a, y * c <= z * b
    PROVE  x * c <= z * a
    <1>1. x * b \in Nat /\ y * a \in Nat /\ y * c \in Nat /\ z * b \in Nat
          /\ x * c \in Nat /\ z * a \in Nat
        BY Scales
    <1>2. (x * b) * c <= (y * a) * c
        BY <1>1, Scales
    <1>3. (y * c) * a <= (z * b) * a
        BY <1>1, Scales
    <1>4. (x * b) * c = (x * c) * b /\ (y * a) * c = (y * c) * a /\ (z * b) * a = (z * a) * b
        OBVIOUS
    <1>5. (x * c) * b <= (z * a) * b
        <2>1. (x * b) * c \in Nat /\ (y * a) * c \in Nat /\ (z * b) * a \in Nat
            BY <1>1, Scales
        <2> QED
            BY <1>2, <1>3, <1>4, <2>1
    <1> SUFFICES ASSUME z * a < x * c PROVE FALSE
        BY <1>1
    <1>6. (z * a) * b < (x * c) * b
        BY <1>1, Scales
    <1>7. (z * a) * b \in Nat /\ (x * c) * b \in Nat
        BY <1>1, Scales
    <1> QED
        BY <1>5, <1>6, <1>7

LEMMA OffNat ==
    ASSUME NEW p \in Nat, NEW c \in Centroid
    PROVE  Off(p, c) \in Nat /\ c.count \in Nat \ {0}
    <1>1. p * c.count \in Nat /\ c.sum \in Nat /\ c.count \in Nat \ {0}
        BY Scales DEF Centroid
    <1> QED
        BY <1>1 DEF Off, Gap

\* Not to be farther is transitive.
LEMMA CloserIsOrder ==
    ASSUME NEW p \in Nat, NEW a \in Centroid, NEW b \in Centroid, NEW c \in Centroid
    PROVE  /\ ~(Closer(p, a, b) /\ Closer(p, b, a))
           /\ ~Closer(p, b, a) /\ ~Closer(p, c, b) => ~Closer(p, c, a)
    <1> DEFINE x == Off(p, a)
               y == Off(p, b)
               z == Off(p, c)
               k == a.count
               m == b.count
               n == c.count
    <1>1. x \in Nat /\ y \in Nat /\ z \in Nat
          /\ k \in Nat \ {0} /\ m \in Nat \ {0} /\ n \in Nat \ {0}
        BY OffNat
    <1>2. /\ Closer(p, a, b) <=> x * m < y * k
          /\ Closer(p, b, a) <=> y * k < x * m
          /\ Closer(p, c, b) <=> z * m < y * n
          /\ Closer(p, c, a) <=> z * k < x * n
        BY DEF Closer
    <1> HIDE DEF x, y, z, k, m, n
    <1>3. /\ x * m \in Nat /\ y * k \in Nat /\ z * m \in Nat /\ y * n \in Nat
          /\ z * k \in Nat /\ x * n \in Nat
        BY <1>1, Scales
    <1>4. ASSUME ~Closer(p, b, a), ~Closer(p, c, b) PROVE ~Closer(p, c, a)
        <2>1. x * m <= y * k /\ y * n <= z * m
            BY <1>2, <1>3, <1>4
        <2>2. x * n <= z * k
            BY <1>1, <2>1, Fractions
        <2> QED
            BY <1>2, <1>3, <2>2
    <1> QED
        BY <1>2, <1>3, <1>4

\* The order of NearestCentroids.
Before(p, seq, c, d) == \/ Closer(p, seq[c], seq[d])
                        \/ ~Closer(p, seq[d], seq[c]) /\ c < d

LEMMA BeforeIsOrder ==
    ASSUME NEW p \in Nat, NEW seq \in Seq(Centroid), NEW c \in DOMAIN seq,
           NEW d \in DOMAIN seq, NEW e \in DOMAIN seq
    PROVE  /\ c # d => Before(p, seq, c, d) \/ Before(p, seq, d, c)
           /\ ~(Before(p, seq, c, d) /\ Before(p, seq, d, c))
           /\ Before(p, seq, c, d) /\ Before(p, seq, d, e) => Before(p, seq, c, e)
    <1>1. /\ seq[c] \in Centroid /\ seq[d] \in Centroid /\ seq[e] \in Centroid
          /\ c \in Nat /\ d \in Nat /\ e \in Nat
        OBVIOUS
    <1>2. /\ ~(Closer(p, seq[c], seq[d]) /\ Closer(p, seq[d], seq[c]))
          /\ ~(Closer(p, seq[d], seq[e]) /\ Closer(p, seq[e], seq[d]))
          /\ ~(Closer(p, seq[c], seq[e]) /\ Closer(p, seq[e], seq[c]))
        BY <1>1, CloserIsOrder
    <1>3. \A i, j, k \in {c, d, e} : ~Closer(p, seq[j], seq[i]) /\ ~Closer(p, seq[k], seq[j])
                                         => ~Closer(p, seq[k], seq[i])
        BY <1>1, CloserIsOrder
    <1> QED
        BY <1>1, <1>2, <1>3 DEF Before

LEMMA FirstCentroid ==
    ASSUME NEW p \in Nat, NEW seq \in Seq(Centroid), Len(seq) > 0
    PROVE  \E c \in DOMAIN seq : \A d \in DOMAIN seq : ~Before(p, seq, d, c)
    <1> DEFINE T == {k \in Nat : k + 1 <= Len(seq) =>
                        \E c \in 1 .. k + 1 : \A d \in 1 .. k + 1 : ~Before(p, seq, d, c)}
    <1>1. 0 \in T
        <2>1. \A d \in 1 .. 0 + 1 : d = 1
            OBVIOUS
        <2>2. 1 \in DOMAIN seq /\ 1 \in 1 .. 0 + 1
            OBVIOUS
        <2>3. ~Before(p, seq, 1, 1)
            BY <2>2, BeforeIsOrder
        <2> QED
            BY <2>1, <2>2, <2>3
    <1>2. ASSUME NEW k \in Nat, k \in T PROVE k + 1 \in T
        <2> SUFFICES ASSUME (k + 1) + 1 <= Len(seq)
                     PROVE  \E c \in 1 .. (k + 1) + 1 :
                                \A d \in 1 .. (k + 1) + 1 : ~Before(p, seq, d, c)
            OBVIOUS
        <2> DEFINE n == (k + 1) + 1
        <2>1. PICK c \in 1 .. k + 1 : \A d \in 1 .. k + 1 : ~Before(p, seq, d, c)
            BY <1>2
        <2>2. /\ 1 .. n = (1 .. k + 1) \cup {n} /\ n \in DOMAIN seq
              /\ \A d \in 1 .. k + 1 : d \in DOMAIN seq
            OBVIOUS
        <2> HIDE DEF n
        <2>3. ~Before(p, seq, n, n)
            BY <2>2, BeforeIsOrder
        <2>4. CASE Before(p, seq, n, c)
            <3>1. ASSUME NEW d \in 1 .. k + 1 PROVE ~Before(p, seq, d, n)
                BY <2>1, <2>2, <2>4, BeforeIsOrder
            <3> QED
                BY <2>2, <2>3, <3>1 DEF n
        <2>5. CASE ~Before(p, seq, n, c)
            BY <2>1, <2>2, <2>5 DEF n
        <2> QED
            BY <2>4, <2>5
    <1> HIDE DEF T
    <1>3. Nat \subseteq T
        BY <1>1, <1>2, Induction
    <1>4. Len(seq) - 1 \in T /\ (Len(seq) - 1) + 1 = Len(seq) /\ DOMAIN seq = 1 .. Len(seq)
        BY <1>3
    <1> QED
        BY <1>4 DEF T

\* Insertions and searches agree on the nearest.
LEMMA NearestCentroidIs ==
    ASSUME NEW p \in Nat, NEW seq \in Seq(Centroid), Len(seq) > 0
    PROVE  /\ NearestCentroid(p, seq) \in DOMAIN seq
           /\ \A c \in DOMAIN seq : c = NearestCentroid(p, seq)
                                        <=> \A d \in DOMAIN seq : ~Before(p, seq, d, c)
    <1> DEFINE IsNearest(c) == \A d \in DOMAIN seq :
                   IF d < c THEN Closer(p, seq[c], seq[d]) ELSE ~Closer(p, seq[d], seq[c])
    <1>1. ASSUME NEW c \in DOMAIN seq
          PROVE  IsNearest(c) <=> \A d \in DOMAIN seq : ~Before(p, seq, d, c)
        <2> SUFFICES ASSUME NEW d \in DOMAIN seq
                     PROVE  (IF d < c THEN Closer(p, seq[c], seq[d])
                             ELSE ~Closer(p, seq[d], seq[c])) <=> ~Before(p, seq, d, c)
            OBVIOUS
        <2>1. /\ seq[c] \in Centroid /\ seq[d] \in Centroid /\ c \in Nat /\ d \in Nat
            OBVIOUS
        <2>2. ~(Closer(p, seq[c], seq[d]) /\ Closer(p, seq[d], seq[c]))
            BY <2>1, CloserIsOrder
        <2> QED
            BY <2>1, <2>2 DEF Before
    <1>2. PICK first \in DOMAIN seq : \A d \in DOMAIN seq : ~Before(p, seq, d, first)
        BY FirstCentroid
    <1>3. IsNearest(first)
        BY <1>1, <1>2
    <1>4. NearestCentroid(p, seq) = CHOOSE c \in DOMAIN seq : IsNearest(c)
        BY DEF NearestCentroid
    <1>5. NearestCentroid(p, seq) \in DOMAIN seq /\ IsNearest(NearestCentroid(p, seq))
        BY <1>3, <1>4
    <1> HIDE DEF IsNearest
    <1>6. ASSUME NEW c \in DOMAIN seq, \A d \in DOMAIN seq : ~Before(p, seq, d, c)
          PROVE  c = NearestCentroid(p, seq)
        BY <1>1, <1>5, <1>6, BeforeIsOrder
    <1> QED
        BY <1>1, <1>5, <1>6

LEMMA ProbedAre ==
    ASSUME NEW p \in Nat, NEW seq \in Seq(Centroid), Len(seq) > 0
    PROVE  /\ NearestCentroids(p, seq, 1) = {NearestCentroid(p, seq)}
           /\ NearestCentroids(p, seq, Len(seq)) = DOMAIN seq
    <1> DEFINE Prior(c) == {d \in DOMAIN seq : Before(p, seq, d, c)}
    <1>1. \A k : NearestCentroids(p, seq, k) = {c \in DOMAIN seq : Cardinality(Prior(c)) < k}
        BY DEF NearestCentroids, Before
    <1>2. DOMAIN seq = 1 .. Len(seq) /\ Len(seq) \in Nat
        OBVIOUS
    <1>3. ASSUME NEW c \in DOMAIN seq
          PROVE  /\ Cardinality(Prior(c)) < 1 <=> c = NearestCentroid(p, seq)
                 /\ Cardinality(Prior(c)) < Len(seq)
        <2> DEFINE S == Prior(c)
        <2>1. S \in SUBSET (1 .. Len(seq)) /\ c \notin S /\ c \in 1 .. Len(seq)
            BY <1>2, BeforeIsOrder
        <2>2. c = NearestCentroid(p, seq) <=> S = {}
            BY NearestCentroidIs
        <2> HIDE DEF S
        <2>3. IsFiniteSet(S) /\ Cardinality(S) \in Nat /\ Cardinality(S) < Len(seq)
            BY <1>2, <2>1, Counted
        <2>4. Cardinality(S) < 1 <=> S = {}
            BY <2>3, FS_EmptySet
        <2> QED
            BY <2>2, <2>3, <2>4 DEF S
    <1>4. NearestCentroid(p, seq) \in DOMAIN seq
        BY NearestCentroidIs
    <1> HIDE DEF Prior
    <1> QED
        BY <1>1, <1>3, <1>4

-----------------------------------------------------------------------------
(* Sums.                                                                   *)

\* A recursive sum of f over a finite set, as MapThenSumSet defines it.
Summed(S, f, it, s) ==
    IF s = {} THEN 0
    ELSE LET x == CHOOSE x \in s : TRUE IN f[x] + it[s \ {x}]

IsSum(S, f, it) == it = [s \in SUBSET S |-> Summed(S, f, it, s)]

LEMMA SumExists ==
    ASSUME NEW S, IsFiniteSet(S), NEW f, \A i \in S : f[i] \in Nat
    PROVE  \E it : IsSum(S, f, it)
    <1> DEFINE Upto(it, k) == \A s \in SUBSET S :
                   Cardinality(s) <= k => it[s] = Summed(S, f, it, s)
               T == {k \in Nat : \E it \in [SUBSET S -> Nat] : Upto(it, k)}
    <1>1. \A s \in SUBSET S : IsFiniteSet(s) /\ Cardinality(s) \in Nat
                                  /\ Cardinality(s) <= Cardinality(S)
        BY FS_Subset, FS_CardinalityType
    <1>2. ASSUME NEW s \in SUBSET S, s # {}
          PROVE  LET x == CHOOSE x \in s : TRUE
                 IN  /\ x \in S /\ s \ {x} \in SUBSET S
                     /\ Cardinality(s \ {x}) = Cardinality(s) - 1
        <2> DEFINE x == CHOOSE x \in s : TRUE
        <2>1. x \in s
            BY <1>2
        <2> HIDE DEF x
        <2>2. Cardinality(s \ {x}) = Cardinality(s) - 1
            BY <1>1, <2>1, FS_RemoveElement
        <2> QED
            BY <2>1, <2>2 DEF x
    <1>3. \A it \in [SUBSET S -> Nat], s \in SUBSET S : Summed(S, f, it, s) \in Nat
        <2> SUFFICES ASSUME NEW it \in [SUBSET S -> Nat], NEW s \in SUBSET S
                     PROVE  Summed(S, f, it, s) \in Nat
            OBVIOUS
        <2>1. CASE s = {}
            BY <2>1 DEF Summed
        <2>2. CASE s # {}
            <3> DEFINE x == CHOOSE x \in s : TRUE
            <3>1. x \in S /\ s \ {x} \in SUBSET S
                BY <1>2, <2>2
            <3>2. Summed(S, f, it, s) = f[x] + it[s \ {x}]
                BY <2>2 DEF Summed
            <3> HIDE DEF x
            <3> QED
                BY <3>1, <3>2
        <2> QED
            BY <2>1, <2>2
    <1>4. 0 \in T
        <2> DEFINE it == [s \in SUBSET S |-> 0]
        <2>1. it \in [SUBSET S -> Nat]
            OBVIOUS
        <2>2. \A s \in SUBSET S : Cardinality(s) <= 0 => s = {}
            BY <1>1, FS_EmptySet
        <2>3. Upto(it, 0)
            BY <2>2 DEF Summed
        <2> QED
            BY <2>1, <2>3
    <1>5. ASSUME NEW k \in Nat, k \in T PROVE k + 1 \in T
        <2>1. PICK it \in [SUBSET S -> Nat] : Upto(it, k)
            BY <1>5
        <2> DEFINE new == [s \in SUBSET S |-> Summed(S, f, it, s)]
        <2>2. new \in [SUBSET S -> Nat] /\ \A s \in SUBSET S : new[s] = Summed(S, f, it, s)
            BY <1>3
        <2> HIDE DEF new
        <2>3. ASSUME NEW s \in SUBSET S, Cardinality(s) <= k + 1
              PROVE  new[s] = Summed(S, f, new, s)
            <3>1. CASE s = {}
                BY <2>2, <3>1 DEF Summed
            <3>2. CASE s # {}
                <4> DEFINE x == CHOOSE x \in s : TRUE
                <4>1. s \ {x} \in SUBSET S /\ Cardinality(s \ {x}) = Cardinality(s) - 1
                    BY <1>2, <3>2
                <4>2. /\ Summed(S, f, it, s) = f[x] + it[s \ {x}]
                      /\ Summed(S, f, new, s) = f[x] + new[s \ {x}]
                    BY <3>2 DEF Summed
                <4> HIDE DEF x
                <4>3. Cardinality(s \ {x}) <= k
                    BY <1>1, <2>3, <4>1
                <4>4. new[s \ {x}] = it[s \ {x}]
                    BY <2>1, <2>2, <4>1, <4>3
                <4> QED
                    BY <2>2, <4>2, <4>4
            <3> QED
                BY <3>1, <3>2
        <2>4. Upto(new, k + 1)
            BY <2>3
        <2> QED
            BY <2>2, <2>4
    <1> HIDE DEF T
    <1>6. Cardinality(S) \in T
        BY <1>1, <1>4, <1>5, Induction
    <1>7. PICK it \in [SUBSET S -> Nat] : Upto(it, Cardinality(S))
        BY <1>6 DEF T
    <1>8. IsSum(S, f, it)
        <2>1. \A s \in SUBSET S : it[s] = Summed(S, f, it, s)
            BY <1>1, <1>7
        <2> QED
            BY <2>1 DEF IsSum
    <1> QED
        BY <1>8

Total(S, f) == (CHOOSE it : IsSum(S, f, it))[S]

LEMMA TotalNat ==
    ASSUME NEW S, IsFiniteSet(S), NEW f, \A i \in S : f[i] \in Nat
    PROVE  Total(S, f) \in Nat
    <1> DEFINE it == CHOOSE it : IsSum(S, f, it)
    <1>1. Total(S, f) = it[S]
        BY DEF Total
    <1>2. IsSum(S, f, it)
        BY SumExists
    <1> HIDE DEF it
    <1> DEFINE T == {k \in Nat : \A s \in SUBSET S : Cardinality(s) <= k => it[s] \in Nat}
    <1>3. \A s \in SUBSET S : it[s] = Summed(S, f, it, s)
        BY <1>2 DEF IsSum
    <1>4. \A s \in SUBSET S : IsFiniteSet(s) /\ Cardinality(s) \in Nat
        BY FS_Subset, FS_CardinalityType
    <1>5. 0 \in T
        <2>1. \A s \in SUBSET S : Cardinality(s) <= 0 => s = {}
            BY <1>4, FS_EmptySet
        <2>2. it[{}] = 0
            <3>1. {} \in SUBSET S /\ Summed(S, f, it, {}) = 0
                BY DEF Summed
            <3> QED
                BY <1>3, <3>1
        <2> QED
            BY <2>1, <2>2
    <1>6. ASSUME NEW k \in Nat, k \in T PROVE k + 1 \in T
        <2> SUFFICES ASSUME NEW s \in SUBSET S, Cardinality(s) <= k + 1 PROVE it[s] \in Nat
            OBVIOUS
        <2>1. CASE s = {}
            BY <1>3, <2>1 DEF Summed
        <2>2. CASE s # {}
            <3> DEFINE x == CHOOSE x \in s : TRUE
            <3>1. x \in s /\ it[s] = f[x] + it[s \ {x}]
                BY <1>3, <2>2 DEF Summed
            <3> HIDE DEF x
            <3>2. s \ {x} \in SUBSET S /\ Cardinality(s \ {x}) = Cardinality(s) - 1
                BY <1>4, <3>1, FS_RemoveElement
            <3>3. Cardinality(s \ {x}) <= k
                BY <1>4, <3>2
            <3>4. it[s \ {x}] \in Nat /\ f[x] \in Nat
                BY <1>6, <3>1, <3>2, <3>3
            <3> QED
                BY <3>1, <3>4
        <2> QED
            BY <2>1, <2>2
    <1> HIDE DEF T
    <1>7. Cardinality(S) \in T /\ Cardinality(S) \in Nat
        BY <1>4, <1>5, <1>6, Induction
    <1>8. it[S] \in Nat
        BY <1>7 DEF T
    <1> QED
        BY <1>1, <1>8

\* A property of {} that stays as elements are added is one of every finite set.
LEMMA SetInduction ==
    ASSUME NEW S, IsFiniteSet(S), NEW Q, {} \in Q,
           \A s \in SUBSET S : \A x \in S \ s : s \in Q => s \cup {x} \in Q
    PROVE  \A s \in SUBSET S : s \in Q
    <1> DEFINE T == {k \in Nat : \A s \in SUBSET S : Cardinality(s) = k => s \in Q}
    <1>1. \A s \in SUBSET S : IsFiniteSet(s) /\ Cardinality(s) \in Nat
        BY FS_Subset, FS_CardinalityType
    <1>2. 0 \in T
        BY <1>1, FS_EmptySet
    <1>3. ASSUME NEW k \in Nat, k \in T PROVE k + 1 \in T
        <2> SUFFICES ASSUME NEW s \in SUBSET S, Cardinality(s) = k + 1 PROVE s \in Q
            OBVIOUS
        <2>1. PICK x : x \in s
            BY <1>1, FS_EmptySet
        <2>2. Cardinality(s \ {x}) = Cardinality(s) - 1
            BY <1>1, <2>1, FS_RemoveElement
        <2>3. Cardinality(s \ {x}) = k
            BY <2>2
        <2>4. s \ {x} \in SUBSET S /\ x \in S \ (s \ {x}) /\ s = (s \ {x}) \cup {x}
            BY <2>1
        <2>5. s \ {x} \in Q
            BY <1>3, <2>3, <2>4
        <2> QED
            BY <2>4, <2>5
    <1> HIDE DEF T
    <1>4. Nat \subseteq T
        BY <1>2, <1>3, Induction
    <1> QED
        BY <1>1, <1>4 DEF T

Adds(S, f, it) ==
    \A s \in SUBSET S : /\ it[s] \in Nat
                        /\ s = {} => it[s] = 0
                        /\ \A x \in s : it[s] = f[x] + it[s \ {x}]

\* A sum does not depend on the order.
LEMMA SumStep ==
    ASSUME NEW S, IsFiniteSet(S), NEW f, \A i \in S : f[i] \in Nat, NEW it, IsSum(S, f, it)
    PROVE  Adds(S, f, it)
    <1> DEFINE Fine(s) == /\ it[s] \in Nat
                          /\ s = {} => it[s] = 0
                          /\ \A x \in s : it[s] = f[x] + it[s \ {x}]
               T == {k \in Nat : \A s \in SUBSET S : Cardinality(s) <= k => Fine(s)}
    <1>1. \A s \in SUBSET S : IsFiniteSet(s) /\ Cardinality(s) \in Nat
        BY FS_Subset, FS_CardinalityType
    <1>2. \A s \in SUBSET S : it[s] = Summed(S, f, it, s)
        BY DEF IsSum
    <1>3. Fine({})
        <2>1. {} \in SUBSET S
            OBVIOUS
        <2>2. it[{}] = 0
            BY <1>2, <2>1 DEF Summed
        <2> QED
            BY <2>2
    <1>4. 0 \in T
        <2>1. \A s \in SUBSET S : Cardinality(s) <= 0 => s = {}
            BY <1>1, FS_EmptySet
        <2> HIDE DEF Fine
        <2> QED
            BY <1>3, <2>1
    <1>5. ASSUME NEW k \in Nat, k \in T PROVE k + 1 \in T
        <2> SUFFICES ASSUME NEW s \in SUBSET S, Cardinality(s) <= k + 1 PROVE Fine(s)
            OBVIOUS
        <2>1. \A r \in SUBSET S : Cardinality(r) <= k => Fine(r)
            BY <1>5
        <2>2. ASSUME NEW r \in SUBSET S, r \subseteq s, NEW x \in r
              PROVE  r \ {x} \in SUBSET S /\ Fine(r \ {x}) /\ f[x] \in Nat
            <3>1. r \ {x} \in SUBSET S /\ f[x] \in Nat
                OBVIOUS
            <3>2. Cardinality(r \ {x}) = Cardinality(r) - 1 /\ Cardinality(r) <= Cardinality(s)
                BY <1>1, <2>2, FS_RemoveElement, FS_Subset
            <3>3. Cardinality(r \ {x}) <= k
                BY <1>1, <3>1, <3>2
            <3> HIDE DEF Fine
            <3> QED
                BY <2>1, <3>1, <3>3
        <2>3. CASE s = {}
            BY <1>3, <2>3
        <2>4. CASE s # {}
            <3> DEFINE y == CHOOSE y \in s : TRUE
            <3>1. y \in s /\ it[s] = f[y] + it[s \ {y}]
                BY <1>2, <2>4 DEF Summed
            <3> HIDE DEF y
            <3>2. it[s \ {y}] \in Nat /\ f[y] \in Nat
                BY <2>2, <3>1
            <3>3. ASSUME NEW x \in s, x # y PROVE it[s] = f[x] + it[s \ {x}]
                <4>1. it[s \ {y}] = f[x] + it[(s \ {y}) \ {x}]
                    BY <2>2, <3>1, <3>3
                <4>2. it[s \ {x}] = f[y] + it[(s \ {x}) \ {y}]
                    BY <2>2, <3>1, <3>3
                <4>3. (s \ {y}) \ {x} = (s \ {x}) \ {y}
                    OBVIOUS
                <4>4. it[(s \ {x}) \ {y}] \in Nat /\ f[x] \in Nat
                    <5>1. s \ {x} \in SUBSET S /\ s \ {x} \subseteq s /\ y \in s \ {x}
                        BY <3>1, <3>3
                    <5> QED
                        BY <2>2, <5>1
                <4> QED
                    BY <3>1, <3>2, <4>1, <4>2, <4>3, <4>4
            <3>4. \A x \in s : it[s] = f[x] + it[s \ {x}]
                BY <3>1, <3>3
            <3>5. it[s] \in Nat
                BY <3>1, <3>2
            <3> QED
                BY <2>4, <3>4, <3>5
        <2> QED
            BY <2>3, <2>4
    <1> HIDE DEF T
    <1>6. Nat \subseteq T
        BY <1>4, <1>5, Induction
    <1>7. \A s \in SUBSET S : Cardinality(s) \in T /\ Cardinality(s) <= Cardinality(s)
        BY <1>1, <1>6
    <1> QED
        BY <1>7 DEF T, Adds

LEMMA SumsAgree ==
    ASSUME NEW S, IsFiniteSet(S), NEW R \in SUBSET S, NEW f, \A i \in S : f[i] \in Nat,
           NEW it, IsSum(S, f, it), NEW jt, IsSum(R, f, jt)
    PROVE  \A s \in SUBSET R : it[s] = jt[s]
    <1> DEFINE Q == {s \in SUBSET R : it[s] = jt[s]}
    <1>1. IsFiniteSet(R) /\ \A i \in R : f[i] \in Nat
        BY FS_Subset
    <1>2. Adds(S, f, it)
        BY SumStep
    <1>3. Adds(R, f, jt)
        BY <1>1, SumStep
    <1>4. {} \in Q
        BY <1>2, <1>3 DEF Adds
    <1>5. ASSUME NEW s \in SUBSET R, NEW x \in R \ s, s \in Q PROVE s \cup {x} \in Q
        <2>1. (s \cup {x}) \ {x} = s /\ s \cup {x} \in SUBSET R /\ s \cup {x} \in SUBSET S
            OBVIOUS
        <2>2. it[s \cup {x}] = f[x] + it[s]
            BY <1>2, <2>1 DEF Adds
        <2>3. jt[s \cup {x}] = f[x] + jt[s]
            BY <1>3, <2>1 DEF Adds
        <2> QED
            BY <1>5, <2>1, <2>2, <2>3
    <1> HIDE DEF Q
    <1>6. \A s \in SUBSET R : s \in Q
        BY <1>1, <1>4, <1>5, SetInduction
    <1> QED
        BY <1>6 DEF Q

LEMMA TotalAdds ==
    ASSUME NEW S, IsFiniteSet(S), NEW f, \A i \in S : f[i] \in Nat
    PROVE  /\ Total({}, f) = 0
           /\ \A s \in SUBSET S :
                  /\ Total(s, f) \in Nat
                  /\ \A x \in s : Total(s, f) = f[x] + Total(s \ {x}, f)
    <1>1. PICK it : IsSum(S, f, it)
        BY SumExists
    <1>2. ASSUME NEW s \in SUBSET S PROVE Total(s, f) = it[s]
        <2>1. IsFiniteSet(s) /\ \A i \in s : f[i] \in Nat
            BY FS_Subset
        <2> DEFINE jt == CHOOSE jt : IsSum(s, f, jt)
        <2>2. IsSum(s, f, jt)
            BY <2>1, SumExists
        <2>3. Total(s, f) = jt[s]
            BY DEF Total
        <2> HIDE DEF jt
        <2>4. it[s] = jt[s]
            BY <1>1, <2>2, SumsAgree
        <2> QED
            BY <2>3, <2>4
    <1>3. Adds(S, f, it)
        BY <1>1, SumStep
    <1>4. {} \in SUBSET S /\ \A s \in SUBSET S : \A x \in s : s \ {x} \in SUBSET S
        OBVIOUS
    <1> QED
        BY <1>2, <1>3, <1>4 DEF Adds

LEMMA TotalUnion ==
    ASSUME NEW S, IsFiniteSet(S), NEW f, \A i \in S : f[i] \in Nat,
           NEW a \in SUBSET S, NEW b \in SUBSET S, a \cap b = {}
    PROVE  Total(a \cup b, f) = Total(a, f) + Total(b, f)
    <1> DEFINE Q == {s \in SUBSET b : Total(a \cup s, f) = Total(a, f) + Total(s, f)}
    <1>1. \A s \in SUBSET S : Total(s, f) \in Nat
        BY TotalAdds
    <1>2. Total({}, f) = 0
        BY TotalAdds
    <1>3. {} \in Q
        <2>1. a \cup {} = a
            OBVIOUS
        <2> QED
            BY <1>1, <1>2, <2>1
    <1>4. ASSUME NEW s \in SUBSET b, NEW x \in b \ s, s \in Q PROVE s \cup {x} \in Q
        <2> DEFINE t == s \cup {x}
                   u == a \cup t
        <2>1. /\ t \ {x} = s /\ t \in SUBSET S /\ x \in t
              /\ u \ {x} = a \cup s /\ u \in SUBSET S /\ x \in u
              /\ t \in SUBSET b /\ s \in SUBSET S
            OBVIOUS
        <2> HIDE DEF t, u
        <2>2. Total(t, f) = f[x] + Total(s, f)
            BY <2>1, TotalAdds
        <2>3. Total(u, f) = f[x] + Total(a \cup s, f)
            BY <2>1, TotalAdds
        <2>4. Total(a \cup s, f) = Total(a, f) + Total(s, f)
            BY <1>4
        <2>5. Total(a, f) \in Nat /\ Total(s, f) \in Nat /\ f[x] \in Nat
            BY <1>1, <2>1
        <2>6. Total(u, f) = Total(a, f) + Total(t, f)
            BY <2>2, <2>3, <2>4, <2>5
        <2> QED
            BY <2>1, <2>6 DEF t, u
    <1> HIDE DEF Q
    <1>5. IsFiniteSet(b)
        BY FS_Subset
    <1>6. b \in Q
        <2>1. \A s \in SUBSET b : s \in Q
            BY <1>3, <1>4, <1>5, SetInduction
        <2> QED
            BY <2>1
    <1> QED
        BY <1>6 DEF Q

LEMMA TotalLeq ==
    ASSUME NEW S, IsFiniteSet(S), NEW f, NEW g,
           \A i \in S : f[i] \in Nat /\ g[i] \in Nat /\ f[i] <= g[i]
    PROVE  Total(S, f) <= Total(S, g)
    <1> DEFINE Q == {s \in SUBSET S : Total(s, f) <= Total(s, g)}
    <1>1. /\ Total({}, f) = 0
          /\ \A s \in SUBSET S : /\ Total(s, f) \in Nat
                                /\ \A x \in s : Total(s, f) = f[x] + Total(s \ {x}, f)
        BY TotalAdds
    <1>2. /\ Total({}, g) = 0
          /\ \A s \in SUBSET S : /\ Total(s, g) \in Nat
                                /\ \A x \in s : Total(s, g) = g[x] + Total(s \ {x}, g)
        BY TotalAdds
    <1>3. {} \in Q
        BY <1>1, <1>2
    <1>4. ASSUME NEW s \in SUBSET S, NEW x \in S \ s, s \in Q PROVE s \cup {x} \in Q
        <2> DEFINE t == s \cup {x}
        <2>1. t \ {x} = s /\ t \in SUBSET S /\ x \in t
            OBVIOUS
        <2> HIDE DEF t
        <2>2. Total(t, f) = f[x] + Total(s, f) /\ Total(t, g) = g[x] + Total(s, g)
            BY <1>1, <1>2, <2>1
        <2>3. Total(s, f) \in Nat /\ Total(s, g) \in Nat /\ Total(s, f) <= Total(s, g)
            BY <1>1, <1>2, <1>4
        <2>4. f[x] \in Nat /\ g[x] \in Nat /\ f[x] <= g[x]
            OBVIOUS
        <2>5. Total(t, f) <= Total(t, g)
            BY <2>2, <2>3, <2>4
        <2> QED
            BY <2>1, <2>5 DEF t
    <1> HIDE DEF Q
    <1>5. \A s \in SUBSET S : s \in Q
        BY <1>3, <1>4, SetInduction
    <1> QED
        BY <1>5 DEF Q

LEMMA TotalScaled ==
    ASSUME NEW S, IsFiniteSet(S), NEW K \in Nat, NEW f, NEW g,
           \A i \in S : f[i] \in Nat /\ g[i] = f[i] * K
    PROVE  Total(S, g) = Total(S, f) * K
    <1> DEFINE Q == {s \in SUBSET S : Total(s, g) = Total(s, f) * K}
    <1>1. /\ Total({}, f) = 0
          /\ \A s \in SUBSET S : /\ Total(s, f) \in Nat
                                /\ \A x \in s : Total(s, f) = f[x] + Total(s \ {x}, f)
        BY TotalAdds
    <1>2. \A i \in S : g[i] \in Nat
        BY Scales
    <1>3. /\ Total({}, g) = 0
          /\ \A s \in SUBSET S : /\ Total(s, g) \in Nat
                                /\ \A x \in s : Total(s, g) = g[x] + Total(s \ {x}, g)
        BY <1>2, TotalAdds
    <1>4. {} \in Q
        BY <1>1, <1>3
    <1>5. ASSUME NEW s \in SUBSET S, NEW x \in S \ s, s \in Q PROVE s \cup {x} \in Q
        <2> DEFINE t == s \cup {x}
        <2>1. t \ {x} = s /\ t \in SUBSET S /\ x \in t
            OBVIOUS
        <2> HIDE DEF t
        <2>2. Total(t, f) = f[x] + Total(s, f) /\ Total(t, g) = g[x] + Total(s, g)
            BY <1>1, <1>3, <2>1
        <2>3. Total(s, f) \in Nat /\ f[x] \in Nat /\ g[x] = f[x] * K
              /\ Total(s, g) = Total(s, f) * K
            BY <1>1, <1>5
        <2>4. (f[x] + Total(s, f)) * K = f[x] * K + Total(s, f) * K
            BY <2>3
        <2>5. Total(t, g) = Total(t, f) * K
            BY <2>2, <2>3, <2>4
        <2> QED
            BY <2>1, <2>5 DEF t
    <1> HIDE DEF Q
    <1>6. \A s \in SUBSET S : s \in Q
        BY <1>4, <1>5, SetInduction
    <1> QED
        BY <1>6 DEF Q

LEMMA TotalSame ==
    ASSUME NEW S, IsFiniteSet(S), NEW f, NEW g, \A i \in S : f[i] \in Nat /\ f[i] = g[i]
    PROVE  Total(S, f) = Total(S, g)
    <1>1. \A i \in S : f[i] <= g[i] /\ g[i] <= f[i] /\ g[i] \in Nat
        OBVIOUS
    <1>2. Total(S, f) \in Nat /\ Total(S, g) \in Nat
        BY <1>1, TotalNat
    <1>3. Total(S, f) <= Total(S, g) /\ Total(S, g) <= Total(S, f)
        BY <1>1, TotalLeq
    <1> QED
        BY <1>2, <1>3

\* What is at most as much in every cell is so in all.
LEMMA CellByCell ==
    ASSUME NEW D, IsFiniteSet(D), NEW f, NEW g, \A i \in D : f[i] \in Nat /\ g[i] \in Nat,
           NEW C, IsFiniteSet(C), NEW a \in [D -> C],
           \A c \in C : Total({i \in D : a[i] = c}, f) <= Total({i \in D : a[i] = c}, g)
    PROVE  Total(D, f) <= Total(D, g)
    <1> DEFINE In(s) == {i \in D : a[i] \in s}
               Q == {s \in SUBSET C : Total(In(s), f) <= Total(In(s), g)}
    <1>1. /\ Total({}, f) = 0 /\ Total({}, g) = 0
          /\ \A s \in SUBSET D : Total(s, f) \in Nat /\ Total(s, g) \in Nat
        BY TotalAdds
    <1>2. {} \in Q
        <2>1. In({}) = {}
            OBVIOUS
        <2> HIDE DEF In
        <2> QED
            BY <1>1, <2>1
    <1>3. ASSUME NEW s \in SUBSET C, NEW c \in C \ s, s \in Q PROVE s \cup {c} \in Q
        <2> DEFINE A == In(s)
                   B == {i \in D : a[i] = c}
        <2>1. A \in SUBSET D /\ B \in SUBSET D /\ A \cap B = {} /\ In(s \cup {c}) = A \cup B
            OBVIOUS
        <2>2. Total(A, f) <= Total(A, g) /\ Total(B, f) <= Total(B, g)
            BY <1>3
        <2> HIDE DEF A, B
        <2>3. Total(A \cup B, f) = Total(A, f) + Total(B, f)
            BY <2>1, TotalUnion
        <2>4. Total(A \cup B, g) = Total(A, g) + Total(B, g)
            BY <2>1, TotalUnion
        <2>5. /\ Total(A, f) \in Nat /\ Total(B, f) \in Nat
              /\ Total(A, g) \in Nat /\ Total(B, g) \in Nat
            BY <1>1, <2>1
        <2>6. Total(A \cup B, f) <= Total(A \cup B, g)
            BY <2>2, <2>3, <2>4, <2>5
        <2> HIDE DEF In
        <2> QED
            BY <2>1, <2>6
    <1>4. In(C) = D
        OBVIOUS
    <1> HIDE DEF In, Q
    <1>5. C \in Q
        <2>1. \A s \in SUBSET C : s \in Q
            BY <1>2, <1>3, SetInduction
        <2> QED
            BY <2>1
    <1> QED
        BY <1>4, <1>5 DEF Q

-----------------------------------------------------------------------------
(* Training.                                                               *)

KInv ==
    /\ phase \in {"none", "seed", "assign", "update", "done"}
    /\ data \in Seq(Nat) /\ centroids \in Seq(Centroid)
    /\ assigned \in [DOMAIN data -> Cell]
    /\ iteration \in 0 .. MaxIter
    /\ Len(centroids) <= Cells
    /\ phase = "none" => centroids = <<>> /\ iteration = 0
    /\ phase # "none" => data \in Trainings /\ Len(data) > 0
    /\ phase = "seed" => Len(centroids) < Cells /\ iteration = 0
    /\ phase \in {"assign", "update", "done"} => Len(centroids) = Cells
    /\ phase = "assign" => iteration < MaxIter
    /\ phase \in {"update", "done"} => iteration > 0

\* What the centroids and cells are at each point: before the first assignment
\* all vectors are said to be in cell 1, before a later one the centroids are the
\* means of the cells that are not empty.
MInv ==
    /\ phase = "seed" \/ (phase = "assign" /\ iteration = 0) =>
           \A i \in DOMAIN data : assigned[i] = 1
    /\ phase = "assign" /\ iteration > 0 =>
           \A c \in Cell \ Empty : centroids[c] = MeanOf(Members(c))

LEMMA MeanIs ==
    ASSUME KInv, NEW c \in Cell \ Empty
    PROVE  MeanOf(Members(c)) \in Centroid
    <1> DEFINE S == Members(c)
    <1>1. S \in SUBSET (1 .. Len(data)) /\ Len(data) \in Nat /\ \A i \in S : data[i] \in Nat
        BY DEF KInv, Members
    <1>2. S # {}
        BY DEF Empty
    <1> HIDE DEF S
    <1>3. IsFiniteSet(S) /\ Cardinality(S) \in Nat
        BY <1>1, FiniteNodes
    <1>4. Cardinality(S) # 0
        BY <1>2, <1>3, FS_EmptySet
    <1>5. MeanOf(S) = [sum |-> Total(S, data), count |-> Cardinality(S)]
        BY DEF MeanOf, MapThenSumSet, MapThenFoldSet, Total, IsSum, Summed
    <1>6. Total(S, data) \in Nat
        BY <1>1, <1>3, TotalNat
    <1> QED
        BY <1>3, <1>4, <1>5, <1>6 DEF Centroid, S

LEMMA AtIs == \A p \in Nat : At(p) \in Centroid
    BY DEF At, Centroid

LEMMA SameMeans ==
    ASSUME data' = data, assigned' = assigned
    PROVE  /\ \A c : Members(c)' = Members(c)
           /\ \A c : MeanOf(Members(c))' = MeanOf(Members(c))
           /\ Empty' = Empty
    <1>1. \A c : Members(c)' = Members(c)
        BY DEF Members
    <1>2. \A c : MeanOf(Members(c))' = MeanOf(Members(c))
        BY <1>1 DEF MeanOf, MapThenSumSet, MapThenFoldSet
    <1>3. Empty' = Empty
        BY DEF Empty, Members
    <1> QED
        BY <1>1, <1>2, <1>3

LEMMA BeginSteps ==
    ASSUME KInv, MInv, NEW set \in Trainings, Begin(set)
    PROVE  KInv' /\ MInv'
    <1>1. set \in Seq(Nat) /\ Len(set) >= Cells /\ Cells \in Nat \ {0} /\ 1 \in Cell
        BY KMeansAssumption DEF Cell
    <1>2. /\ phase = "none" /\ phase' = "seed" /\ data' = set
          /\ assigned' = [i \in DOMAIN set |-> 1]
          /\ centroids' = <<>> /\ iteration' = 0
        BY DEF Begin, KInv
    <1>3. assigned' \in [DOMAIN set -> Cell] /\ \A i \in DOMAIN set : assigned'[i] = 1
        BY <1>1, <1>2
    <1>4. KInv'
        BY <1>1, <1>2, <1>3 DEF KInv
    <1>5. MInv'
        BY <1>2, <1>3 DEF MInv
    <1> QED
        BY <1>4, <1>5

LEMMA SeedSteps ==
    ASSUME KInv, MInv, Seed
    PROVE  KInv' /\ MInv'
    <1>1. PICK i \in DOMAIN data : centroids' = Append(centroids, At(data[i]))
        BY DEF Seed
    <1>2. /\ phase = "seed" /\ data' = data /\ assigned' = assigned /\ iteration' = iteration
          /\ phase' = IF Len(centroids) + 1 = Cells THEN "assign" ELSE "seed"
        BY DEF Seed
    <1>3. /\ centroids \in Seq(Centroid) /\ Len(centroids) < Cells /\ iteration = 0
          /\ Cells \in Nat \ {0} /\ MaxIter \in Nat \ {0}
        BY <1>2, KMeansAssumption DEF KInv
    <1>4. At(data[i]) \in Centroid
        BY AtIs DEF KInv
    <1>5. centroids' \in Seq(Centroid) /\ Len(centroids') = Len(centroids) + 1
        BY <1>1, <1>3, <1>4
    <1>6. Len(centroids') <= Cells /\ (Len(centroids) + 1 # Cells => Len(centroids') < Cells)
        BY <1>3, <1>5
    <1>7. KInv'
        BY <1>2, <1>3, <1>5, <1>6 DEF KInv
    <1>8. MInv'
        BY <1>2, <1>3 DEF MInv, KInv
    <1> QED
        BY <1>7, <1>8

LEMMA AssignSteps ==
    ASSUME KInv, MInv, Assign
    PROVE  KInv' /\ MInv' /\ \A i \in DOMAIN data : assigned'[i] = NearestCentroid(data[i], centroids)
    <1>1. /\ phase = "assign" /\ data' = data /\ centroids' = centroids
          /\ iteration' = iteration + 1 /\ phase' \in {"update", "done"}
          /\ assigned' = [i \in DOMAIN data |-> NearestCentroid(data[i], centroids)]
        BY DEF Assign
    <1>2. /\ data \in Seq(Nat) /\ centroids \in Seq(Centroid) /\ Len(centroids) = Cells
          /\ Cells \in Nat \ {0} /\ iteration \in Nat /\ iteration < MaxIter /\ MaxIter \in Nat
        BY <1>1, KMeansAssumption DEF KInv
    <1>3. ASSUME NEW i \in DOMAIN data
          PROVE  NearestCentroid(data[i], centroids) \in Cell
        <2>1. data[i] \in Nat /\ DOMAIN centroids = Cell
            BY <1>2 DEF Cell
        <2> QED
            BY <1>2, <2>1, NearestCentroidIs
    <1>4. KInv'
        <2>1. assigned' \in [DOMAIN data -> Cell]
            BY <1>1, <1>3
        <2>2. iteration + 1 \in 0 .. MaxIter
            BY <1>2
        <2> QED
            BY <1>1, <1>2, <2>1, <2>2 DEF KInv
    <1>5. MInv'
        BY <1>1 DEF MInv
    <1> QED
        BY <1>1, <1>4, <1>5

LEMMA UpdateSteps ==
    ASSUME KInv, MInv, Update
    PROVE  KInv' /\ MInv'
    <1>1. PICK drawn \in [Empty -> DOMAIN data] :
              centroids' = [c \in Cell |-> IF c \in Empty THEN At(data[drawn[c]])
                                           ELSE MeanOf(Members(c))]
        BY DEF Update
    <1>2. /\ phase = "update" /\ data' = data /\ assigned' = assigned /\ iteration' = iteration
          /\ phase' = IF iteration = MaxIter THEN "done" ELSE "assign"
        BY DEF Update
    <1>3. Cells \in Nat \ {0} /\ Cell = 1 .. Cells /\ MaxIter \in Nat
        BY KMeansAssumption DEF Cell
    <1>4. ASSUME NEW c \in Cell
          PROVE  centroids'[c] \in Centroid /\ (c \notin Empty => centroids'[c] = MeanOf(Members(c)))
        <2>1. CASE c \in Empty
            <3>1. data[drawn[c]] \in Nat
                BY <1>1, <2>1 DEF KInv
            <3> QED
                BY <1>1, <2>1, <3>1, AtIs
        <2>2. CASE c \notin Empty
            BY <1>1, <2>2, MeanIs
        <2> QED
            BY <2>1, <2>2
    <1>5. centroids' \in Seq(Centroid) /\ Len(centroids') = Cells
        <2>1. DOMAIN centroids' = 1 .. Cells /\ centroids' = [c \in 1 .. Cells |-> centroids'[c]]
            BY <1>1, <1>3
        <2>2. centroids' \in [1 .. Cells -> Centroid]
            BY <1>3, <1>4, <2>1
        <2> QED
            BY <1>3, <2>2
    <1>6. KInv'
        BY <1>2, <1>3, <1>5 DEF KInv
    <1>7. MInv'
        <2>1. iteration > 0
            BY <1>2 DEF KInv
        <2>2. Empty' = Empty /\ \A c : MeanOf(Members(c))' = MeanOf(Members(c))
            BY <1>2, SameMeans
        <2> QED
            BY <1>2, <1>4, <2>1, <2>2 DEF MInv
    <1> QED
        BY <1>6, <1>7

\* Nothing moves in the last of the iterations that are not cut off.
LEMMA NothingMoves ==
    ASSUME KInv, Assign, phase' = "done", Len(data) <= Tol
    PROVE  {i \in DOMAIN data : assigned'[i] # assigned[i]} = {}
    <1> DEFINE nearest == [i \in DOMAIN data |-> NearestCentroid(data[i], centroids)]
               moved == {i \in DOMAIN data : nearest[i] # assigned[i]}
    <1>1. Cardinality(moved) * Tol < Len(data) /\ assigned' = nearest
        BY DEF Assign
    <1>2. moved \in SUBSET (1 .. Len(data)) /\ Len(data) \in Nat
        BY DEF KInv
    <1>3. moved = {}
        <2> HIDE DEF moved
        <2>1. IsFiniteSet(moved) /\ Cardinality(moved) \in Nat
            BY <1>2, FiniteNodes
        <2>2. Tol \in Nat
            BY DEF Tol
        <2>3. Cardinality(moved) = 0
            <3> SUFFICES ASSUME 1 <= Cardinality(moved) PROVE FALSE
                BY <2>1
            <3>1. 1 * Tol <= Cardinality(moved) * Tol /\ Cardinality(moved) * Tol \in Nat
                BY <2>1, <2>2, Scales
            <3> QED
                BY <1>1, <1>2, <2>2, <3>1
        <2> QED
            BY <2>1, <2>3, FS_EmptySet
    <1> QED
        BY <1>1, <1>3

LEMMA AssignTrains ==
    ASSUME KInv, MInv, Assign, {i \in DOMAIN data : assigned'[i] # assigned[i]} = {}
    PROVE  Trained'
    <1>1. /\ phase = "assign" /\ data' = data /\ centroids' = centroids /\ iteration' = iteration + 1
          /\ assigned' = [i \in DOMAIN data |-> NearestCentroid(data[i], centroids)]
        BY DEF Assign
    <1>2. assigned' = assigned
        <2>1. \A i \in DOMAIN data : assigned[i] = assigned'[i]
            OBVIOUS
        <2>2. assigned = [i \in DOMAIN data |-> assigned[i]]
            BY DEF KInv
        <2>3. assigned' = [i \in DOMAIN data |-> assigned'[i]]
            BY <1>1
        <2> QED
            BY <2>1, <2>2, <2>3
    <1>3. \A c : Members(c)' = Members(c)
        BY <1>1, <1>2, SameMeans
    <1>4. \A c : MeanOf(Members(c))' = MeanOf(Members(c))
        BY <1>1, <1>2, SameMeans
    <1>5. Empty' = Empty
        BY <1>1, <1>2, SameMeans
    <1>6. \A i \in DOMAIN data' : assigned'[i] = NearestCentroid(data'[i], centroids')
        BY <1>1
    <1>7. ASSUME iteration' = 1 PROVE Members(1)' = DOMAIN data'
        <2>1. iteration = 0
            BY <1>1, <1>7 DEF KInv
        <2>2. \A i \in DOMAIN data : assigned[i] = 1
            BY <1>1, <2>1 DEF MInv
        <2>3. Members(1) = DOMAIN data
            BY <2>2 DEF Members
        <2> QED
            BY <1>1, <1>3, <2>3
    <1>8. ASSUME iteration' > 1, NEW c \in Cell \ Empty'
           PROVE  MeanOf(Members(c))' = centroids'[c]
        <2>1. iteration > 0
            BY <1>1, <1>8 DEF KInv
        <2> QED
            BY <1>1, <1>4, <1>5, <1>8, <2>1 DEF MInv
    <1>9. ASSUME iteration' > 1, NEW c \in Cell \ Empty'
           PROVE  MeanOf(Members(c))'.sum * centroids'[c].count
                      = centroids'[c].sum * MeanOf(Members(c))'.count
        BY <1>8, <1>9
    <1> QED
        BY <1>6, <1>7, <1>9 DEF Trained

\* A step of the index, as the training sees it.
LEMMA NextTrains ==
    [Next]_vars =>
        \/ \E set \in Trainings : Begin(set)
        \/ Seed \/ Assign \/ Update
        \/ Reset
        \/ UNCHANGED training
    BY DEF Next, Train, Iterate, KMeansNext, Adopt, Insert, SaveMeta, SaveCell, Reopen, vars

\* Unless it was cut off, or one vector in ten thousand is allowed to move.
DInv == (\A set \in Trainings : Len(set) <= Tol) => (iteration < MaxIter => Trained)

LEMMA InitKInv == Init => KInv /\ MInv /\ DInv
    <1> SUFFICES ASSUME Init PROVE KInv /\ MInv /\ DInv
        OBVIOUS
    <1>1. /\ phase = "none" /\ data = <<>> /\ centroids = <<>> /\ assigned = <<>> /\ iteration = 0
        BY DEF Init, KMeansInit
    <1>2. MaxIter \in Nat \ {0} /\ Cells \in Nat \ {0}
        BY KMeansAssumption
    <1>3. assigned \in [DOMAIN data -> Cell]
        <2>1. DOMAIN data = {} /\ DOMAIN assigned = {} /\ assigned = [i \in {} |-> assigned[i]]
            BY <1>1
        <2> QED
            BY <2>1
    <1> QED
        BY <1>1, <1>2, <1>3 DEF KInv, MInv, DInv, Trained

LEMMA NextKInv == KInv /\ MInv /\ DInv /\ [Next]_vars => KInv' /\ MInv' /\ DInv'
    <1> SUFFICES ASSUME KInv, MInv, DInv, [Next]_vars PROVE KInv' /\ MInv' /\ DInv'
        OBVIOUS
    <1>1. CASE \E set \in Trainings : Begin(set)
        <2>1. KInv' /\ MInv'
            BY <1>1, BeginSteps
        <2>2. phase' = "seed"
            BY <1>1 DEF Begin
        <2> QED
            BY <2>1, <2>2 DEF DInv, Trained
    <1>2. CASE Seed
        <2>1. KInv' /\ MInv'
            BY <1>2, SeedSteps
        <2>2. phase' # "done"
            BY <1>2 DEF Seed
        <2> QED
            BY <2>1, <2>2 DEF DInv, Trained
    <1>3. CASE Assign
        <2>1. KInv' /\ MInv'
            BY <1>3, AssignSteps
        <2>2. data \in Trainings
            BY <1>3 DEF Assign, KInv
        <2>3. (\A set \in Trainings : Len(set) <= Tol) => Trained'
            BY <1>3, <2>2, NothingMoves, AssignTrains DEF Trained
        <2> QED
            BY <2>1, <2>3 DEF DInv
    <1>4. CASE Update
        <2>1. KInv' /\ MInv'
            BY <1>4, UpdateSteps
        <2>2. phase' = "done" => iteration' = MaxIter
            BY <1>4 DEF Update
        <2>3. MaxIter \in Nat
            BY KMeansAssumption
        <2> QED
            BY <2>1, <2>2, <2>3 DEF DInv, Trained
    <1>5. CASE Reset
        <2>1. /\ phase' = "none" /\ data' = <<>> /\ centroids' = <<>> /\ assigned' = <<>>
              /\ iteration' = 0
            BY <1>5 DEF Reset
        <2>2. MaxIter \in Nat \ {0} /\ Cells \in Nat \ {0}
            BY KMeansAssumption
        <2>3. assigned' \in [DOMAIN data' -> Cell]
            <3>1. DOMAIN data' = {} /\ DOMAIN assigned' = {} /\ assigned' = [i \in {} |-> assigned'[i]]
                BY <2>1
            <3> QED
                BY <3>1
        <2> QED
            BY <2>1, <2>2, <2>3 DEF KInv, MInv, DInv, Trained
    <1>6. CASE UNCHANGED training
        <2>1. /\ phase' = phase /\ data' = data /\ centroids' = centroids
              /\ assigned' = assigned /\ iteration' = iteration
            BY <1>6 DEF training
        <2>2. Members(1)' = Members(1)
            BY <2>1, SameMeans
        <2>3. \A c : MeanOf(Members(c))' = MeanOf(Members(c))
            BY <2>1, SameMeans
        <2>4. Empty' = Empty
            BY <2>1, SameMeans
        <2>5. KInv'
            BY <2>1 DEF KInv
        <2>6. MInv'
            BY <2>1, <2>3, <2>4 DEF MInv
        <2>7. Trained => Trained'
            <3> SUFFICES ASSUME Trained, phase = "done" PROVE Trained'
                BY <2>1 DEF Trained
            <3>1. \A i \in DOMAIN data' : assigned'[i] = NearestCentroid(data'[i], centroids')
                BY <2>1 DEF Trained
            <3>2. iteration' = 1 => Members(1)' = DOMAIN data'
                BY <2>1, <2>2 DEF Trained
            <3>3. ASSUME iteration' > 1, NEW c \in Cell \ Empty'
                  PROVE  MeanOf(Members(c))'.sum * centroids'[c].count
                             = centroids'[c].sum * MeanOf(Members(c))'.count
                <4>1. MeanOf(Members(c)).sum * centroids[c].count
                          = centroids[c].sum * MeanOf(Members(c)).count
                    BY <2>1, <2>4, <3>3 DEF Trained
                <4> QED
                    BY <2>1, <2>3, <4>1
            <3> QED
                BY <3>1, <3>2, <3>3 DEF Trained
        <2> QED
            BY <2>1, <2>5, <2>6, <2>7 DEF DInv
    <1> QED
        BY <1>1, <1>2, <1>3, <1>4, <1>5, <1>6, NextTrains

-----------------------------------------------------------------------------
(* The inertia of a clustering, in whole numbers.                          *)

Square(n) == n * n

LEMMA SquareIs ==
    ASSUME NEW m \in Nat, NEW n \in Nat
    PROVE  /\ Square(m) \in Nat
           /\ m <= n => Square(m) <= Square(n)
    <1>1. m * m \in Nat
        BY Scales
    <1>2. ASSUME m <= n PROVE m * m <= n * n
        <2>1. m * m <= n * m /\ m * n <= n * n
            BY <1>2, Scales
        <2>2. n * m = m * n /\ n * m \in Nat /\ n * n \in Nat
            BY Scales
        <2> QED
            BY <1>1, <2>1, <2>2
    <1> QED
        BY <1>1, <1>2 DEF Square

LEMMA GapSquared ==
    ASSUME NEW m \in Nat, NEW n \in Nat
    PROVE  /\ Gap(m, n) \in Nat
           /\ Square(Gap(m, n)) + 2 * (n * m) = Square(m) + Square(n)
    <1>1. CASE m < n
        <2>1. PICK d \in Nat : n = m + d
            <3>1. n - m \in Nat /\ n = m + (n - m)
                BY <1>1
            <3> QED
                BY <3>1
        <2>2. Gap(m, n) = d
            BY <1>1, <2>1 DEF Gap
        <2>3. d * d + 2 * ((m + d) * m) = m * m + (m + d) * (m + d)
            OBVIOUS
        <2> QED
            BY <2>1, <2>2, <2>3 DEF Square
    <1>2. CASE ~(m < n)
        <2>1. PICK d \in Nat : m = n + d
            <3>1. m - n \in Nat /\ m = n + (m - n)
                BY <1>2
            <3> QED
                BY <3>1
        <2>2. Gap(m, n) = d
            BY <1>2, <2>1 DEF Gap
        <2>3. d * d + 2 * (n * (n + d)) = (n + d) * (n + d) + n * n
            OBVIOUS
        <2> QED
            BY <2>1, <2>2, <2>3 DEF Square
    <1> QED
        BY <1>1, <1>2

\* The squared distances of the numbers X from y.
Spread(S, X, y) == Total(S, [i \in S |-> Square(Gap(X[i], y))])
Squares(S, X) == Total(S, [i \in S |-> Square(X[i])])

LEMMA SpreadIs ==
    ASSUME NEW S, IsFiniteSet(S), NEW X, \A i \in S : X[i] \in Nat, NEW y \in Nat
    PROVE  /\ Spread(S, X, y) \in Nat /\ Squares(S, X) \in Nat
           /\ Spread(S, X, y) + 2 * (y * Total(S, X))
                  = Squares(S, X) + Cardinality(S) * Square(y)
    <1> DEFINE f == [i \in S |-> Square(Gap(X[i], y))]
               g == [i \in S |-> Square(X[i])]
               Q == {s \in SUBSET S : Total(s, f) + 2 * (y * Total(s, X))
                                          = Total(s, g) + Cardinality(s) * Square(y)}
    <1>1. ASSUME NEW i \in S
          PROVE  /\ f[i] \in Nat /\ g[i] \in Nat /\ X[i] \in Nat
                 /\ f[i] + 2 * (y * X[i]) = g[i] + Square(y)
        BY GapSquared, SquareIs
    <1>2. Spread(S, X, y) = Total(S, f) /\ Squares(S, X) = Total(S, g) /\ Square(y) \in Nat
        BY SquareIs DEF Spread, Squares
    <1> HIDE DEF f, g
    <1>3. /\ Total({}, f) = 0
          /\ \A s \in SUBSET S : /\ Total(s, f) \in Nat
                                /\ \A x \in s : Total(s, f) = f[x] + Total(s \ {x}, f)
        BY <1>1, TotalAdds
    <1>4. /\ Total({}, g) = 0
          /\ \A s \in SUBSET S : /\ Total(s, g) \in Nat
                                /\ \A x \in s : Total(s, g) = g[x] + Total(s \ {x}, g)
        BY <1>1, TotalAdds
    <1>5. /\ Total({}, X) = 0
          /\ \A s \in SUBSET S : /\ Total(s, X) \in Nat
                                /\ \A x \in s : Total(s, X) = X[x] + Total(s \ {x}, X)
        BY <1>1, TotalAdds
    <1>6. {} \in Q
        <2>1. Cardinality({}) = 0
            BY FS_EmptySet
        <2>2. 2 * (y * 0) = 0 /\ 0 * Square(y) = 0
            BY <1>2
        <2> QED
            BY <1>3, <1>4, <1>5, <2>1, <2>2
    <1>7. ASSUME NEW s \in SUBSET S, NEW x \in S \ s, s \in Q PROVE s \cup {x} \in Q
        <2> DEFINE t == s \cup {x}
                   c == Cardinality(s)
                   z == Square(y)
        <2>1. t \ {x} = s /\ t \in SUBSET S /\ x \in t /\ x \notin s
            OBVIOUS
        <2>2. IsFiniteSet(s) /\ c \in Nat
            BY FS_Subset, FS_CardinalityType
        <2>3. Cardinality(t) = c + 1
            BY <2>2, FS_AddElement
        <2>4. Total(s, f) + 2 * (y * Total(s, X)) = Total(s, g) + c * z
            BY <1>7
        <2> HIDE DEF t, c
        <2>5. /\ Total(t, f) = f[x] + Total(s, f) /\ Total(t, g) = g[x] + Total(s, g)
              /\ Total(t, X) = X[x] + Total(s, X)
            BY <1>3, <1>4, <1>5, <2>1
        <2>6. Total(s, f) \in Nat /\ Total(s, g) \in Nat /\ Total(s, X) \in Nat
            BY <1>3, <1>4, <1>5
        <2>7. /\ f[x] \in Nat /\ g[x] \in Nat /\ X[x] \in Nat
              /\ f[x] + 2 * (y * X[x]) = g[x] + z
            BY <1>1
        <2>8. z \in Nat
            BY <1>2
        <2> HIDE DEF z
        <2>9. y * (X[x] + Total(s, X)) = y * X[x] + y * Total(s, X)
              /\ y * X[x] \in Nat /\ y * Total(s, X) \in Nat
            BY <2>6, <2>7, Scales
        <2>10. (c + 1) * z = c * z + z /\ c * z \in Nat
            BY <2>2, <2>8, Scales
        <2>11. Total(t, f) + 2 * (y * Total(t, X)) = Total(t, g) + Cardinality(t) * z
            <3> DEFINE p == y * X[x]
                       r == y * Total(s, X)
                       w == c * z
                       fx == f[x]
                       gx == g[x]
                       fs == Total(s, f)
                       gs == Total(s, g)
            <3>1. /\ y * Total(t, X) = p + r /\ Cardinality(t) * z = w + z
                  /\ Total(t, f) = fx + fs /\ Total(t, g) = gx + gs
                BY <2>3, <2>5, <2>9, <2>10
            <3>2. fs + 2 * r = gs + w /\ fx + 2 * p = gx + z
                BY <2>4, <2>7
            <3>3. /\ p \in Nat /\ r \in Nat /\ w \in Nat /\ z \in Nat
                  /\ fx \in Nat /\ gx \in Nat /\ fs \in Nat /\ gs \in Nat
                BY <2>6, <2>7, <2>8, <2>9, <2>10
            <3> HIDE DEF p, r, w, fx, gx, fs, gs
            <3>4. (fx + fs) + 2 * (p + r) = (gx + gs) + (w + z)
                BY ONLY <3>2, <3>3
            <3> QED
                BY <3>1, <3>4
        <2> QED
            BY <2>1, <2>11 DEF t, z
    <1> HIDE DEF Q
    <1>8. S \in Q
        <2>1. \A s \in SUBSET S : s \in Q
            BY <1>6, <1>7, SetInduction
        <2> QED
            BY <2>1
    <1> QED
        BY <1>2, <1>3, <1>4, <1>8 DEF Q

\* Nothing is nearer to numbers than their mean.
LEMMA MeanIsBest ==
    ASSUME NEW S, IsFiniteSet(S), NEW X, \A i \in S : X[i] \in Nat, NEW m \in Nat, NEW y \in Nat,
           Total(S, X) = Cardinality(S) * m
    PROVE  Spread(S, X, m) <= Spread(S, X, y)
    <1> DEFINE n == Cardinality(S)
               A == Spread(S, X, m)
               B == Spread(S, X, y)
               Q == Squares(S, X)
               d == Gap(m, y)
    <1>1. n \in Nat
        BY FS_CardinalityType
    <1>2. A \in Nat /\ Q \in Nat /\ A + 2 * (m * (n * m)) = Q + n * Square(m)
        BY SpreadIs
    <1>3. B \in Nat /\ B + 2 * (y * (n * m)) = Q + n * Square(y)
        BY SpreadIs
    <1>4. d \in Nat /\ Square(d) + 2 * (y * m) = Square(m) + Square(y)
        BY GapSquared
    <1> HIDE DEF n, A, B, Q, d
    <1>5. /\ Square(m) \in Nat /\ Square(y) \in Nat /\ Square(d) \in Nat /\ y * m \in Nat
          /\ n * Square(m) \in Nat /\ n * Square(y) \in Nat /\ n * Square(d) \in Nat
          /\ n * (y * m) \in Nat
        BY <1>1, <1>4, SquareIs, Scales
    <1>6. n * (Square(d) + 2 * (y * m)) = n * Square(d) + 2 * (n * (y * m))
        BY <1>1, <1>5
    <1>7. n * (Square(m) + Square(y)) = n * Square(m) + n * Square(y)
        BY <1>1, <1>5
    <1>8. n * Square(d) + 2 * (n * (y * m)) = n * Square(m) + n * Square(y)
        BY <1>4, <1>6, <1>7
    <1>9. m * (n * m) = n * Square(m) /\ y * (n * m) = n * (y * m)
        BY <1>1 DEF Square
    <1> QED
        BY <1>2, <1>3, <1>5, <1>8, <1>9 DEF A, B

\* The product of the numbers in list, as FoldLeft defines it.
IsProduct(it, list) ==
    it = [s \in SUBSET DOMAIN list |->
             IF s = {} THEN 1 ELSE it[s \ {Max(s)}] * list[Max(s)]]

Product(list) == (CHOOSE it : IsProduct(it, list))[DOMAIN list]

Multiples(k) == {m \in Nat \ {0} : \E q \in Nat \ {0} : m = q * k}

LEMMA MultipleIs ==
    ASSUME NEW k \in Nat \ {0}, NEW n \in Nat \ {0}, NEW b \in Nat \ {0}
    PROVE  /\ b * n \in Nat \ {0} /\ b * n \in Multiples(n)
           /\ b \in Multiples(k) => b * n \in Multiples(k)
    <1>1. b * n \in Nat \ {0}
        <2>1. 0 * n < b * n /\ b * n \in Nat
            BY Scales
        <2> QED
            BY <2>1
    <1>2. ASSUME b \in Multiples(k) PROVE b * n \in Multiples(k)
        <2>1. PICK q \in Nat \ {0} : b = q * k
            BY <1>2 DEF Multiples
        <2>2. q * n \in Nat \ {0}
            <3>1. 0 * n < q * n /\ q * n \in Nat
                BY Scales
            <3> QED
                BY <3>1
        <2>3. b * n = (q * n) * k
            BY <2>1
        <2> QED
            BY <1>1, <2>2, <2>3 DEF Multiples
    <1> QED
        BY <1>1, <1>2 DEF Multiples

LEMMA ProductIs ==
    ASSUME NEW list \in Seq(Nat \ {0})
    PROVE  /\ Product(list) \in Nat \ {0}
           /\ \A i \in 1 .. Len(list) : Product(list) \in Multiples(list[i])
    <1> DEFINE n == Len(list)
               S == Nat \ {0}
               F == [b \in S |-> [i \in 1 .. n |-> b * list[i]]]
               P == [k \in Nat |-> {b \in S : \A i \in 1 .. n : i <= k => b \in Multiples(list[i])}]
    <1>1. n \in Nat /\ DOMAIN list = 1 .. n /\ \A i \in 1 .. n : list[i] \in S
        OBVIOUS
    <1>2. \A b \in S, i \in 1 .. n : b * list[i] \in S
        BY <1>1, MultipleIs
    <1>5. 1 \in S
        OBVIOUS
    <1>12. ASSUME NEW k \in 1 .. n, NEW b \in P[k - 1] PROVE b * list[k] \in P[k]
        <2>1. b \in S /\ list[k] \in S /\ k \in Nat /\ k - 1 \in Nat
              /\ \A i \in 1 .. n : i <= k - 1 => b \in Multiples(list[i])
            BY <1>1
        <2>2. ASSUME NEW i \in 1 .. n, i <= k PROVE b * list[k] \in Multiples(list[i])
            <3>1. CASE i = k
                BY <2>1, <3>1, MultipleIs
            <3>2. CASE i # k
                <4>1. i <= k - 1
                    BY <1>1, <2>1, <2>2, <3>2
                <4> QED
                    BY <1>1, <2>1, <4>1, MultipleIs
            <3> QED
                BY <3>1, <3>2
        <2> QED
            BY <1>2, <2>1, <2>2
    <1> HIDE DEF S, n, P
    <1>3. \A b \in S, i \in 1 .. n : F[b][i] = b * list[i]
        OBVIOUS
    <1> HIDE DEF F
    <1>4. Keeps(S, n, F)
        BY <1>2, <1>3 DEF Keeps
    <1>6. PICK fold : IsFold(fold, S, 1, n, F)
        BY <1>1, <1>4, <1>5, FoldExists
    <1>7. \A s \in SUBSET (1 .. n) : s # {} =>
              /\ Max(s) \in 1 .. n /\ s \ {Max(s)} \in SUBSET (1 .. n)
              /\ fold[s \ {Max(s)}] \in S
        <2> SUFFICES ASSUME NEW s \in SUBSET (1 .. n), s # {}
                     PROVE  Max(s) \in 1 .. n /\ fold[s \ {Max(s)}] \in S
            OBVIOUS
        <2>1. Max(s) \in s
            BY <1>1, MaxIn
        <2>2. s \ {Max(s)} \in SUBSET (1 .. n)
            OBVIOUS
        <2> QED
            BY <1>6, <2>1, <2>2 DEF IsFold
    <1>8. IsProduct(fold, list)
        <2>1. fold = [s \in SUBSET (1 .. n) |-> fold[s]]
            BY <1>6 DEF IsFold
        <2>2. \A s \in SUBSET (1 .. n) :
                  fold[s] = IF s = {} THEN 1 ELSE fold[s \ {Max(s)}] * list[Max(s)]
            BY <1>3, <1>6, <1>7 DEF IsFold
        <2> QED
            BY <1>1, <2>1, <2>2 DEF IsProduct
    <1> DEFINE it == CHOOSE it : IsProduct(it, list)
    <1>9. IsProduct(it, list)
        BY <1>8
    <1> HIDE DEF it
    <1>10. it[{}] \in P[0]
        <2>1. {} \in SUBSET (1 .. n)
            OBVIOUS
        <2>2. it[{}] = 1
            BY <1>1, <1>9, <2>1 DEF IsProduct
        <2>3. \A i \in 1 .. n : ~(i <= 0)
            BY <1>1
        <2> QED
            BY <1>5, <2>2, <2>3 DEF P
    <1>11. ASSUME NEW k \in 1 .. n, it[(1 .. k) \ {Max(1 .. k)}] \in P[k - 1]
           PROVE  it[1 .. k] \in P[k]
        <2> DEFINE last == it[(1 .. k) \ {Max(1 .. k)}]
        <2>1. 1 .. k \in SUBSET (1 .. n) /\ 1 .. k # {} /\ k \in Nat
            BY <1>1, Prefix
        <2>2. Max(1 .. k) = k
            BY <2>1, MaxOf
        <2>3. it[1 .. k] = last * list[k]
            BY <1>1, <1>9, <2>1, <2>2 DEF IsProduct
        <2>4. last \in P[k - 1]
            BY <1>11
        <2> HIDE DEF last
        <2> QED
            BY <1>12, <2>3, <2>4
    <1>13. it[1 .. n] \in P[n]
        BY <1>1, <1>10, <1>11, FoldStays
    <1>14. Product(list) \in P[n]
        BY <1>1, <1>13 DEF it, Product
    <1>15. Product(list) \in S /\ \A i \in 1 .. n : i <= n => Product(list) \in Multiples(list[i])
        BY <1>1, <1>14 DEF P
    <1>16. \A i \in 1 .. n : i <= n
        BY <1>1
    <1> QED
        BY <1>15, <1>16 DEF S, n

\* Where a centroid is, K times as far out as it is.
Position(K, c) == c.sum * (K \div c.count)

LEMMA ShareIs ==
    ASSUME NEW k \in Nat \ {0}, NEW K \in Multiples(k)
    PROVE  K \div k \in Nat \ {0} /\ k * (K \div k) = K /\ K \in Nat \ {0}
    <1>1. PICK q \in Nat \ {0} : K = q * k
        BY DEF Multiples
    <1>2. K \div k = q
        BY <1>1
    <1> QED
        BY <1>1, <1>2 DEF Multiples

LEMMA GapScaled ==
    ASSUME NEW m \in Nat, NEW n \in Nat, NEW k \in Nat
    PROVE  Gap(m, n) * k = Gap(m * k, n * k)
    <1>1. m * k \in Nat /\ n * k \in Nat
        BY Scales
    <1>2. CASE m < n
        <2>1. m * k <= n * k
            BY <1>2, Scales
        <2>2. (n - m) * k = n * k - m * k
            OBVIOUS
        <2>3. Gap(m * k, n * k) = n * k - m * k
            BY <1>1, <2>1 DEF Gap
        <2> QED
            BY <1>2, <2>2, <2>3 DEF Gap
    <1>3. CASE ~(m < n)
        <2>1. n * k <= m * k
            BY <1>3, Scales
        <2>2. (m - n) * k = m * k - n * k
            OBVIOUS
        <2>3. Gap(m * k, n * k) = m * k - n * k
            BY <1>1, <2>1 DEF Gap
        <2> QED
            BY <1>3, <2>2, <2>3 DEF Gap
    <1> QED
        BY <1>2, <1>3

LEMMA OffScaled ==
    ASSUME NEW p \in Nat, NEW c \in Centroid, NEW K \in Multiples(c.count)
    PROVE  /\ Position(K, c) \in Nat /\ p * K \in Nat
           /\ Off(p, c) * (K \div c.count) = Gap(p * K, Position(K, c))
    <1> DEFINE n == c.count
               k == K \div n
               z == c.sum
    <1>1. n \in Nat \ {0} /\ z \in Nat
        BY DEF Centroid
    <1>2. k \in Nat \ {0} /\ n * k = K /\ K \in Nat
        BY <1>1, ShareIs
    <1>3. Off(p, c) = Gap(p * n, z) /\ Position(K, c) = z * k
        BY DEF Off, Position
    <1> HIDE DEF n, k, z
    <1>4. p * n \in Nat /\ z * k \in Nat /\ p * K \in Nat
        BY <1>1, <1>2, Scales
    <1>5. Gap(p * n, z) * k = Gap((p * n) * k, z * k)
        BY ONLY <1>2, <1>4, <1>1, GapScaled
    <1>6. (p * n) * k = p * (n * k)
        BY <1>1, <1>2
    <1>7. Off(p, c) * k = Gap(p * K, Position(K, c))
        BY <1>2, <1>3, <1>5, <1>6
    <1> QED
        BY <1>3, <1>4, <1>7 DEF n, k

LEMMA NearerIs ==
    ASSUME NEW p \in Nat, NEW a \in Centroid, NEW b \in Centroid,
           NEW K \in Multiples(a.count) \cap Multiples(b.count), ~Closer(p, b, a)
    PROVE  Gap(p * K, Position(K, a)) <= Gap(p * K, Position(K, b))
    <1> DEFINE x == Off(p, a)
               y == Off(p, b)
               m == a.count
               n == b.count
               i == K \div m
               j == K \div n
    <1>1. x \in Nat /\ y \in Nat /\ m \in Nat \ {0} /\ n \in Nat \ {0}
        BY OffNat
    <1>2. /\ i \in Nat \ {0} /\ m * i = K /\ K \in Nat \ {0}
          /\ j \in Nat \ {0} /\ n * j = K
        BY <1>1, ShareIs
    <1>3. ~(y * m < x * n)
        BY DEF Closer
    <1>4. x * i = Gap(p * K, Position(K, a)) /\ y * j = Gap(p * K, Position(K, b))
        BY OffScaled
    <1> HIDE DEF x, y, m, n, i, j
    <1>5. y * m \in Nat /\ x * n \in Nat /\ x * i \in Nat /\ y * j \in Nat /\ i * j \in Nat
        BY <1>1, <1>2, Scales
    <1>6. x * n <= y * m
        BY <1>3, <1>5
    <1>7. (x * n) * (i * j) <= (y * m) * (i * j)
        BY <1>5, <1>6, Scales
    <1>8. (x * n) * (i * j) = (x * i) * (n * j) /\ (y * m) * (i * j) = (y * j) * (m * i)
        BY <1>1, <1>2
    <1>9. (x * i) * K <= (y * j) * K
        BY <1>2, <1>7, <1>8
    <1>10. ~(y * j < x * i)
        <2> SUFFICES ASSUME y * j < x * i PROVE FALSE
            OBVIOUS
        <2>1. (y * j) * K < (x * i) * K /\ (y * j) * K \in Nat /\ (x * i) * K \in Nat
            BY <1>2, <1>5, Scales
        <2> QED
            BY <1>9, <2>1
    <1>11. x * i <= y * j
        BY <1>5, <1>10
    <1> QED
        BY <1>4, <1>11

\* What each vector adds to the inertia.
Parts(K, seq) ==
    LET Part(i) == LET c == seq[NearestCentroid(data[i], seq)]
                   IN  Off(data[i], c) * (K \div c.count)
    IN  [i \in DOMAIN data |-> Part(i) * Part(i)]

\* The inertia, as a sum of whole numbers.
LEMMA InertiaIs ==
    ASSUME data \in Seq(Nat)
    PROVE  \E K \in Nat \ {0} :
               /\ \A k \in 1 .. Len(data) : K \in Multiples(k)
               /\ \A seq : Inertia(seq) = Total(DOMAIN data, Parts(K, seq))
    <1> DEFINE list == [n \in DOMAIN data |-> n]
               K == Product(list)
    <1>1. DOMAIN data = 1 .. Len(data) /\ Len(data) \in Nat
        OBVIOUS
    <1>2. list \in Seq(Nat \ {0}) /\ Len(list) = Len(data) /\ \A k \in 1 .. Len(data) : list[k] = k
        BY <1>1
    <1>3. K = FoldLeft(LAMBDA product, n : product * n, 1, list)
        BY DEF FoldLeft, MapThenFoldSet, IsProduct, Product
    <1>4. K \in Nat \ {0} /\ \A k \in 1 .. Len(data) : K \in Multiples(k)
        <2> HIDE DEF list
        <2>1. K \in Nat \ {0} /\ \A k \in 1 .. Len(list) : K \in Multiples(list[k])
            BY <1>2, ProductIs
        <2> QED
            BY <1>2, <2>1
    <1>5. ASSUME NEW seq
          PROVE  Inertia(seq) = Total(DOMAIN data, Parts(K, seq))
        <2>1. Inertia(seq)
                  = Total(DOMAIN data, Parts(FoldLeft(LAMBDA product, n : product * n, 1, list), seq))
            BY DEF Inertia, Parts, MapThenSumSet, MapThenFoldSet, Total, IsSum, Summed
        <2> QED
            BY <1>3, <2>1
    <1> QED
        BY <1>4, <1>5

\* The squared distance of a vector to a centroid.
Apart(K, p, c) == Square(Gap(p * K, Position(K, c)))

LEMMA ApartNat ==
    ASSUME NEW p \in Nat, NEW c \in Centroid, NEW K \in Multiples(c.count)
    PROVE  Apart(K, p, c) \in Nat
    <1>1. Position(K, c) \in Nat /\ p * K \in Nat
        BY OffScaled
    <1>2. Gap(p * K, Position(K, c)) \in Nat
        BY <1>1, GapSquared
    <1> QED
        BY <1>2, SquareIs DEF Apart

LEMMA PartsAre ==
    ASSUME data \in Seq(Nat), NEW seq \in Seq(Centroid), Len(seq) > 0,
           NEW K, \A c \in DOMAIN seq : K \in Multiples(seq[c].count), NEW i \in DOMAIN data
    PROVE  /\ Parts(K, seq)[i] = Apart(K, data[i], seq[NearestCentroid(data[i], seq)])
           /\ Parts(K, seq)[i] \in Nat
           /\ \A c \in DOMAIN seq : Parts(K, seq)[i] <= Apart(K, data[i], seq[c])
    <1> DEFINE p == data[i]
               n == NearestCentroid(p, seq)
    <1>1. p \in Nat
        OBVIOUS
    <1>2. n \in DOMAIN seq /\ \A d \in DOMAIN seq : ~Before(p, seq, d, n)
        BY <1>1, NearestCentroidIs
    <1>3. Parts(K, seq)[i] = (Off(p, seq[n]) * (K \div seq[n].count))
                                 * (Off(p, seq[n]) * (K \div seq[n].count))
        BY DEF Parts
    <1> HIDE DEF p, n
    <1>4. \A c \in DOMAIN seq : seq[c] \in Centroid /\ K \in Multiples(seq[c].count)
        OBVIOUS
    <1>5. Off(p, seq[n]) * (K \div seq[n].count) = Gap(p * K, Position(K, seq[n]))
        BY <1>1, <1>2, <1>4, OffScaled
    <1>6. Parts(K, seq)[i] = Apart(K, p, seq[n])
        BY <1>3, <1>5 DEF Apart, Square
    <1>7. ASSUME NEW c \in DOMAIN seq
          PROVE  Apart(K, p, seq[n]) <= Apart(K, p, seq[c])
        <2>1. ~Closer(p, seq[c], seq[n])
            BY <1>2 DEF Before
        <2>2. seq[n] \in Centroid /\ seq[c] \in Centroid
              /\ K \in Multiples(seq[n].count) \cap Multiples(seq[c].count)
            BY <1>2, <1>4
        <2>3. Gap(p * K, Position(K, seq[n])) <= Gap(p * K, Position(K, seq[c]))
            BY <1>1, <2>1, <2>2, NearerIs
        <2>4. Position(K, seq[n]) \in Nat /\ Position(K, seq[c]) \in Nat /\ p * K \in Nat
            BY <1>1, <2>2, OffScaled
        <2>5. Gap(p * K, Position(K, seq[n])) \in Nat /\ Gap(p * K, Position(K, seq[c])) \in Nat
            BY <2>4, GapSquared
        <2> QED
            BY <2>3, <2>5, SquareIs DEF Apart
    <1>8. Apart(K, p, seq[n]) \in Nat
        BY <1>1, <1>2, <1>4, ApartNat
    <1> QED
        BY <1>6, <1>7, <1>8 DEF p, n

\* No centroid is nearer to the vectors of a cell than their mean.
LEMMA MeanWins ==
    ASSUME data \in Seq(Nat), NEW S \in SUBSET DOMAIN data, S # {},
           NEW K, \A k \in 1 .. Len(data) : K \in Multiples(k),
           NEW c \in Centroid, c.count <= Len(data), NEW f, NEW g,
           \A i \in S : /\ f[i] = Apart(K, data[i], MeanOf(S))
                        /\ g[i] = Apart(K, data[i], c)
    PROVE  Total(S, f) <= Total(S, g)
    <1> DEFINE n == Cardinality(S)
               X == [i \in S |-> data[i] * K]
               m == Position(K, MeanOf(S))
               y == Position(K, c)
               q == K \div n
    <1>1. /\ IsFiniteSet(S) /\ n \in Nat \ {0} /\ n <= Len(data)
          /\ Len(data) \in Nat /\ \A i \in S : data[i] \in Nat
        <2>1. S \in SUBSET (1 .. Len(data)) /\ Len(data) \in Nat /\ \A i \in S : data[i] \in Nat
            OBVIOUS
        <2>2. IsFiniteSet(S) /\ n \in Nat /\ n <= Len(data)
            BY <2>1, Counted
        <2>3. n # 0
            BY <2>2, FS_EmptySet
        <2> QED
            BY <2>1, <2>2, <2>3
    <1>2. MeanOf(S) = [sum |-> Total(S, data), count |-> n]
        BY DEF MeanOf, MapThenSumSet, MapThenFoldSet, Total, IsSum, Summed
    <1>3. Total(S, data) \in Nat
        BY <1>1, TotalNat
    <1>4. MeanOf(S) \in Centroid /\ MeanOf(S).count = n /\ MeanOf(S).sum = Total(S, data)
        BY <1>1, <1>2, <1>3 DEF Centroid
    <1>5. K \in Multiples(n) /\ K \in Multiples(c.count)
        <2>1. n \in 1 .. Len(data) /\ c.count \in 1 .. Len(data)
            BY <1>1 DEF Centroid
        <2> QED
            BY <2>1
    <1>6. q \in Nat \ {0} /\ n * q = K /\ K \in Nat
        BY <1>1, <1>5, ShareIs
    <1>7. m = Total(S, data) * q
        BY <1>4 DEF Position
    <1>8. m \in Nat /\ y \in Nat
        <2>1. 0 \in Nat
            OBVIOUS
        <2> QED
            BY <1>4, <1>5, <2>1, OffScaled
    <1>9. \A i \in S : X[i] = data[i] * K /\ X[i] \in Nat
        BY <1>1, <1>6, Scales
    <1> HIDE DEF X, q, n
    <1>10. Total(S, X) = Total(S, data) * K
        BY <1>1, <1>6, <1>9, TotalScaled
    <1>11. Total(S, X) = n * m
        <2> DEFINE z == Total(S, data)
        <2>1. z \in Nat
            BY <1>3
        <2> HIDE DEF z
        <2>2. z * (n * q) = n * (z * q)
            BY <1>1, <1>6, <2>1
        <2> QED
            BY <1>6, <1>7, <1>10, <2>2 DEF z
    <1>12. \A i \in S : f[i] = Square(Gap(X[i], m)) /\ g[i] = Square(Gap(X[i], y))
        BY <1>9 DEF Apart
    <1> HIDE DEF m, y
    <1>13. \A i \in S : f[i] \in Nat /\ g[i] \in Nat
        BY <1>8, <1>9, <1>12, GapSquared, SquareIs
    <1>14. Spread(S, X, m) <= Spread(S, X, y)
        BY <1>1, <1>8, <1>9, <1>11, MeanIsBest DEF n
    <1> DEFINE F == [i \in S |-> Square(Gap(X[i], m))]
               G == [i \in S |-> Square(Gap(X[i], y))]
    <1>15. Spread(S, X, m) = Total(S, F) /\ Spread(S, X, y) = Total(S, G)
        BY DEF Spread
    <1>16. \A i \in S : f[i] = F[i] /\ g[i] = G[i]
        BY <1>12
    <1> HIDE DEF F, G
    <1>17. Total(S, f) = Total(S, F)
        BY <1>1, <1>13, <1>16, TotalSame
    <1>18. Total(S, g) = Total(S, G)
        BY <1>1, <1>13, <1>16, TotalSame
    <1> QED
        BY <1>14, <1>15, <1>17, <1>18

\* What InertiaFalls needs of a state.
NInv ==
    /\ \A c \in DOMAIN centroids : centroids[c].count <= Len(data)
    /\ phase = "update" => \A i \in DOMAIN data : assigned[i] = NearestCentroid(data[i], centroids)

LEMMA UpdateNInv ==
    ASSUME KInv, NInv, Update
    PROVE  \A c \in Cell :
               /\ centroids'[c].count <= Len(data)
               /\ c \notin Empty => centroids'[c] = MeanOf(Members(c))
    <1>1. PICK drawn \in [Empty -> DOMAIN data] :
              centroids' = [c \in Cell |-> IF c \in Empty THEN At(data[drawn[c]])
                                           ELSE MeanOf(Members(c))]
        BY DEF Update
    <1>2. data \in Seq(Nat) /\ Len(data) > 0 /\ Len(data) \in Nat
        BY DEF Update, KInv
    <1> SUFFICES ASSUME NEW c \in Cell
                 PROVE  /\ centroids'[c].count <= Len(data)
                        /\ c \notin Empty => centroids'[c] = MeanOf(Members(c))
        OBVIOUS
    <1>3. CASE c \in Empty
        <2>1. centroids'[c] = At(data[drawn[c]])
            BY <1>1, <1>3
        <2>2. centroids'[c].count = 1
            BY <2>1 DEF At
        <2> QED
            BY <1>2, <1>3, <2>2
    <1>4. CASE c \notin Empty
        <2>1. centroids'[c] = MeanOf(Members(c))
            BY <1>1, <1>4
        <2>2. centroids'[c].count = Cardinality(Members(c))
            BY <2>1 DEF MeanOf
        <2>3. Members(c) \in SUBSET (1 .. Len(data))
            BY <1>2 DEF Members
        <2>4. Cardinality(Members(c)) <= Len(data)
            BY <1>2, <2>3, Counted
        <2> QED
            BY <2>1, <2>2, <2>4
    <1> QED
        BY <1>3, <1>4

LEMMA UpdateImproves ==
    ASSUME KInv, MInv, NInv, Update
    PROVE  Inertia(centroids') <= Inertia(centroids)
    <1> DEFINE D == DOMAIN data
               new == centroids'
    <1>1. /\ data \in Seq(Nat) /\ D = 1 .. Len(data) /\ Len(data) \in Nat
          /\ centroids \in Seq(Centroid) /\ Len(centroids) = Cells
          /\ assigned \in [D -> Cell] /\ Cells \in Nat \ {0} /\ Cell = 1 .. Cells
        BY KMeansAssumption DEF Update, KInv, Cell
    <1>2. new \in Seq(Centroid) /\ Len(new) = Cells
        <2>1. KInv' /\ phase' \in {"assign", "done"}
            BY UpdateSteps DEF Update
        <2> QED
            BY <2>1 DEF KInv
    <1>3. /\ \A c \in Cell : new[c].count <= Len(data)
          /\ \A c \in Cell \ Empty : new[c] = MeanOf(Members(c))
        BY UpdateNInv
    <1>4. /\ \A c \in Cell : centroids[c].count <= Len(data)
          /\ \A i \in D : assigned[i] = NearestCentroid(data[i], centroids)
        <2>1. phase = "update"
            BY DEF Update
        <2>2. DOMAIN centroids = Cell
            BY <1>1
        <2> QED
            BY <2>1, <2>2 DEF NInv
    <1> HIDE DEF new
    <1>5. /\ DOMAIN new = Cell /\ DOMAIN centroids = Cell
          /\ \A c \in Cell : new[c] \in Centroid /\ centroids[c] \in Centroid
        BY <1>1, <1>2
    <1>6. PICK K \in Nat \ {0} :
              /\ \A k \in 1 .. Len(data) : K \in Multiples(k)
              /\ \A seq : Inertia(seq) = Total(D, Parts(K, seq))
        BY <1>1, InertiaIs
    <1>7. \A c \in Cell : K \in Multiples(new[c].count) /\ K \in Multiples(centroids[c].count)
        <2> SUFFICES ASSUME NEW c \in Cell
                     PROVE  new[c].count \in 1 .. Len(data) /\ centroids[c].count \in 1 .. Len(data)
            BY <1>6
        <2>1. new[c].count \in Nat \ {0} /\ centroids[c].count \in Nat \ {0}
            BY <1>5 DEF Centroid
        <2> QED
            BY <1>1, <1>3, <1>4, <2>1
    <1> DEFINE f == Parts(K, new)
               g == Parts(K, centroids)
               h == [i \in D |-> Apart(K, data[i], new[assigned[i]])]
    <1>8. ASSUME NEW i \in D
          PROVE  /\ f[i] \in Nat /\ f[i] <= h[i] /\ h[i] \in Nat
                 /\ g[i] \in Nat /\ g[i] = Apart(K, data[i], centroids[assigned[i]])
        <2>1. assigned[i] \in Cell /\ data[i] \in Nat
            BY <1>1
        <2>2. f[i] \in Nat /\ f[i] <= h[i]
            <3>1. /\ Len(new) > 0 /\ \A c \in DOMAIN new : K \in Multiples(new[c].count)
                  /\ data \in Seq(Nat) /\ i \in DOMAIN data /\ assigned[i] \in DOMAIN new
                BY <1>1, <1>2, <1>5, <1>7, <2>1
            <3>2. /\ Parts(K, new)[i] \in Nat
                  /\ \A c \in DOMAIN new : Parts(K, new)[i] <= Apart(K, data[i], new[c])
                BY ONLY <1>2, <3>1, PartsAre
            <3> QED
                BY <3>1, <3>2
        <2>3. h[i] \in Nat
            BY <1>5, <1>7, <2>1, ApartNat
        <2>4. /\ g[i] \in Nat
              /\ g[i] = Apart(K, data[i], centroids[NearestCentroid(data[i], centroids)])
            <3>1. /\ Len(centroids) > 0 /\ centroids \in Seq(Centroid)
                  /\ \A c \in DOMAIN centroids : K \in Multiples(centroids[c].count)
                  /\ data \in Seq(Nat) /\ i \in DOMAIN data
                BY <1>1, <1>5, <1>7
            <3>2. /\ Parts(K, centroids)[i] \in Nat
                  /\ Parts(K, centroids)[i]
                         = Apart(K, data[i], centroids[NearestCentroid(data[i], centroids)])
                BY ONLY <3>1, PartsAre
            <3> QED
                BY <3>2
        <2> QED
            BY <1>4, <2>2, <2>3, <2>4
    <1>9. IsFiniteSet(D)
        BY <1>1, FS_Interval
    <1>10. Total(D, f) <= Total(D, h)
        <2> HIDE DEF f, h, D
        <2> QED
            BY <1>8, <1>9, TotalLeq
    <1>11. ASSUME NEW c \in Cell
           PROVE  Total(Members(c), h) <= Total(Members(c), g)
        <2> DEFINE S == Members(c)
        <2>1. S \in SUBSET D /\ \A i \in S : i \in D /\ assigned[i] = c
            BY DEF Members
        <2>2. CASE c \in Empty
            <3>1. S = {}
                BY <2>2 DEF Empty
            <3>2. Total({}, h) = 0 /\ Total({}, g) = 0
                <4> HIDE DEF h, g, D
                <4> QED
                    BY <1>8, <1>9, TotalAdds
            <3> QED
                BY <3>1, <3>2
        <2>3. CASE c \notin Empty
            <3>1. S # {}
                BY <2>3 DEF Empty
            <3>2. \A i \in S : /\ h[i] = Apart(K, data[i], MeanOf(S))
                               /\ g[i] = Apart(K, data[i], centroids[c])
                BY <1>3, <1>8, <2>1, <2>3
            <3>3. centroids[c] \in Centroid /\ centroids[c].count <= Len(data)
                BY <1>4, <1>5
            <3> HIDE DEF S, h, g
            <3>4. Total(S, h) <= Total(S, g)
                BY <1>1, <1>6, <2>1, <3>1, <3>2, <3>3, MeanWins
            <3> QED
                BY <3>4 DEF S
        <2> QED
            BY <2>2, <2>3
    <1>12. Total(D, h) <= Total(D, g)
        <2>1. \A c \in Cell : Members(c) = {i \in D : assigned[i] = c}
            BY DEF Members
        <2>2. IsFiniteSet(Cell)
            BY <1>1, FS_Interval
        <2>3. \A c \in Cell : Total({i \in D : assigned[i] = c}, h)
                                  <= Total({i \in D : assigned[i] = c}, g)
            BY <1>11, <2>1
        <2>4. assigned \in [D -> Cell] /\ \A i \in D : h[i] \in Nat /\ g[i] \in Nat
            BY <1>1, <1>8
        <2> HIDE DEF h, g, D
        <2> QED
            BY ONLY <1>9, <2>2, <2>3, <2>4, CellByCell
    <1>13. Total(D, f) \in Nat /\ Total(D, h) \in Nat /\ Total(D, g) \in Nat
        <2> HIDE DEF f, h, g, D
        <2> QED
            BY <1>8, <1>9, TotalNat
    <1> QED
        BY <1>6, <1>10, <1>12, <1>13 DEF new

LEMMA InitNInv == Init => NInv
    BY DEF Init, KMeansInit, NInv

LEMMA NextNInv == KInv /\ MInv /\ NInv /\ [Next]_vars => NInv'
    <1> SUFFICES ASSUME KInv, MInv, NInv, [Next]_vars PROVE NInv'
        OBVIOUS
    <1>1. CASE \E set \in Trainings : Begin(set)
        <2>1. centroids' = <<>> /\ phase' = "seed"
            BY <1>1 DEF Begin, KInv
        <2> QED
            BY <2>1 DEF NInv
    <1>2. CASE Seed
        <2>1. PICK i \in DOMAIN data : centroids' = Append(centroids, At(data[i]))
            BY <1>2 DEF Seed
        <2>2. /\ phase = "seed" /\ data' = data /\ phase' # "update"
              /\ centroids \in Seq(Centroid) /\ Len(data) \in Nat /\ Len(data) > 0
            BY <1>2 DEF Seed, KInv
        <2>3. At(data[i]).count <= Len(data)
            BY <2>2 DEF At
        <2>4. \A c \in DOMAIN centroids' :
                  \/ centroids'[c] = At(data[i])
                  \/ c \in DOMAIN centroids /\ centroids'[c] = centroids[c]
            <3> DEFINE last == At(data[i])
            <3>1. centroids' = Append(centroids, last) /\ last \in Centroid
                <4>1. data[i] \in Nat
                    BY DEF KInv
                <4> QED
                    BY <2>1, <4>1, AtIs
            <3> HIDE DEF last
            <3>2. \A c \in DOMAIN centroids' :
                      \/ centroids'[c] = last
                      \/ c \in DOMAIN centroids /\ centroids'[c] = centroids[c]
                BY <2>2, <3>1
            <3> QED
                BY <3>2 DEF last
        <2> QED
            BY <2>2, <2>3, <2>4 DEF NInv
    <1>3. CASE Assign
        <2>1. /\ \A i \in DOMAIN data : assigned'[i] = NearestCentroid(data[i], centroids)
              /\ data' = data /\ centroids' = centroids
            BY <1>3, AssignSteps DEF Assign
        <2> QED
            BY <2>1 DEF NInv
    <1>4. CASE Update
        <2>1. \A c \in Cell : centroids'[c].count <= Len(data)
            BY <1>4, UpdateNInv
        <2>2. DOMAIN centroids' = Cell /\ data' = data /\ phase' # "update"
            BY <1>4 DEF Update
        <2> QED
            BY <2>1, <2>2 DEF NInv
    <1>5. CASE Reset
        <2>1. centroids' = <<>> /\ phase' = "none"
            BY <1>5 DEF Reset
        <2> QED
            BY <2>1 DEF NInv
    <1>6. CASE UNCHANGED training
        BY <1>6 DEF training, NInv
    <1> QED
        BY <1>1, <1>2, <1>3, <1>4, <1>5, <1>6, NextTrains

-----------------------------------------------------------------------------
(* The graphs of an IVFHNSWIndex: documents are only added.                *)

Named(g) == {g.nodes[n].doc : n \in DOMAIN g.nodes}

Filled(g, c) ==
    /\ Shape(g, c, MaxLevel)
    /\ ~g.wild /\ LinksIn(g, c, Reach(g, c))
    /\ \A n \in 1 .. c : /\ g.nodes[n].doc = g.nodes[n].at /\ ~g.nodes[n].deleted
                         /\ g.idMap[g.nodes[n].doc] = n
    /\ \A d \in Docs : g.idMap[d] # NoNode => g.nodes[g.idMap[d]].doc = d
    /\ c <= M0 + 1 => Joined(g, c) /\ Simple(g, c)

Graphs == {g \in UNION {GraphOf(c) : c \in Nat} : Filled(g, Len(g.nodes))}

LEMMA FilledIs ==
    ASSUME NEW g \in Graphs
    PROVE  LET c == Len(g.nodes)
           IN  /\ c \in Nat /\ g \in GraphOf(c) /\ DOMAIN g.nodes = 1 .. c
               /\ Filled(g, c) /\ AllLive(g, c) /\ SelfResolving(g, c)
               /\ Named(g) = {g.nodes[n].at : n \in 1 .. c}
               /\ \A n \in 1 .. c : g.nodes[n].at \in Points /\ g.nodes[n].doc = g.nodes[n].at
               /\ \A m, n \in 1 .. c : g.nodes[m].at = g.nodes[n].at => m = n
    <1> DEFINE c == Len(g.nodes)
    <1>1. PICK k \in Nat : g \in GraphOf(k)
        BY DEF Graphs
    <1>2. c = k /\ Filled(g, c)
        BY <1>1, GraphIs DEF Graphs
    <1> HIDE DEF c
    <1>3. /\ c \in Nat /\ g \in GraphOf(c) /\ DOMAIN g.nodes = 1 .. c
          /\ \A n \in 1 .. c : g.nodes[n].at \in Points
          /\ \A m, n \in 1 .. c : g.nodes[m].at = g.nodes[n].at => m = n
        BY <1>1, <1>2, GraphIs
    <1>4. \A n \in 1 .. c : g.nodes[n].doc = g.nodes[n].at /\ ~g.nodes[n].deleted
                            /\ Resolved(g, n) = n
        BY <1>2 DEF Filled, Resolved
    <1>5. AllLive(g, c) /\ SelfResolving(g, c)
        BY <1>4 DEF AllLive, SelfResolving
    <1>6. Named(g) = {g.nodes[n].at : n \in 1 .. c}
        BY <1>3, <1>4 DEF Named
    <1> QED
        BY <1>2, <1>3, <1>4, <1>5, <1>6 DEF c

LEMMA EmptyFilled == EmptyGraph \in Graphs /\ Named(EmptyGraph) = {}
    <1> DEFINE g == EmptyGraph
    <1>1. g.nodes = <<>> /\ g.idMap = [d \in Docs |-> NoNode] /\ g.wild = FALSE
        BY DEF EmptyGraph
    <1>2. 1 .. 0 = {} /\ Len(g.nodes) = 0 /\ DOMAIN g.nodes = {}
        BY <1>1
    <1>3. Shape(g, 0, MaxLevel)
        BY IvfAssumption, EmptyIs
    <1> HIDE DEF g
    <1>4. LinksIn(g, 0, Reach(g, 0)) /\ Joined(g, 0) /\ Simple(g, 0)
        BY <1>2 DEF LinksIn, Joined, Simple
    <1>5. Filled(g, 0)
        BY <1>1, <1>2, <1>3, <1>4 DEF Filled
    <1>6. g \in GraphOf(0)
        BY <1>3 DEF Shape
    <1>7. g \in Graphs
        BY <1>2, <1>5, <1>6 DEF Graphs
    <1> QED
        BY <1>2, <1>7 DEF Named, g

LEMMA InsertedFilled ==
    ASSUME NEW g \in Graphs, NEW p \in Points, p \notin Named(g), NEW level \in 0 .. MaxLevel
    PROVE  /\ Inserted(g, p, p, level) \in Graphs
           /\ Named(Inserted(g, p, p, level)) = Named(g) \cup {p}
    <1> DEFINE c == Len(g.nodes)
               r == Inserted(g, p, p, level)
    <1>1. /\ c \in Nat /\ g \in GraphOf(c) /\ Filled(g, c) /\ AllLive(g, c) /\ SelfResolving(g, c)
          /\ Named(g) = {g.nodes[n].at : n \in 1 .. c}
          /\ \A n \in 1 .. c : g.nodes[n].at \in Points /\ g.nodes[n].doc = g.nodes[n].at
        BY FilledIs
    <1> HIDE DEF c
    <1>2. Docs = Points /\ MaxLevel \in Nat /\ M0 \in Nat
        BY IvfAssumption, GraphAssumption DEF M0
    <1>3. \A n \in 1 .. c : g.nodes[n].at # p /\ g.nodes[n].doc # p
        BY <1>1
    <1>4. /\ Shape(g, c, MaxLevel) /\ ~g.wild /\ LinksIn(g, c, Reach(g, c))
          /\ g.idMap \in [Docs -> 0 .. c]
        BY <1>1, GraphIs DEF Filled
    <1>5. /\ Shape(r, c + 1, MaxLevel)
          /\ r.idMap = [g.idMap EXCEPT ![p] = c + 1]
          /\ \A n \in 1 .. c : /\ r.nodes[n].doc = g.nodes[n].doc
                               /\ r.nodes[n].at = g.nodes[n].at
                               /\ r.nodes[n].deleted = g.nodes[n].deleted
          /\ r.nodes[c + 1].doc = p /\ r.nodes[c + 1].at = p /\ ~r.nodes[c + 1].deleted
          /\ ~r.wild /\ LinksIn(r, c + 1, Reach(r, c + 1))
        <2>1. p \in Docs /\ \A n \in 1 .. c : g.nodes[n].at # p
            BY <1>2, <1>3
        <2>2. /\ Shape(r, c + 1, MaxLevel)
              /\ r.idMap = [g.idMap EXCEPT ![p] = c + 1]
              /\ \A n \in 1 .. c : /\ r.nodes[n].doc = g.nodes[n].doc
                                   /\ r.nodes[n].at = g.nodes[n].at
                                   /\ r.nodes[n].deleted = g.nodes[n].deleted
              /\ r.nodes[c + 1].doc = p /\ r.nodes[c + 1].at = p /\ ~r.nodes[c + 1].deleted
              /\ ~g.wild /\ SelfResolving(g, c) /\ LinksIn(g, c, Reach(g, c))
                     /\ (\A n \in 1 .. c : g.nodes[n].doc # p) =>
                 ~r.wild /\ LinksIn(r, c + 1, Reach(r, c + 1))
            BY ONLY <1>1, <1>2, <1>4, <2>1, p \in Points, level \in 0 .. MaxLevel, InsertedIs
        <2> HIDE DEF r
        <2> QED
            BY <1>1, <1>3, <1>4, <2>2
    <1>6. ASSUME c + 1 <= M0 + 1 PROVE Joined(r, c + 1) /\ Simple(r, c + 1)
        <2>1. c <= M0 /\ Joined(g, c) /\ Simple(g, c)
            BY <1>1, <1>2, <1>6 DEF Filled
        <2> QED
            BY <1>1, <1>2, <1>3, <1>4, <2>1, InsertedJoins
    <1> HIDE DEF r
    <1>7. \A n \in 1 .. c + 1 : n \in 1 .. c \/ n = c + 1
        BY <1>1
    <1>8. \A n \in 1 .. c + 1 : /\ r.nodes[n].doc = r.nodes[n].at /\ ~r.nodes[n].deleted
                                /\ r.idMap[r.nodes[n].doc] = n
        <2>1. \A n \in 1 .. c : g.idMap[g.nodes[n].doc] = n /\ ~g.nodes[n].deleted
            BY <1>1 DEF Filled
        <2> QED
            BY <1>1, <1>2, <1>3, <1>4, <1>5, <1>7, <2>1
    <1>9. \A d \in Docs : r.idMap[d] # NoNode => r.nodes[r.idMap[d]].doc = d
        <2> SUFFICES ASSUME NEW d \in Docs, r.idMap[d] # NoNode
                     PROVE  r.nodes[r.idMap[d]].doc = d
            OBVIOUS
        <2>1. CASE d = p
            BY <1>2, <1>4, <1>5, <2>1
        <2>2. CASE d # p
            <3>1. r.idMap[d] = g.idMap[d]
                BY <1>4, <1>5, <2>2
            <3>2. g.idMap[d] \in 1 .. c /\ g.nodes[g.idMap[d]].doc = d
                BY <1>1, <1>4, <3>1 DEF Filled, NoNode
            <3> QED
                BY <1>5, <3>1, <3>2
        <2> QED
            BY <2>1, <2>2
    <1>10. Filled(r, c + 1)
        BY <1>5, <1>6, <1>8, <1>9 DEF Filled
    <1>11. r \in GraphOf(c + 1) /\ c + 1 \in Nat
        BY <1>1, <1>5 DEF Shape
    <1>12. r \in Graphs
        BY <1>10, <1>11, GraphIs DEF Graphs
    <1>13. Named(r) = Named(g) \cup {p}
        <2>1. DOMAIN r.nodes = 1 .. c + 1
            BY <1>11, GraphIs
        <2>2. Named(r) = {r.nodes[n].at : n \in 1 .. c + 1}
            BY <1>8, <2>1 DEF Named
        <2>3. 1 .. c + 1 = (1 .. c) \cup {c + 1}
            BY <1>1
        <2> QED
            BY <1>1, <1>5, <2>2, <2>3
    <1> QED
        BY <1>12, <1>13 DEF r

LEMMA LoadedFilled ==
    ASSUME NEW g \in Graphs
    PROVE  Loaded(g) = g
    <1> DEFINE c == Len(g.nodes)
               r == Loaded(g)
    <1>1. c \in Nat /\ g \in GraphOf(c) /\ Filled(g, c)
        BY FilledIs
    <1> HIDE DEF c
    <1>2. Shape(g, c, MaxLevel) /\ MaxLevel \in Nat
        BY <1>1, IvfAssumption DEF Filled
    <1>3. /\ Shape(r, c, MaxLevel)
          /\ \A d \in Docs : IF Own(g, c, d) = {} THEN r.idMap[d] = NoNode
                             ELSE r.idMap[d] \in Own(g, c, d)
          /\ r = [g EXCEPT !.idMap = r.idMap]
        BY <1>1, <1>2, LoadedIs
    <1> HIDE DEF r
    <1>4. g.idMap \in [Docs -> 0 .. c]
        BY <1>1, GraphIs
    <1>5. r.idMap \in [Docs -> 0 .. c]
        BY <1>1, <1>3, GraphIs DEF Shape
    <1>6. ASSUME NEW d \in Docs PROVE r.idMap[d] = g.idMap[d]
        <2>1. \A n \in Own(g, c, d) : g.idMap[d] = n
            BY <1>1 DEF Filled, Own
        <2>2. g.idMap[d] # NoNode => g.idMap[d] \in Own(g, c, d)
            BY <1>1, <1>4 DEF Filled, Own, NoNode
        <2> QED
            BY <1>3, <2>1, <2>2
    <1>7. r.idMap = g.idMap
        BY <1>4, <1>5, <1>6
    <1>8. g = [g EXCEPT !.idMap = g.idMap]
        BY <1>1 DEF GraphOf
    <1> QED
        BY <1>3, <1>7, <1>8 DEF r

-----------------------------------------------------------------------------
(* The nearest of a set of points, merged from those of its parts.         *)

Within(S, q, p) == {r \in S : Gap(q, r) < Gap(q, p)}

LEMMA NearestOfIs ==
    ASSUME NEW S, NEW q, NEW k
    PROVE  NearestOf(S, q, k) = {p \in S : Cardinality(Within(S, q, p)) < k}
    BY DEF NearestOf, Within

LEMMA GapNat == \A p, q \in Points : Gap(p, q) \in Nat
    BY GraphAssumption DEF Gap

LEMMA WithinFinite ==
    ASSUME NEW S, IsFiniteSet(S), NEW q, NEW p
    PROVE  IsFiniteSet(Within(S, q, p)) /\ Cardinality(Within(S, q, p)) \in Nat
    <1>1. Within(S, q, p) \in SUBSET S
        BY DEF Within
    <1> QED
        BY <1>1, FS_Subset, FS_CardinalityType

LEMMA NearestOfFewer ==
    ASSUME NEW U, IsFiniteSet(U), NEW S \in SUBSET U, NEW q, NEW k \in Nat
    PROVE  NearestOf(U, q, k) \cap S \subseteq NearestOf(S, q, k)
    <1> SUFFICES ASSUME NEW p \in S, p \in NearestOf(U, q, k)
                 PROVE  p \in NearestOf(S, q, k)
        OBVIOUS
    <1>1. Within(S, q, p) \in SUBSET Within(U, q, p) /\ IsFiniteSet(S)
        BY FS_Subset DEF Within
    <1>2. Cardinality(Within(S, q, p)) <= Cardinality(Within(U, q, p))
        BY <1>1, WithinFinite, FS_Subset
    <1>3. Cardinality(Within(S, q, p)) \in Nat /\ Cardinality(Within(U, q, p)) \in Nat
        BY <1>1, WithinFinite
    <1> QED
        BY <1>2, <1>3, NearestOfIs

LEMMA LeastPoint ==
    ASSUME NEW S, S \subseteq Points, S # {}, NEW q \in Points
    PROVE  \E m \in S : \A r \in S : ~(Gap(q, r) < Gap(q, m))
    <1> DEFINE D == {Gap(q, r) : r \in S}
    <1>1. D \subseteq Nat /\ D # {}
        BY GapNat
    <1>2. PICK x \in D : \A y \in D : x <= y
        BY <1>1, LeastNat
    <1>3. PICK m \in S : x = Gap(q, m)
        BY <1>2
    <1>4. \A r \in S : Gap(q, m) <= Gap(q, r)
        BY <1>2, <1>3
    <1>5. \A r \in S : Gap(q, r) \in Nat
        BY GapNat
    <1> QED
        BY <1>4, <1>5

\* If there are k points, k of them are among the nearest k.
LEMMA NearestEnough ==
    ASSUME NEW S, IsFiniteSet(S), S \subseteq Points, NEW q \in Points, NEW k \in Nat,
           k <= Cardinality(S)
    PROVE  k <= Cardinality(NearestOf(S, q, k))
    <1> DEFINE N == NearestOf(S, q, k)
    <1>1. N \in SUBSET S
        BY NearestOfIs
    <1>2. \A p \in S \ N : ~(Cardinality(Within(S, q, p)) < k)
        BY NearestOfIs
    <1> HIDE DEF N
    <1>3. IsFiniteSet(N) /\ Cardinality(N) \in Nat /\ Cardinality(S) \in Nat
        BY <1>1, FS_Subset, FS_CardinalityType
    <1>4. CASE S = N
        BY <1>3, <1>4 DEF N
    <1>5. CASE S \ N # {}
        <2>1. PICK m \in S \ N : \A r \in S \ N : ~(Gap(q, r) < Gap(q, m))
            BY <1>5, LeastPoint
        <2>2. Within(S, q, m) \in SUBSET N
            BY <2>1 DEF Within
        <2>3. Cardinality(Within(S, q, m)) <= Cardinality(N)
            BY <1>3, <2>2, FS_Subset
        <2>4. Cardinality(Within(S, q, m)) \in Nat /\ ~(Cardinality(Within(S, q, m)) < k)
            BY <1>2, <2>1, WithinFinite
        <2> QED
            BY <1>3, <2>3, <2>4 DEF N
    <1> QED
        BY <1>1, <1>4, <1>5

\* A part that has the nearest of all has no others.
LEMMA NearestOfPart ==
    ASSUME NEW U, IsFiniteSet(U), U \subseteq Points, NEW q \in Points, NEW k \in Nat,
           NEW T \in SUBSET U, NearestOf(U, q, k) \subseteq T
    PROVE  NearestOf(T, q, k) = NearestOf(U, q, k)
    <1>1. NearestOf(U, q, k) \subseteq NearestOf(T, q, k)
        BY NearestOfFewer
    <1>2. ASSUME NEW p \in NearestOf(T, q, k), p \notin NearestOf(U, q, k) PROVE FALSE
        <2> DEFINE C == Within(U, q, p)
        <2>1. p \in T /\ p \in U /\ p \in Points
            BY <1>2, NearestOfIs
        <2>2. C \in SUBSET U /\ IsFiniteSet(C) /\ Cardinality(C) \in Nat /\ IsFiniteSet(T)
            BY WithinFinite, FS_Subset DEF Within
        <2>3. k <= Cardinality(C)
            BY <1>2, <2>1, <2>2, NearestOfIs
        <2>4. ASSUME NEW r \in NearestOf(C, q, k) PROVE r \in Within(T, q, p)
            <3>1. r \in C /\ Cardinality(Within(C, q, r)) < k
                BY NearestOfIs
            <3>2. r \in U /\ Gap(q, r) < Gap(q, p)
                BY <3>1 DEF Within
            <3>3. Within(U, q, r) = Within(C, q, r)
                BY <2>1, <3>2, GapNat DEF Within
            <3>4. r \in NearestOf(U, q, k)
                BY <3>1, <3>2, <3>3, NearestOfIs
            <3> QED
                BY <3>2, <3>4 DEF Within
        <2> HIDE DEF C
        <2>5. k <= Cardinality(NearestOf(C, q, k))
            BY <2>2, <2>3, NearestEnough
        <2>6. NearestOf(C, q, k) \in SUBSET Within(T, q, p)
            BY <2>4
        <2>7. /\ Cardinality(NearestOf(C, q, k)) <= Cardinality(Within(T, q, p))
              /\ Cardinality(NearestOf(C, q, k)) \in Nat
              /\ Cardinality(Within(T, q, p)) \in Nat
            BY <2>2, <2>6, WithinFinite, FS_Subset, FS_CardinalityType
        <2>8. Cardinality(Within(T, q, p)) < k
            BY <1>2, NearestOfIs
        <2> QED
            BY <2>5, <2>7, <2>8
    <1> QED
        BY <1>1, <1>2

\* What a wide search of a graph has.
Offers(g, q, k, allowed) == {g.nodes[n].doc : n \in Search(g, q, k, Wide, allowed)}

\* A graph that fits in one list contributes the nearest of its documents.
LEMMA FilledSearch ==
    ASSUME NEW g \in Graphs, Len(g.nodes) <= M0 + 1, IsFiniteSet(Points), NEW q \in Points,
           NEW k \in Nat, NEW allowed
    PROVE  Offers(g, q, k, allowed) = NearestOf(Named(g) \cap allowed, q, k)
    <1> DEFINE c == Len(g.nodes)
               A == Accepted(g, 1 .. c, allowed)
    <1>1. /\ c \in Nat /\ g \in GraphOf(c) /\ Filled(g, c) /\ AllLive(g, c)
          /\ Named(g) = {g.nodes[n].at : n \in 1 .. c}
          /\ \A n \in 1 .. c : g.nodes[n].at \in Points /\ g.nodes[n].doc = g.nodes[n].at
          /\ \A m, n \in 1 .. c : g.nodes[m].at = g.nodes[n].at => m = n
        BY FilledIs
    <1>2. c <= M0 + 1
        OBVIOUS
    <1> HIDE DEF c
    <1>3. Shape(g, c, MaxLevel) /\ Joined(g, c)
        BY <1>1, <1>2 DEF Filled
    <1>4. Wide \in Nat /\ Wide >= c
        <2> DEFINE f == [n \in 1 .. c |-> g.nodes[n].at]
        <2>1. f \in Injection(1 .. c, Points)
            BY <1>1 DEF Injection, IsInjective
        <2>2. Cardinality(1 .. c) <= Cardinality(Points)
            BY <2>1, FS_Injection
        <2>3. Cardinality(1 .. c) = c
            BY <1>1, FS_Interval
        <2> QED
            BY <2>2, <2>3, <1>1, FS_CardinalityType DEF Wide
    <1>5. Search(g, q, k, Wide, allowed) = {n \in A : Cardinality({m \in A : Nearer(g, q, m, n)}) < k}
        BY <1>1, <1>3, <1>4, WideSearch
    <1>6. A \in SUBSET (1 .. c) /\ \A n \in 1 .. c : n \in A <=> g.nodes[n].at \in allowed
        BY <1>1 DEF Accepted, Accepts, AllLive
    <1> HIDE DEF A
    <1>7. Named(g) \cap allowed = {g.nodes[n].at : n \in A}
        BY <1>1, <1>6
    <1>8. ASSUME NEW n \in A
          PROVE  Cardinality({m \in A : Nearer(g, q, m, n)})
                     = Cardinality(Within(Named(g) \cap allowed, q, g.nodes[n].at))
        <2> DEFINE S == {m \in A : Nearer(g, q, m, n)}
                   T == Within(Named(g) \cap allowed, q, g.nodes[n].at)
                   f == [m \in S |-> g.nodes[m].at]
        <2>1. IsFiniteSet(S)
            BY <1>1, <1>6, FiniteNodes
        <2>2. T = {g.nodes[m].at : m \in S}
            BY <1>7, GapIsDist DEF Within, Nearer
        <2>3. \A a, b \in S : g.nodes[a].at = g.nodes[b].at => a = b
            BY <1>1, <1>6
        <2> HIDE DEF S, T
        <2>4. f \in Bijection(S, T)
            BY <2>2, <2>3 DEF Bijection, Injection, IsInjective, Surjection
        <2>5. Cardinality(T) = Cardinality(S)
            BY <2>1, <2>4, FS_Bijection DEF ExistsBijection
        <2> QED
            BY <2>5 DEF S, T
    <1>9. \A n \in A : g.nodes[n].doc = g.nodes[n].at
        BY <1>1, <1>6
    <1>10. NearestOf(Named(g) \cap allowed, q, k)
              = {g.nodes[n].at : n \in {n \in A :
                    Cardinality(Within(Named(g) \cap allowed, q, g.nodes[n].at)) < k}}
        BY <1>7, NearestOfIs
    <1> QED
        BY <1>5, <1>8, <1>9, <1>10 DEF Offers

-----------------------------------------------------------------------------
(* The inductive invariant, of the index, its files and the running save.  *)

CellOf(k) == IF k = "IVF" THEN Seq(Nat) ELSE Graphs

IndexOf(k) ==
    [trained : BOOLEAN, quantizer : Seq(Centroid), vectors : Seq(Points),
     cells : Seq(CellOf(k)), count : Nat, round : Nat]

\* The documents of a cell of index ix, and of all.
Has(k, ix, cell) ==
    IF k = "IVF" THEN {ix.vectors[slot] : slot \in ToSet(cell)} ELSE Named(cell)

HeldBy(k, ix) == UNION {Has(k, ix, ix.cells[c]) : c \in DOMAIN ix.cells}

\* The lists of an IVFIndex have slots there are.
Slotted(k, ix) ==
    k = "IVF" => /\ Len(ix.vectors) = ix.count
                 /\ \A c \in DOMAIN ix.cells : ToSet(ix.cells[c]) \subseteq 1 .. ix.count

Sized(ix, width) == Len(ix.quantizer) = Cells /\ Len(ix.cells) = width

CellFile == [graph : Graphs, round : Nat]

\* The documents in the file of a cell, and in all files.
Kept(file) == IF file = NoFile THEN {} ELSE Named(file.graph)

StoredIn(files) == UNION {Kept(files[c]) : c \in Cell}

XInv ==
    /\ kind \in {"IVF", "IVF_HNSW"}
    /\ index \in IndexOf(kind) /\ Slotted(kind, index)
    /\ IF index.trained THEN Sized(index, Cells) ELSE index.quantizer = <<>> /\ index.cells = <<>>
    /\ disk \in [meta : IndexOf(kind) \cup {NoFile}, cell : [Cell -> CellFile \cup {NoFile}]]
    /\ disk.meta # NoFile =>
           /\ disk.meta.trained /\ Slotted(kind, disk.meta)
           /\ Sized(disk.meta, IF kind = "IVF" THEN Cells ELSE 0)
    /\ writing \in 0 .. Cells /\ rounds \in Nat
    /\ saved \in [docs : SUBSET Points, round : Nat]

\* What a running save has written is what the index has.
PInv ==
    writing # 0 =>
        /\ phase = "none" /\ kind = "IVF_HNSW" /\ index.trained
        /\ disk.meta = [index EXCEPT !.cells = <<>>]
        /\ \A c \in 1 .. writing - 1 :
               disk.cell[c] = [graph |-> index.cells[c], round |-> index.round]

\* No more documents than are counted, in memory and in files together: any
\* mixture of both can be what the next process loads.
CInv ==
    kind = "IVF_HNSW" =>
        /\ IsFiniteSet(HeldBy(kind, index) \cup StoredIn(disk.cell))
        /\ Cardinality(HeldBy(kind, index) \cup StoredIn(disk.cell)) <= index.count
        /\ disk.meta # NoFile => Cardinality(StoredIn(disk.cell)) <= disk.meta.count

\* Q gives the centroids of each training.  What comes from a training has its
\* centroids, and documents where these say.
Homes(seq, c, docs) == \A p \in docs : NearestCentroid(p, seq) = c

Housed(Q, k, ix) ==
    ix.round # 0 =>
        /\ ix.round \in DOMAIN Q /\ ix.quantizer = Q[ix.round] /\ ix.trained
        /\ \A c \in DOMAIN ix.cells : Homes(Q[ix.round], c, Has(k, ix, ix.cells[c]))

FileHoused(Q, c, file) ==
    file.round # 0 => file.round \in DOMAIN Q /\ Homes(Q[file.round], c, Kept(file))

Placed(Q) ==
    /\ DOMAIN Q = 1 .. rounds
    /\ Housed(Q, kind, index) /\ Housed(Q, kind, disk.meta)
    /\ \A c \in Cell : FileHoused(Q, c, disk.cell[c])
    /\ saved.round <= rounds

QInv == \E Q : Placed(Q)

\* What the last finished save had is still in the index and on disk, as long as
\* both come from the training it was behind.
SInv ==
    saved.round # 0 =>
        /\ saved.round = index.round =>
               saved.docs \subseteq HeldBy(kind, index) /\ disk.meta.round = saved.round
        /\ saved.round = disk.meta.round =>
               IF kind = "IVF" THEN saved.docs \subseteq HeldBy(kind, disk.meta)
               ELSE \A d \in saved.docs : \E c \in Cell :
                        disk.cell[c].round = saved.round /\ d \in Kept(disk.cell[c])

IInv == XInv /\ PInv /\ CInv /\ QInv /\ SInv

-----------------------------------------------------------------------------
LEMMA IndexIs ==
    ASSUME NEW k, NEW ix \in IndexOf(k)
    PROVE  /\ ix.trained \in BOOLEAN /\ ix.quantizer \in Seq(Centroid) /\ ix.vectors \in Seq(Points)
           /\ ix.cells \in Seq(CellOf(k)) /\ ix.count \in Nat /\ ix.round \in Nat
           /\ ix = [trained |-> ix.trained, quantizer |-> ix.quantizer, vectors |-> ix.vectors,
                    cells |-> ix.cells, count |-> ix.count, round |-> ix.round]
           /\ ix # NoFile
    <1>1. /\ ix.trained \in BOOLEAN /\ ix.quantizer \in Seq(Centroid) /\ ix.vectors \in Seq(Points)
          /\ ix.cells \in Seq(CellOf(k)) /\ ix.count \in Nat /\ ix.round \in Nat
          /\ ix = [trained |-> ix.trained, quantizer |-> ix.quantizer, vectors |-> ix.vectors,
                   cells |-> ix.cells, count |-> ix.count, round |-> ix.round]
        BY DEF IndexOf
    <1>2. "count" \in DOMAIN ix /\ "count" \notin DOMAIN NoFile
        BY <1>1 DEF NoFile
    <1> QED
        BY <1>1, <1>2

LEMMA FileIs ==
    ASSUME NEW f \in CellFile
    PROVE  f.graph \in Graphs /\ f.round \in Nat /\ f # NoFile /\ Kept(f) = Named(f.graph)
    <1>1. f.graph \in Graphs /\ f.round \in Nat
        BY DEF CellFile
    <1>2. "graph" \in DOMAIN f /\ "graph" \notin DOMAIN NoFile
        BY DEF CellFile, NoFile
    <1> QED
        BY <1>1, <1>2 DEF Kept

LEMMA HeldIs == Held = HeldBy(kind, index) /\ \A cell : DocsOf(cell) = Has(kind, index, cell)
    BY DEF Held, HeldBy, DocsOf, Has, Named

LEMMA HeldIsNext == Held' = HeldBy(kind', index')
    BY DEF Held, HeldBy, DocsOf, Has, Named

LEMMA HasIn ==
    ASSUME NEW k, NEW ix \in IndexOf(k), Slotted(k, ix), NEW c \in DOMAIN ix.cells
    PROVE  Has(k, ix, ix.cells[c]) \subseteq Points
    <1>1. ix.cells \in Seq(CellOf(k)) /\ ix.vectors \in Seq(Points)
        BY IndexIs
    <1>2. ix.cells[c] \in CellOf(k)
        BY <1>1
    <1>3. CASE k = "IVF"
        <2>1. ToSet(ix.cells[c]) \subseteq 1 .. Len(ix.vectors)
            BY <1>3 DEF Slotted
        <2>2. \A slot \in 1 .. Len(ix.vectors) : ix.vectors[slot] \in Points
            BY <1>1
        <2> QED
            BY <1>3, <2>1, <2>2 DEF Has
    <1>4. CASE k # "IVF"
        <2>1. ix.cells[c] \in Graphs
            BY <1>2, <1>4 DEF CellOf
        <2> QED
            BY <1>4, <2>1, FilledIs DEF Has
    <1> QED
        BY <1>3, <1>4

LEMMA EmptyCellIs == EmptyCell \in CellOf(kind) /\ \A ix : Has(kind, ix, EmptyCell) = {}
    <1>1. CASE kind = "IVF"
        <2>1. EmptyCell = <<>> /\ ToSet(<<>>) = {} /\ <<>> \in Seq(Nat)
            BY <1>1 DEF EmptyCell, ToSet
        <2> QED
            BY <1>1, <2>1 DEF CellOf, Has
    <1>2. CASE kind # "IVF"
        BY <1>2, EmptyFilled DEF EmptyCell, CellOf, Has
    <1> QED
        BY <1>1, <1>2

\* The cells of a trained index.
LEMMA TrainedIs ==
    ASSUME XInv, index.trained
    PROVE  /\ index.quantizer \in Seq(Centroid) /\ Len(index.quantizer) = Cells /\ Cells > 0
           /\ index.cells \in Seq(CellOf(kind)) /\ DOMAIN index.cells = Cell
           /\ DOMAIN index.quantizer = Cell
           /\ \A p \in Points : p \in Nat /\ NearestCentroid(p, index.quantizer) \in Cell
    <1>1. /\ index.quantizer \in Seq(Centroid) /\ Len(index.quantizer) = Cells
          /\ index.cells \in Seq(CellOf(kind)) /\ Len(index.cells) = Cells
        BY IndexIs DEF XInv, Sized
    <1>2. Cells \in Nat \ {0} /\ Points \subseteq Nat
        BY KMeansAssumption, GraphAssumption
    <1>3. DOMAIN index.cells = Cell /\ DOMAIN index.quantizer = Cell
        BY <1>1 DEF Cell
    <1>4. \A p \in Points : p \in Nat /\ NearestCentroid(p, index.quantizer) \in Cell
        BY <1>1, <1>2, <1>3, NearestCentroidIs
    <1> QED
        BY <1>1, <1>2, <1>3, <1>4

LEMMA HeldIn == XInv => HeldBy(kind, index) \subseteq Points
    BY HasIn DEF XInv, HeldBy

LEMMA InitIInv == Init => IInv
    <1> SUFFICES ASSUME Init PROVE IInv
        OBVIOUS
    <1>1. /\ kind \in {"IVF", "IVF_HNSW"} /\ writing = 0 /\ rounds = 0
          /\ index.trained = FALSE /\ index.quantizer = <<>> /\ index.vectors = <<>>
          /\ index.cells = <<>> /\ index.count = 0 /\ index.round = 0
          /\ disk.meta = NoFile /\ disk.cell = [c \in Cell |-> NoFile]
          /\ saved = [docs |-> {}, round |-> 0]
        BY DEF Init, Untrained
    <1>2. index \in IndexOf(kind)
        <2>1. index = Untrained
            BY DEF Init
        <2>2. <<>> \in Seq(Centroid) /\ <<>> \in Seq(Points) /\ <<>> \in Seq(CellOf(kind))
            OBVIOUS
        <2> QED
            BY <2>1, <2>2 DEF Untrained, IndexOf
    <1>3. HeldBy(kind, index) = {} /\ StoredIn(disk.cell) = {} /\ DOMAIN index.cells = {}
        BY <1>1 DEF HeldBy, StoredIn, Kept
    <1>4. XInv
        <2>1. Slotted(kind, index)
            BY <1>1, <1>3 DEF Slotted
        <2>2. disk \in [meta : IndexOf(kind) \cup {NoFile}, cell : [Cell -> CellFile \cup {NoFile}]]
            BY DEF Init
        <2>3. writing \in 0 .. Cells
            BY <1>1, KMeansAssumption
        <2> QED
            BY <1>1, <1>2, <2>1, <2>2, <2>3 DEF XInv
    <1>5. CInv
        <2>1. HeldBy(kind, index) \cup StoredIn(disk.cell) = {}
            BY <1>3
        <2>2. IsFiniteSet({}) /\ Cardinality({}) = 0
            BY FS_EmptySet
        <2>3. /\ IsFiniteSet(HeldBy(kind, index) \cup StoredIn(disk.cell))
              /\ Cardinality(HeldBy(kind, index) \cup StoredIn(disk.cell)) = 0
            BY ONLY <2>1, <2>2, Zenon
        <2> QED
            BY <1>1, <2>3 DEF CInv
    <1>6. QInv
        <2>1. NoFile.round = 0
            BY DEF NoFile
        <2>2. Placed(<<>>)
            BY <1>1, <2>1 DEF Placed, Housed, FileHoused
        <2> QED
            BY <2>2 DEF QInv
    <1> QED
        BY <1>1, <1>4, <1>5, <1>6 DEF IInv, PInv, SInv

LEMMA TrainingIInv ==
    ASSUME IInv, UNCHANGED <<kind, index, disk, writing, rounds, saved>>,
           writing # 0 => phase' = "none"
    PROVE  IInv'
    <1>1. XInv' /\ PInv' /\ CInv'
        BY DEF IInv, XInv, PInv, CInv
    <1>2. QInv'
        <2>1. PICK Q : Placed(Q)
            BY DEF IInv, QInv
        <2>2. Placed(Q)'
            BY <2>1 DEF Placed
        <2> QED
            BY <2>2 DEF QInv
    <1>3. SInv'
        BY DEF IInv, SInv
    <1> QED
        BY <1>1, <1>2, <1>3 DEF IInv

\* A training that is over: no documents are held.
LEMMA AdoptIInv == IInv /\ KInv /\ Adopt => IInv'
    <1> SUFFICES ASSUME IInv, KInv, Adopt PROVE IInv'
        OBVIOUS
    <1>1. /\ kind' = kind /\ disk' = disk /\ saved' = saved /\ writing' = writing
          /\ rounds' = rounds + 1 /\ phase' = "none" /\ phase = "done"
          /\ index' = [index EXCEPT !.trained = TRUE, !.quantizer = centroids,
                                    !.cells = [c \in Cell |-> EmptyCell], !.round = rounds + 1]
        BY DEF Adopt, Reset
    <1>2. /\ centroids \in Seq(Centroid) /\ Len(centroids) = Cells /\ Cells \in Nat \ {0}
        BY <1>1, KMeansAssumption DEF KInv
    <1>3. writing = 0 /\ rounds \in Nat /\ index \in IndexOf(kind)
        BY <1>1 DEF IInv, PInv, XInv
    <1> DEFINE new == [c \in Cell |-> EmptyCell]
    <1>4. new \in Seq(CellOf(kind)) /\ Len(new) = Cells /\ DOMAIN new = Cell
          /\ \A c \in Cell : new[c] = EmptyCell
        BY <1>2, EmptyCellIs DEF Cell
    <1> HIDE DEF new
    <1>5. /\ index'.trained = TRUE /\ index'.quantizer = centroids /\ index'.cells = new
          /\ index'.round = rounds + 1 /\ index'.vectors = index.vectors
          /\ index'.count = index.count
        BY <1>1, <1>3, IndexIs DEF new
    <1>6. index' \in IndexOf(kind)
        <2>1. index' = [trained |-> TRUE, quantizer |-> centroids, vectors |-> index.vectors,
                        cells |-> new, count |-> index.count, round |-> rounds + 1]
            <3>1. index = [trained |-> index.trained, quantizer |-> index.quantizer,
                           vectors |-> index.vectors, cells |-> index.cells,
                           count |-> index.count, round |-> index.round]
                BY <1>3, IndexIs
            <3> QED
                BY ONLY <1>1, <3>1 DEF new
        <2>2. index.vectors \in Seq(Points) /\ index.count \in Nat /\ rounds + 1 \in Nat
            BY <1>3, IndexIs
        <2> QED
            BY <1>2, <1>4, <2>1, <2>2 DEF IndexOf
    <1>7. \A c \in Cell : Has(kind, index', new[c]) = {}
        BY <1>4, EmptyCellIs
    <1>8. HeldBy(kind, index') = {}
        BY <1>4, <1>5, <1>7 DEF HeldBy
    <1>9. XInv'
        <2>1. Slotted(kind, index')
            <3> SUFFICES ASSUME kind = "IVF"
                         PROVE  /\ Len(index'.vectors) = index'.count
                                /\ \A c \in Cell : ToSet(new[c]) \subseteq 1 .. index'.count
                BY <1>4, <1>5 DEF Slotted
            <3>1. \A c \in Cell : new[c] = <<>>
                BY <1>4 DEF EmptyCell
            <3>2. Len(index.vectors) = index.count
                BY DEF IInv, XInv, Slotted
            <3> QED
                BY <1>5, <3>1, <3>2 DEF ToSet
        <2>2. Sized(index', Cells)
            BY <1>2, <1>4, <1>5 DEF Sized
        <2> QED
            BY <1>1, <1>3, <1>5, <1>6, <2>1, <2>2 DEF IInv, XInv
    <1>10. PInv'
        BY <1>1, <1>3 DEF PInv
    <1>11. CInv'
        <2> SUFFICES ASSUME kind = "IVF_HNSW"
                     PROVE  /\ IsFiniteSet(StoredIn(disk.cell))
                            /\ Cardinality(StoredIn(disk.cell)) <= index.count
                            /\ disk.meta # NoFile => Cardinality(StoredIn(disk.cell)) <= disk.meta.count
            BY <1>1, <1>5, <1>8 DEF CInv
        <2> DEFINE U == HeldBy(kind, index) \cup StoredIn(disk.cell)
                   S == StoredIn(disk.cell)
        <2>1. IsFiniteSet(U) /\ Cardinality(U) <= index.count /\ S \in SUBSET U
            BY DEF IInv, CInv
        <2> HIDE DEF U, S
        <2>2. IsFiniteSet(S) /\ Cardinality(S) <= Cardinality(U)
              /\ Cardinality(S) \in Nat /\ Cardinality(U) \in Nat
            BY <2>1, FS_Subset, FS_CardinalityType
        <2>3. index.count \in Nat
            BY <1>3, IndexIs
        <2> QED
            BY <2>1, <2>2, <2>3 DEF S, IInv, CInv
    <1>12. QInv' /\ saved.round <= rounds
        <2>1. PICK Q : Placed(Q)
            BY DEF IInv, QInv
        <2>2. PICK R : /\ DOMAIN R = 1 .. rounds + 1 /\ R[rounds + 1] = centroids
                       /\ DOMAIN Q = 1 .. rounds
                       /\ \A r \in DOMAIN Q : r \in DOMAIN R /\ R[r] = Q[r]
            <3> DEFINE R == [r \in 1 .. rounds + 1 |-> IF r = rounds + 1 THEN centroids ELSE Q[r]]
            <3>1. /\ DOMAIN R = 1 .. rounds + 1 /\ R[rounds + 1] = centroids
                  /\ DOMAIN Q = 1 .. rounds
                  /\ \A r \in DOMAIN Q : r \in DOMAIN R /\ R[r] = Q[r]
                BY <1>3, <2>1 DEF Placed
            <3> QED
                BY <3>1
        <2>3. Housed(R, kind, index')
            <3>1. rounds + 1 \in DOMAIN R
                BY <1>3, <2>2
            <3>2. \A c \in Cell : Homes(R[rounds + 1], c, Has(kind, index', index'.cells[c]))
                BY <1>5, <1>7 DEF Homes
            <3> QED
                BY <1>4, <1>5, <2>2, <3>1, <3>2 DEF Housed
        <2>4. Housed(R, kind, disk.meta)
            BY <2>1, <2>2 DEF Placed, Housed
        <2>5. \A c \in Cell : FileHoused(R, c, disk.cell[c])
            BY <2>1, <2>2 DEF Placed, FileHoused
        <2>6. saved.round <= rounds /\ saved.round \in Nat
            BY <2>1 DEF Placed, IInv, XInv
        <2>7. Placed(R)'
            BY <1>1, <1>3, <2>2, <2>3, <2>4, <2>5, <2>6 DEF Placed
        <2> QED
            BY <2>6, <2>7 DEF QInv
    <1>13. SInv'
        <2>1. saved.round \in Nat
            BY DEF IInv, XInv
        <2>2. saved'.round # index'.round
            BY <1>1, <1>3, <1>5, <1>12, <2>1
        <2> QED
            BY <1>1, <2>2 DEF SInv, IInv
    <1> QED
        BY <1>9, <1>10, <1>11, <1>12, <1>13 DEF IInv

LEMMA AppendedTo ==
    ASSUME NEW list \in Seq(Nat), NEW x \in Nat
    PROVE  Append(list, x) \in Seq(Nat) /\ ToSet(Append(list, x)) = ToSet(list) \cup {x}
    <1> DEFINE more == Append(list, x)
    <1>1. /\ more \in Seq(Nat) /\ DOMAIN more = (DOMAIN list) \cup {Len(list) + 1}
          /\ more[Len(list) + 1] = x /\ \A i \in DOMAIN list : more[i] = list[i]
        OBVIOUS
    <1> HIDE DEF more
    <1>2. ToSet(more) = ToSet(list) \cup {x}
        BY <1>1 DEF ToSet
    <1> QED
        BY <1>1, <1>2 DEF more

\* A document goes to the cell of its nearest centroid, and nothing else moves.
LEMMA InsertPlaces ==
    ASSUME IInv, NEW p \in Points, NEW level \in 0 .. MaxLevel, Insert(p, level)
    PROVE  LET home == NearestCentroid(p, index.quantizer)
           IN  /\ home \in Cell /\ p \notin HeldBy(kind, index) /\ index.trained /\ writing = 0
               /\ UNCHANGED <<training, kind, disk, writing, rounds, saved>>
               /\ index' \in IndexOf(kind) /\ Slotted(kind, index') /\ Sized(index', Cells)
               /\ index'.trained /\ index'.quantizer = index.quantizer
               /\ index'.round = index.round /\ index'.count = index.count + 1
               /\ DOMAIN index'.cells = Cell /\ DOMAIN index.cells = Cell
               /\ \A c \in Cell : Has(kind, index', index'.cells[c]) =
                      Has(kind, index, index.cells[c]) \cup (IF c = home THEN {p} ELSE {})
    <1> DEFINE home == NearestCentroid(p, index.quantizer)
    <1>1. /\ writing = 0 /\ index.trained /\ p \notin HeldBy(kind, index)
          /\ UNCHANGED <<training, kind, disk, writing, rounds, saved>>
        BY HeldIs DEF Insert, Ready
    <1>2. /\ index.quantizer \in Seq(Centroid) /\ Len(index.quantizer) = Cells
          /\ index.cells \in Seq(CellOf(kind)) /\ DOMAIN index.cells = Cell
          /\ home \in Cell
        BY <1>1, TrainedIs DEF IInv
    <1>3. /\ kind \in {"IVF", "IVF_HNSW"} /\ index \in IndexOf(kind) /\ Slotted(kind, index)
          /\ index.vectors \in Seq(Points) /\ index.count \in Nat /\ index.round \in Nat
          /\ index = [trained |-> index.trained, quantizer |-> index.quantizer,
                      vectors |-> index.vectors, cells |-> index.cells,
                      count |-> index.count, round |-> index.round]
          /\ Len(index.cells) = Cells /\ Cells \in Nat
        BY <1>1, <1>2, IndexIs, KMeansAssumption DEF IInv, XInv, Sized
    <1>4. CASE kind = "IVF"
        <2> DEFINE list == Append(index.cells[home], index.count + 1)
                   cells == [index.cells EXCEPT ![home] = list]
        <2>1. index' = [index EXCEPT !.vectors = Append(@, p), !.count = @ + 1,
                                     !.cells[home] = Append(@, index.count + 1)]
            BY <1>4 DEF Insert
        <2>2. /\ Len(index.vectors) = index.count
              /\ \A c \in Cell : ToSet(index.cells[c]) \subseteq 1 .. index.count
              /\ \A c \in Cell : index.cells[c] \in Seq(Nat)
            BY <1>2, <1>3, <1>4 DEF Slotted, CellOf
        <2>3. /\ list \in Seq(Nat) /\ ToSet(list) = ToSet(index.cells[home]) \cup {index.count + 1}
            <3>1. index.cells[home] \in Seq(Nat) /\ index.count + 1 \in Nat
                BY <1>2, <1>3, <2>2
            <3> QED
                BY <3>1, AppendedTo
        <2>4. /\ cells \in Seq(Seq(Nat)) /\ DOMAIN cells = Cell /\ Len(cells) = Cells
              /\ cells[home] = list /\ \A c \in Cell \ {home} : cells[c] = index.cells[c]
            BY <1>2, <1>3, <1>4, <2>3 DEF CellOf
        <2> HIDE DEF list
        <2>5. /\ index' = [trained |-> index.trained, quantizer |-> index.quantizer,
                           vectors |-> Append(index.vectors, p), cells |-> cells,
                           count |-> index.count + 1, round |-> index.round]
            BY ONLY <1>3, <2>1 DEF list
        <2> HIDE DEF cells
        <2>6. /\ index'.vectors = Append(index.vectors, p) /\ index'.cells = cells
              /\ index'.count = index.count + 1 /\ index'.quantizer = index.quantizer
              /\ index'.trained = index.trained /\ index'.round = index.round
            BY <2>5
        <2>7. /\ Append(index.vectors, p) \in Seq(Points)
              /\ Len(Append(index.vectors, p)) = index.count + 1
              /\ Append(index.vectors, p)[index.count + 1] = p
              /\ \A slot \in 1 .. index.count : Append(index.vectors, p)[slot] = index.vectors[slot]
            BY <1>3, <2>2
        <2>8. index' \in IndexOf(kind)
            BY <1>2, <1>3, <1>4, <2>4, <2>5, <2>7 DEF IndexOf, CellOf
        <2>9. Slotted(kind, index')
            <3>1. 1 .. index.count \subseteq 1 .. index.count + 1
                  /\ index.count + 1 \in 1 .. index.count + 1
                BY <1>3
            <3>2. ASSUME NEW c \in Cell PROVE ToSet(cells[c]) \subseteq 1 .. index.count + 1
                <4>1. CASE c = home
                    BY <2>2, <2>3, <2>4, <3>1, <4>1
                <4>2. CASE c # home
                    BY <2>2, <2>4, <3>1, <4>2
                <4> QED
                    BY <4>1, <4>2
            <3> QED
                BY <2>4, <2>6, <2>7, <3>2 DEF Slotted
        <2>10. ASSUME NEW c \in Cell
               PROVE  Has(kind, index', cells[c]) =
                          Has(kind, index, index.cells[c]) \cup (IF c = home THEN {p} ELSE {})
            <3>1. Has(kind, index', cells[c])
                      = {Append(index.vectors, p)[slot] : slot \in ToSet(cells[c])}
                BY <1>4, <2>6 DEF Has
            <3>2. Has(kind, index, index.cells[c])
                      = {index.vectors[slot] : slot \in ToSet(index.cells[c])}
                BY <1>4 DEF Has
            <3>3. \A slot \in ToSet(index.cells[c]) :
                      Append(index.vectors, p)[slot] = index.vectors[slot]
                BY <2>2, <2>7
            <3>4. ToSet(cells[c]) = ToSet(index.cells[c])
                                        \cup (IF c = home THEN {index.count + 1} ELSE {})
                BY <2>3, <2>4
            <3> QED
                BY <2>7, <3>1, <3>2, <3>3, <3>4
        <2> QED
            BY <1>1, <1>2, <1>3, <2>4, <2>6, <2>8, <2>9, <2>10 DEF Sized
    <1>5. CASE kind = "IVF_HNSW"
        <2> DEFINE graph == Inserted(index.cells[home], p, p, level)
                   cells == [index.cells EXCEPT ![home] = graph]
        <2>1. index' = [index EXCEPT !.cells[home] = Inserted(@, p, p, level), !.count = @ + 1]
            BY <1>5 DEF Insert
        <2>2. \A c \in Cell : index.cells[c] \in Graphs /\ Has(kind, index, index.cells[c])
                                                              = Named(index.cells[c])
            BY <1>2, <1>5 DEF CellOf, Has
        <2>3. p \notin Named(index.cells[home])
            BY <1>1, <1>2, <2>2 DEF HeldBy
        <2>4. graph \in Graphs /\ Named(graph) = Named(index.cells[home]) \cup {p}
            BY <1>2, <2>2, <2>3, InsertedFilled
        <2> HIDE DEF graph
        <2>5. /\ cells \in Seq(Graphs) /\ DOMAIN cells = Cell /\ Len(cells) = Cells
              /\ cells[home] = graph /\ \A c \in Cell \ {home} : cells[c] = index.cells[c]
            BY <1>2, <1>3, <1>5, <2>4 DEF CellOf
        <2>6. index' = [trained |-> index.trained, quantizer |-> index.quantizer,
                        vectors |-> index.vectors, cells |-> cells,
                        count |-> index.count + 1, round |-> index.round]
            BY ONLY <1>3, <2>1 DEF graph
        <2> HIDE DEF cells
        <2>7. /\ index'.cells = cells
              /\ index'.count = index.count + 1 /\ index'.quantizer = index.quantizer
              /\ index'.trained = index.trained /\ index'.round = index.round
            BY <2>6
        <2>8. index' \in IndexOf(kind)
            BY <1>2, <1>3, <1>5, <2>5, <2>6 DEF IndexOf, CellOf
        <2>9. \A c \in Cell : Has(kind, index', cells[c]) =
                  Has(kind, index, index.cells[c]) \cup (IF c = home THEN {p} ELSE {})
            BY <1>5, <2>2, <2>4, <2>5 DEF Has
        <2> QED
            BY <1>1, <1>2, <1>3, <1>5, <2>5, <2>7, <2>8, <2>9 DEF Sized, Slotted
    <1> QED
        BY <1>3, <1>4, <1>5

LEMMA InsertIInv ==
    ASSUME IInv, NEW p \in Points, NEW level \in 0 .. MaxLevel, Insert(p, level)
    PROVE  IInv'
    <1> DEFINE home == NearestCentroid(p, index.quantizer)
    <1>1. /\ home \in Cell /\ p \notin HeldBy(kind, index) /\ index.trained /\ writing = 0
          /\ kind' = kind /\ disk' = disk /\ writing' = 0 /\ rounds' = rounds /\ saved' = saved
          /\ index' \in IndexOf(kind) /\ Slotted(kind, index') /\ Sized(index', Cells)
          /\ index'.trained /\ index'.quantizer = index.quantizer
          /\ index'.round = index.round /\ index'.count = index.count + 1
          /\ DOMAIN index'.cells = Cell /\ DOMAIN index.cells = Cell
        BY InsertPlaces
    <1>2. \A c \in Cell : Has(kind, index', index'.cells[c]) =
              Has(kind, index, index.cells[c]) \cup (IF c = home THEN {p} ELSE {})
        BY InsertPlaces
    <1> HIDE DEF home
    <1>3. HeldBy(kind, index') = HeldBy(kind, index) \cup {p}
        BY <1>1, <1>2 DEF HeldBy
    <1>4. XInv'
        BY <1>1 DEF IInv, XInv
    <1>5. PInv'
        BY <1>1 DEF PInv
    <1>6. CInv'
        <2> SUFFICES ASSUME kind = "IVF_HNSW"
                     PROVE  /\ IsFiniteSet(HeldBy(kind, index') \cup StoredIn(disk.cell))
                            /\ Cardinality(HeldBy(kind, index') \cup StoredIn(disk.cell))
                                   <= index.count + 1
            BY <1>1 DEF IInv, CInv
        <2> DEFINE U == HeldBy(kind, index) \cup StoredIn(disk.cell)
        <2>1. HeldBy(kind, index') \cup StoredIn(disk.cell) = U \cup {p}
            BY <1>3
        <2>2. IsFiniteSet(U) /\ Cardinality(U) <= index.count /\ index.count \in Nat
            BY IndexIs DEF IInv, CInv, XInv
        <2> HIDE DEF U
        <2>3. /\ IsFiniteSet(U \cup {p}) /\ Cardinality(U) \in Nat
              /\ Cardinality(U \cup {p}) = Cardinality(U)
                     \/ Cardinality(U \cup {p}) = Cardinality(U) + 1
            BY <2>2, FS_AddElement, FS_CardinalityType
        <2>4. Cardinality(U \cup {p}) <= index.count + 1
            BY <2>2, <2>3
        <2> QED
            BY ONLY <2>1, <2>3, <2>4, Zenon
    <1>7. QInv'
        <2>1. PICK Q : Placed(Q)
            BY DEF IInv, QInv
        <2>2. Housed(Q, kind, index')
            <3> SUFFICES ASSUME index.round # 0 PROVE Housed(Q, kind, index')
                BY <1>1 DEF Housed
            <3>1. /\ index.round \in DOMAIN Q /\ index.quantizer = Q[index.round]
                  /\ \A c \in Cell : Homes(index.quantizer, c, Has(kind, index, index.cells[c]))
                BY <1>1, <2>1 DEF Placed, Housed
            <3>2. \A c \in Cell : Homes(index.quantizer, c, Has(kind, index', index'.cells[c]))
                BY <1>2, <3>1 DEF Homes, home
            <3> QED
                BY <1>1, <3>1, <3>2 DEF Housed
        <2>3. Placed(Q)'
            BY <1>1, <2>1, <2>2 DEF Placed
        <2> QED
            BY <2>3 DEF QInv
    <1>8. SInv'
        BY <1>1, <1>3 DEF IInv, SInv
    <1> QED
        BY <1>4, <1>5, <1>6, <1>7, <1>8 DEF IInv

\* What a save writes first.
LEMMA SaveMetaIInv == IInv /\ SaveMeta => IInv'
    <1> SUFFICES ASSUME IInv, SaveMeta PROVE IInv'
        OBVIOUS
    <1> DEFINE meta == IF kind = "IVF" THEN index ELSE [index EXCEPT !.cells = <<>>]
    <1>1. /\ writing = 0 /\ phase = "none" /\ index.trained
          /\ disk' = [disk EXCEPT !.meta = meta]
          /\ UNCHANGED <<training, kind, index, rounds>>
          /\ IF kind = "IVF"
             THEN writing' = 0 /\ saved' = [docs |-> Held, round |-> index.round]
             ELSE writing' = 1 /\ UNCHANGED saved
        BY DEF SaveMeta, Ready
    <1>2. /\ kind \in {"IVF", "IVF_HNSW"} /\ index \in IndexOf(kind) /\ Slotted(kind, index)
          /\ index.quantizer \in Seq(Centroid) /\ index.vectors \in Seq(Points)
          /\ index.count \in Nat /\ index.round \in Nat
          /\ index = [trained |-> index.trained, quantizer |-> index.quantizer,
                      vectors |-> index.vectors, cells |-> index.cells,
                      count |-> index.count, round |-> index.round]
          /\ Sized(index, Cells) /\ Cells \in Nat \ {0}
          /\ disk \in [meta : IndexOf(kind) \cup {NoFile}, cell : [Cell -> CellFile \cup {NoFile}]]
        BY <1>1, IndexIs, KMeansAssumption DEF IInv, XInv
    <1>3. /\ meta \in IndexOf(kind) /\ meta.trained /\ meta.quantizer = index.quantizer
          /\ meta.count = index.count /\ meta.round = index.round
          /\ meta.cells = IF kind = "IVF" THEN index.cells ELSE <<>>
          /\ kind = "IVF" => meta = index
        <2>1. CASE kind = "IVF"
            BY <1>1, <1>2, <2>1
        <2>2. CASE kind = "IVF_HNSW"
            <3>1. meta = [trained |-> index.trained, quantizer |-> index.quantizer,
                          vectors |-> index.vectors, cells |-> <<>>,
                          count |-> index.count, round |-> index.round]
                BY <1>2, <2>2
            <3>2. index.trained \in BOOLEAN /\ <<>> \in Seq(CellOf(kind))
                BY <1>1
            <3> HIDE DEF meta
            <3> QED
                BY <1>1, <1>2, <2>2, <3>1, <3>2 DEF IndexOf
        <2> QED
            BY <1>2, <2>1, <2>2
    <1> HIDE DEF meta
    <1>4. disk'.meta = meta /\ disk'.cell = disk.cell /\ meta # NoFile
        BY <1>1, <1>2, <1>3, IndexIs
    <1>5. Held = HeldBy(kind, index) /\ Held \subseteq Points
        BY HeldIs, HeldIn DEF IInv
    <1>6. XInv'
        <2>1. Slotted(kind, meta) /\ Sized(meta, IF kind = "IVF" THEN Cells ELSE 0)
            BY <1>2, <1>3 DEF Slotted, Sized
        <2>2. disk' \in [meta : IndexOf(kind) \cup {NoFile}, cell : [Cell -> CellFile \cup {NoFile}]]
            BY <1>1, <1>2, <1>3
        <2>3. saved' \in [docs : SUBSET Points, round : Nat] /\ writing' \in 0 .. Cells
            BY <1>1, <1>2, <1>5 DEF IInv, XInv
        <2> QED
            BY <1>1, <1>3, <1>4, <2>1, <2>2, <2>3 DEF IInv, XInv
    <1>7. PInv'
        <2>1. phase' = "none"
            BY <1>1 DEF training
        <2>2. kind = "IVF_HNSW" => meta = [index EXCEPT !.cells = <<>>]
            BY DEF meta
        <2> QED
            BY <1>1, <1>2, <1>4, <2>1, <2>2 DEF PInv
    <1>8. CInv'
        <2> SUFFICES ASSUME kind = "IVF_HNSW"
                     PROVE  Cardinality(StoredIn(disk.cell)) <= index.count
            BY <1>1, <1>3, <1>4 DEF IInv, CInv
        <2> DEFINE U == HeldBy(kind, index) \cup StoredIn(disk.cell)
                   S == StoredIn(disk.cell)
        <2>1. IsFiniteSet(U) /\ Cardinality(U) <= index.count /\ S \in SUBSET U
            BY DEF IInv, CInv
        <2> HIDE DEF U, S
        <2>2. IsFiniteSet(S) /\ Cardinality(S) <= Cardinality(U)
              /\ Cardinality(S) \in Nat /\ Cardinality(U) \in Nat
            BY <2>1, FS_Subset, FS_CardinalityType
        <2> QED
            BY <1>2, <2>1, <2>2 DEF S
    <1>9. QInv'
        <2>1. PICK Q : Placed(Q)
            BY DEF IInv, QInv
        <2>2. Housed(Q, kind, meta)
            <3>1. CASE kind = "IVF"
                BY <1>3, <2>1, <3>1 DEF Placed
            <3>2. CASE kind # "IVF"
                BY <1>3, <2>1, <3>2 DEF Placed, Housed
            <3> QED
                BY <3>1, <3>2
        <2>3. saved'.round <= rounds
            <3>1. index.round <= rounds
                BY <1>2, <2>1 DEF Placed, Housed, IInv, XInv
            <3> QED
                BY <1>1, <2>1, <3>1 DEF Placed
        <2>4. Placed(Q)'
            BY <1>1, <1>4, <2>1, <2>2, <2>3 DEF Placed
        <2> QED
            BY <2>4 DEF QInv
    <1>10. SInv'
        <2>1. CASE kind = "IVF"
            BY <1>1, <1>3, <1>4, <1>5, <2>1 DEF SInv
        <2>2. CASE kind # "IVF"
            BY <1>1, <1>2, <1>3, <1>4, <2>2 DEF IInv, SInv
        <2> QED
            BY <2>1, <2>2
    <1> QED
        BY <1>6, <1>7, <1>8, <1>9, <1>10 DEF IInv

\* The file of one cell.
LEMMA SaveCellIInv == IInv /\ SaveCell => IInv'
    <1> SUFFICES ASSUME IInv, SaveCell PROVE IInv'
        OBVIOUS
    <1> DEFINE w == writing
               file == [graph |-> index.cells[w], round |-> index.round]
    <1>1. /\ w # 0 /\ disk' = [disk EXCEPT !.cell[w] = file]
          /\ writing' = IF w = Cells THEN 0 ELSE w + 1
          /\ saved' = IF w = Cells THEN [docs |-> Held, round |-> index.round] ELSE saved
          /\ phase' = phase /\ kind' = kind /\ index' = index /\ rounds' = rounds
        BY DEF SaveCell, training
    <1>2. /\ phase = "none" /\ kind = "IVF_HNSW" /\ index.trained
          /\ disk.meta = [index EXCEPT !.cells = <<>>]
          /\ \A c \in 1 .. w - 1 :
                 disk.cell[c] = [graph |-> index.cells[c], round |-> index.round]
        BY <1>1 DEF IInv, PInv
    <1>3. /\ index \in IndexOf(kind) /\ index.count \in Nat /\ index.round \in Nat
          /\ index = [trained |-> index.trained, quantizer |-> index.quantizer,
                      vectors |-> index.vectors, cells |-> index.cells,
                      count |-> index.count, round |-> index.round]
          /\ DOMAIN index.cells = Cell /\ Cells \in Nat \ {0} /\ w \in 0 .. Cells
          /\ \A c \in Cell : index.cells[c] \in Graphs
          /\ disk \in [meta : IndexOf(kind) \cup {NoFile}, cell : [Cell -> CellFile \cup {NoFile}]]
        BY <1>2, IndexIs, TrainedIs, KMeansAssumption DEF IInv, XInv, CellOf
    <1>4. w \in Cell /\ file \in CellFile
        BY <1>1, <1>3 DEF Cell, CellFile
    <1>5. disk.meta.round = index.round /\ disk.meta.count = index.count
        BY ONLY <1>2, <1>3
    <1>6. /\ disk'.meta = disk.meta /\ disk'.cell = [disk.cell EXCEPT ![w] = file]
          /\ disk'.cell[w] = file /\ \A c \in Cell \ {w} : disk'.cell[c] = disk.cell[c]
          /\ disk' \in [meta : IndexOf(kind) \cup {NoFile}, cell : [Cell -> CellFile \cup {NoFile}]]
        BY <1>1, <1>3, <1>4
    <1>7. Held = HeldBy(kind, index) /\ Held \subseteq Points
        BY HeldIs, HeldIn DEF IInv
    <1>8. file.graph = index.cells[w] /\ file.round = index.round /\ file # NoFile
          /\ Kept(file) = Named(index.cells[w])
        BY <1>4, FileIs
    <1> HIDE DEF file
    <1>9. \A c \in Cell : Has(kind, index, index.cells[c]) = Named(index.cells[c])
        BY <1>2 DEF Has
    <1>10. HeldBy(kind, index) = UNION {Named(index.cells[c]) : c \in Cell}
        BY <1>3, <1>9 DEF HeldBy
    <1>11. XInv'
        <2>1. saved' \in [docs : SUBSET Points, round : Nat] /\ writing' \in 0 .. Cells
            BY <1>1, <1>3, <1>7 DEF IInv, XInv
        <2> QED
            BY <1>1, <1>6, <2>1 DEF IInv, XInv
    <1>12. PInv'
        <2> SUFFICES ASSUME writing' = w + 1, NEW c \in 1 .. w
                     PROVE  disk'.cell[c] = [graph |-> index.cells[c], round |-> index.round]
            BY <1>1, <1>2, <1>3, <1>6 DEF PInv
        <2>1. CASE c = w
            BY <1>6, <2>1 DEF file
        <2>2. CASE c # w
            <3>1. c \in 1 .. w - 1 /\ c \in Cell
                BY <1>3, <2>2 DEF Cell
            <3> QED
                BY <1>2, <1>6, <2>2, <3>1
        <2> QED
            BY <2>1, <2>2
    <1>13. CInv'
        <2> DEFINE H == HeldBy(kind, index)
                   U == H \cup StoredIn(disk.cell)
                   S == StoredIn(disk'.cell)
        <2>1. IsFiniteSet(U) /\ Cardinality(U) <= index.count
            BY <1>2 DEF IInv, CInv
        <2>2. \A c \in Cell : Kept(disk'.cell[c]) \subseteq U
            <3> SUFFICES ASSUME NEW c \in Cell PROVE Kept(disk'.cell[c]) \subseteq U
                OBVIOUS
            <3>1. CASE c = w
                BY <1>4, <1>6, <1>8, <1>10, <3>1
            <3>2. CASE c # w
                BY <1>6, <3>2 DEF StoredIn
            <3> QED
                BY <3>1, <3>2
        <2>3. S \in SUBSET U /\ H \in SUBSET U /\ H \cup S \in SUBSET U
            BY <2>2 DEF StoredIn
        <2> HIDE DEF H, U, S
        <2>4. /\ IsFiniteSet(H \cup S) /\ Cardinality(H \cup S) <= Cardinality(U)
              /\ Cardinality(S) <= Cardinality(U)
              /\ Cardinality(S) \in Nat /\ Cardinality(U) \in Nat /\ Cardinality(H \cup S) \in Nat
            BY <2>1, <2>3, FS_Subset, FS_CardinalityType
        <2>5. Cardinality(H \cup S) <= index.count /\ Cardinality(S) <= index.count
            BY <1>3, <2>1, <2>4
        <2> QED
            BY <1>1, <1>5, <1>6, <2>4, <2>5 DEF CInv, H, S
    <1>14. PICK Q : Placed(Q)
        BY DEF IInv, QInv
    <1>15. QInv'
        <2>1. FileHoused(Q, w, file)
            BY <1>3, <1>4, <1>8, <1>9, <1>14 DEF Placed, Housed, FileHoused
        <2>2. \A c \in Cell : FileHoused(Q, c, disk'.cell[c])
            BY <1>6, <1>14, <2>1 DEF Placed
        <2>3. saved'.round <= rounds
            <3>1. index.round <= rounds
                BY <1>3, <1>14 DEF Placed, Housed, IInv, XInv
            <3> QED
                BY <1>1, <1>14, <3>1 DEF Placed
        <2>4. Placed(Q)'
            BY <1>1, <1>6, <1>14, <2>2, <2>3 DEF Placed
        <2> QED
            BY <2>4 DEF QInv
    <1>16. SInv'
        <2> SUFFICES ASSUME saved'.round # 0
                     PROVE  /\ saved'.round = index.round =>
                                   saved'.docs \subseteq HeldBy(kind, index)
                                   /\ disk'.meta.round = saved'.round
                            /\ saved'.round = disk'.meta.round =>
                                   \A d \in saved'.docs : \E c \in Cell :
                                       disk'.cell[c].round = saved'.round
                                       /\ d \in Kept(disk'.cell[c])
            BY <1>1, <1>2 DEF SInv
        <2>1. CASE w = Cells
            <3>1. saved'.docs = HeldBy(kind, index) /\ saved'.round = index.round
                BY <1>1, <1>7, <2>1
            <3>2. ASSUME NEW c \in Cell
                  PROVE  disk'.cell[c].round = index.round
                         /\ Kept(disk'.cell[c]) = Named(index.cells[c])
                <4>1. CASE c = w
                    BY <1>6, <1>8, <4>1
                <4>2. CASE c # w
                    <5>1. c \in 1 .. w - 1
                        BY <1>3, <2>1, <4>2 DEF Cell
                    <5>2. disk'.cell[c] = [graph |-> index.cells[c], round |-> index.round]
                        BY <1>2, <1>6, <4>2, <5>1
                    <5>3. disk'.cell[c] \in CellFile
                        BY <1>3, <5>2 DEF CellFile
                    <5> QED
                        BY <5>2, <5>3, FileIs
                <4> QED
                    BY <4>1, <4>2
            <3>3. \A d \in HeldBy(kind, index) : \E c \in Cell : d \in Named(index.cells[c])
                BY <1>10
            <3> QED
                BY <1>5, <1>6, <3>1, <3>2, <3>3
        <2>2. CASE w # Cells
            <3>1. saved' = saved
                BY <1>1, <2>2
            <3>2. /\ saved.round = index.round =>
                         saved.docs \subseteq HeldBy(kind, index) /\ disk.meta.round = saved.round
                  /\ saved.round = disk.meta.round =>
                         \A d \in saved.docs : \E c \in Cell :
                             disk.cell[c].round = saved.round /\ d \in Kept(disk.cell[c])
                BY <1>2, <3>1 DEF IInv, SInv
            <3>3. ASSUME saved.round = disk.meta.round, NEW d \in saved.docs
                  PROVE  \E c \in Cell : disk'.cell[c].round = saved.round
                                         /\ d \in Kept(disk'.cell[c])
                <4>1. PICK c \in Cell : disk.cell[c].round = saved.round /\ d \in Kept(disk.cell[c])
                    BY <3>2, <3>3
                <4>2. CASE c # w
                    BY <1>6, <4>1, <4>2
                <4>3. CASE c = w
                    <5>1. saved.round = index.round /\ d \in HeldBy(kind, index)
                        BY <1>5, <3>2, <3>3
                    <5>2. PICK b \in Cell : d \in Named(index.cells[b])
                        BY <1>10, <5>1
                    <5>3. NearestCentroid(d, Q[index.round]) = w
                        BY <1>14, <3>1, <4>1, <4>3, <5>1 DEF Placed, FileHoused, Homes
                    <5>4. NearestCentroid(d, Q[index.round]) = b
                        BY <1>3, <1>9, <1>14, <3>1, <5>1, <5>2 DEF Placed, Housed, Homes
                    <5> QED
                        BY <1>4, <1>6, <1>8, <5>1, <5>2, <5>3, <5>4
                <4> QED
                    BY <4>2, <4>3
            <3> QED
                BY <1>6, <3>1, <3>2, <3>3
        <2> QED
            BY <2>1, <2>2
    <1> QED
        BY <1>11, <1>12, <1>13, <1>15, <1>16 DEF IInv

\* What the next process has.
LEMMA ReopenIInv == IInv /\ Reopen => IInv'
    <1> SUFFICES ASSUME IInv, Reopen PROVE IInv'
        OBVIOUS
    <1> DEFINE meta == disk.meta
    <1>1. /\ phase = "none" /\ meta # NoFile /\ writing' = 0
          /\ index' = IF kind = "IVF" THEN meta
                      ELSE [meta EXCEPT !.cells = [c \in Cell |-> LoadedCell(disk.cell[c])],
                                        !.round = IF Coherent THEN @ ELSE 0]
          /\ kind' = kind /\ disk' = disk /\ rounds' = rounds /\ saved' = saved
        BY DEF Reopen
    <1>2. /\ kind \in {"IVF", "IVF_HNSW"} /\ meta \in IndexOf(kind) /\ Slotted(kind, meta)
          /\ meta.trained /\ Sized(meta, IF kind = "IVF" THEN Cells ELSE 0)
          /\ disk.cell \in [Cell -> CellFile \cup {NoFile}] /\ Cells \in Nat \ {0}
        BY <1>1, KMeansAssumption DEF IInv, XInv
    <1>3. /\ meta.quantizer \in Seq(Centroid) /\ meta.vectors \in Seq(Points)
          /\ meta.count \in Nat /\ meta.round \in Nat
          /\ meta = [trained |-> meta.trained, quantizer |-> meta.quantizer,
                     vectors |-> meta.vectors, cells |-> meta.cells,
                     count |-> meta.count, round |-> meta.round]
        BY <1>2, IndexIs
    <1>4. PICK Q : Placed(Q)
        BY DEF IInv, QInv
    <1>5. PInv'
        BY <1>1 DEF PInv
    <1>6. CASE kind = "IVF"
        <2>1. index' = meta
            BY <1>1, <1>6
        <2>2. XInv'
            BY <1>1, <1>2, <1>6, <2>1 DEF IInv, XInv
        <2>3. CInv'
            BY <1>1, <1>6 DEF CInv
        <2>4. Placed(Q)'
            BY <1>1, <1>4, <2>1 DEF Placed
        <2>5. SInv'
            BY <1>1, <1>6, <2>1 DEF IInv, SInv
        <2> QED
            BY <1>5, <2>2, <2>3, <2>4, <2>5 DEF IInv, QInv
    <1>7. CASE kind = "IVF_HNSW"
        <2> DEFINE cells == [c \in Cell |-> LoadedCell(disk.cell[c])]
                   round == IF Coherent THEN meta.round ELSE 0
        <2>1. ASSUME NEW c \in Cell
              PROVE  LoadedCell(disk.cell[c]) \in Graphs
                     /\ Named(LoadedCell(disk.cell[c])) = Kept(disk.cell[c])
            <3>1. CASE disk.cell[c] = NoFile
                BY <1>7, <3>1, EmptyFilled DEF LoadedCell, EmptyCell, Kept
            <3>2. CASE disk.cell[c] # NoFile
                <4>1. disk.cell[c] \in CellFile
                    BY <1>2, <3>2
                <4> QED
                    BY <3>2, <4>1, FileIs, LoadedFilled DEF LoadedCell
            <3> QED
                BY <3>1, <3>2
        <2>2. /\ cells \in Seq(CellOf(kind)) /\ Len(cells) = Cells /\ DOMAIN cells = Cell
              /\ \A c \in Cell : cells[c] = LoadedCell(disk.cell[c])
            BY <1>2, <1>7, <2>1 DEF Cell, CellOf
        <2>3. round \in Nat /\ (round # 0 => Coherent /\ round = meta.round)
            BY <1>3
        <2>4. index' = [trained |-> meta.trained, quantizer |-> meta.quantizer,
                        vectors |-> meta.vectors, cells |-> cells,
                        count |-> meta.count, round |-> round]
            <3>1. index' = [meta EXCEPT !.cells = cells, !.round = round]
                BY <1>1, <1>3, <1>7
            <3> HIDE DEF cells, round, meta
            <3> QED
                BY ONLY <1>3, <3>1
        <2> HIDE DEF cells, round
        <2>5. /\ index'.trained = meta.trained /\ index'.quantizer = meta.quantizer
              /\ index'.cells = cells /\ index'.count = meta.count /\ index'.round = round
            BY <2>4
        <2>6. \A c \in Cell : Has(kind, index', cells[c]) = Kept(disk.cell[c])
            BY <1>7, <2>1, <2>2 DEF Has
        <2>7. HeldBy(kind, index') = StoredIn(disk.cell)
            BY <2>2, <2>5, <2>6 DEF HeldBy, StoredIn
        <2>8. XInv'
            <3>1. index' \in IndexOf(kind)
                BY <1>2, <1>3, <2>2, <2>3, <2>4 DEF IndexOf
            <3>2. Sized(index', Cells) /\ Slotted(kind, index')
                BY <1>2, <1>7, <2>2, <2>5 DEF Sized, Slotted
            <3> QED
                BY <1>1, <1>2, <2>5, <3>1, <3>2 DEF IInv, XInv
        <2>9. CInv'
            <3> DEFINE S == StoredIn(disk.cell)
                       U == HeldBy(kind, index) \cup S
            <3>1. IsFiniteSet(U) /\ S \in SUBSET U /\ Cardinality(S) <= meta.count
                BY <1>1, <1>7 DEF IInv, CInv
            <3> HIDE DEF U
            <3>2. IsFiniteSet(S)
                BY <3>1, FS_Subset
            <3>3. HeldBy(kind, index') \cup S = S
                BY <2>7
            <3> HIDE DEF S
            <3>4. IsFiniteSet(HeldBy(kind, index') \cup S)
                  /\ Cardinality(HeldBy(kind, index') \cup S) = Cardinality(S)
                BY ONLY <3>2, <3>3, Zenon
            <3> QED
                BY <1>1, <2>5, <3>1, <3>4 DEF CInv, S
        <2>10. QInv'
            <3>1. Housed(Q, kind, index')
                <4> SUFFICES ASSUME round # 0 PROVE Housed(Q, kind, index')
                    BY <2>5 DEF Housed
                <4>1. /\ round = meta.round /\ round \in DOMAIN Q /\ meta.quantizer = Q[round]
                    BY <1>4, <2>3 DEF Placed, Housed
                <4>2. ASSUME NEW c \in Cell PROVE Homes(Q[round], c, Kept(disk.cell[c]))
                    <5>1. CASE disk.cell[c] = NoFile
                        BY <5>1 DEF Kept, Homes
                    <5>2. CASE disk.cell[c] # NoFile
                        <6>1. disk.cell[c].round = round
                            BY <2>3, <4>1, <5>2 DEF Coherent
                        <6> QED
                            BY <1>4, <6>1 DEF Placed, FileHoused
                    <5> QED
                        BY <5>1, <5>2
                <4> QED
                    BY <1>2, <2>2, <2>5, <2>6, <4>1, <4>2 DEF Housed
            <3>2. Placed(Q)'
                BY <1>1, <1>4, <3>1 DEF Placed
            <3> QED
                BY <3>2 DEF QInv
        <2>11. SInv'
            <3> SUFFICES ASSUME saved.round # 0, saved.round = round
                         PROVE  saved.docs \subseteq StoredIn(disk.cell)
                                /\ meta.round = saved.round
                BY <1>1, <1>7, <2>5, <2>7 DEF IInv, SInv
            <3>1. saved.round = meta.round
                BY <2>3
            <3>2. \A d \in saved.docs : \E c \in Cell : d \in Kept(disk.cell[c])
                BY <1>7, <3>1 DEF IInv, SInv
            <3> QED
                BY <3>1, <3>2 DEF StoredIn
        <2> QED
            BY <1>5, <2>8, <2>9, <2>10, <2>11 DEF IInv
    <1> QED
        BY <1>2, <1>6, <1>7

LEMMA NextIInv == KInv /\ IInv /\ [Next]_vars => IInv'
    <1> SUFFICES ASSUME KInv, IInv, [Next]_vars PROVE IInv'
        OBVIOUS
    <1>1. CASE \E set \in Trainings : Train(set)
        BY <1>1, TrainingIInv DEF Train, Ready
    <1>2. CASE Iterate
        <2>1. phase # "none"
            BY <1>2 DEF Iterate, KMeansNext, Seed, Assign, Update
        <2>2. writing = 0
            BY <2>1 DEF IInv, PInv
        <2> QED
            BY <1>2, <2>2, TrainingIInv DEF Iterate
    <1>3. CASE Adopt
        BY <1>3, AdoptIInv
    <1>4. CASE \E p \in Points, level \in 0 .. MaxLevel : Insert(p, level)
        BY <1>4, InsertIInv
    <1>5. CASE SaveMeta
        BY <1>5, SaveMetaIInv
    <1>6. CASE SaveCell
        BY <1>6, SaveCellIInv
    <1>7. CASE Reopen
        BY <1>7, ReopenIInv
    <1>8. CASE UNCHANGED vars
        <2>1. writing # 0 => phase' = "none"
            BY <1>8 DEF vars, training, IInv, PInv
        <2> QED
            BY <1>8, <2>1, TrainingIInv DEF vars
    <1> QED
        BY <1>1, <1>2, <1>3, <1>4, <1>5, <1>6, <1>7, <1>8 DEF Next

\* The invariant: of training (KInv, MInv, DInv, NInv), and of the index, the files
\* and a save that is running (IInv).
THEOREM IndexInvariant == Spec => [](KInv /\ MInv /\ DInv /\ NInv /\ IInv)
    <1>1. Init => KInv /\ MInv /\ DInv /\ NInv /\ IInv
        BY InitKInv, InitNInv, InitIInv
    <1>2. KInv /\ MInv /\ DInv /\ NInv /\ IInv /\ [Next]_vars
              => (KInv /\ MInv /\ DInv /\ NInv /\ IInv)'
        BY NextKInv, NextNInv, NextIInv
    <1> QED
        BY <1>1, <1>2, PTL DEF Spec

-----------------------------------------------------------------------------
(* What the invariant says to a caller.                                    *)

\* The documents of an IVFIndex are among its vectors, which are counted.
LEMMA HeldFinite ==
    ASSUME IInv
    PROVE  /\ IsFiniteSet(HeldBy(kind, index)) /\ Cardinality(HeldBy(kind, index)) \in Nat
           /\ Cardinality(HeldBy(kind, index)) <= index.count
    <1> DEFINE H == HeldBy(kind, index)
    <1>1. kind \in {"IVF", "IVF_HNSW"} /\ index.count \in Nat /\ Slotted(kind, index)
        BY IndexIs DEF IInv, XInv
    <1>2. CASE kind = "IVF"
        <2> DEFINE S == 1 .. index.count
                   V == {index.vectors[slot] : slot \in S}
        <2>1. IsFiniteSet(S) /\ Cardinality(S) = index.count
            <3>1. 1 \in Int /\ index.count \in Int /\ ~(1 > index.count + 1)
                BY <1>1
            <3> QED
                BY ONLY <1>1, <3>1, FS_Interval, SMTT(30)
        <2>2. IsFiniteSet(V) /\ Cardinality(V) <= Cardinality(S)
            <3> DEFINE at == [slot \in S |-> index.vectors[slot]]
            <3>1. at \in Surjection(S, V)
                BY Zenon DEF Surjection
            <3> HIDE DEF S, V, at
            <3> QED
                BY <2>1, <3>1, FS_Surjection
        <2>3. H \in SUBSET V
            BY <1>1, <1>2 DEF HeldBy, Has, Slotted
        <2> HIDE DEF S, V, H
        <2>4. /\ IsFiniteSet(H) /\ Cardinality(H) <= Cardinality(V)
              /\ Cardinality(H) \in Nat /\ Cardinality(V) \in Nat
            BY <2>2, <2>3, FS_Subset, FS_CardinalityType
        <2> QED
            BY <1>1, <2>1, <2>2, <2>4 DEF H
    <1>3. CASE kind = "IVF_HNSW"
        <2> DEFINE U == H \cup StoredIn(disk.cell)
        <2>1. IsFiniteSet(U) /\ Cardinality(U) <= index.count /\ H \in SUBSET U
            BY <1>3 DEF IInv, CInv
        <2> HIDE DEF H, U
        <2>2. /\ IsFiniteSet(H) /\ Cardinality(H) <= Cardinality(U)
              /\ Cardinality(H) \in Nat /\ Cardinality(U) \in Nat
            BY <2>1, FS_Subset, FS_CardinalityType
        <2> QED
            BY <1>1, <2>1, <2>2 DEF H
    <1> QED
        BY <1>1, <1>2, <1>3

\* Type correctness: an index is trained if and only if it has all its centroids
\* and cells, an IVFIndex has as many vectors as it counts, and however trainings,
\* crashes and loads follow each other no index has more documents than it counts.
THEOREM TypeCorrect == Spec => []TypeOK
    <1>1. KInv /\ IInv => TypeOK
        <2> SUFFICES ASSUME KInv, IInv PROVE TypeOK
            OBVIOUS
        <2>1. Len(index.quantizer) = Cells <=> index.trained
            <3>1. Len(<<>>) = 0 /\ Cells # 0
                BY KMeansAssumption
            <3> QED
                BY <3>1, IndexIs DEF IInv, XInv, Sized
        <2>2. Len(index.cells) = Cells <=> index.trained
            <3>1. Len(<<>>) = 0 /\ Cells # 0
                BY KMeansAssumption
            <3> QED
                BY <3>1, IndexIs DEF IInv, XInv, Sized
        <2>3. kind = "IVF" => Len(index.vectors) = index.count
            BY DEF IInv, XInv, Slotted
        <2>4. Cardinality(Held) <= index.count
            BY HeldFinite, HeldIs
        <2>5. iteration <= MaxIter
            BY KMeansAssumption DEF KInv
        <2> QED
            BY <2>1, <2>2, <2>3, <2>4, <2>5 DEF TypeOK, KInv, IInv, XInv
    <1> QED
        BY <1>1, IndexInvariant, PTL

\* Training ends with every vector in the cell of its nearest centroid and every
\* centroid the mean of its cell, for every training set, every draw, every tie
\* and every cell that runs empty, unless the last iteration cut it off or the
\* data is so large that a vector may still move.
THEOREM TrainingConverges ==
    ASSUME \A set \in Trainings : Len(set) <= Tol
    PROVE  Spec => [](iteration < MaxIter => Trained)
    <1>1. DInv => (iteration < MaxIter => Trained)
        BY DEF DInv
    <1> QED
        BY <1>1, IndexInvariant, PTL

\* Lloyd's algorithm never makes a clustering worse, whatever is drawn for the cells
\* that ran empty and however ties are broken: the sum of the squared distances of all
\* vectors to their nearest centroids is at most what it was before the means were taken.
THEOREM ClusteringImproves == Spec => InertiaFalls
    <1> DEFINE A == phase = "update" /\ phase' # "none" => Inertia(centroids') <= Inertia(centroids)
    <1>1. KInv /\ MInv /\ NInv /\ [Next]_vars => [A]_training
        <2> SUFFICES ASSUME KInv, MInv, NInv, [Next]_vars, phase = "update", phase' # "none",
                            training' # training
                     PROVE  Inertia(centroids') <= Inertia(centroids)
            OBVIOUS
        <2>1. Update
            BY NextTrains DEF Begin, Seed, Assign, Reset
        <2> QED
            BY <2>1, UpdateImproves
    <1>2. Spec => [][A]_training
        BY <1>1, IndexInvariant, PTL DEF Spec
    <1> QED
        BY <1>2 DEF InertiaFalls

\* A cell of an IVFIndex contributes all it has.  A search of a graph is known to be
\* exact as long as every node fits in the list of every other.
AllFit ==
    \/ kind = "IVF"
    \/ IsFiniteSet(Points) /\ \A c \in DOMAIN index.cells : Len(index.cells[c].nodes) <= M0 + 1

LEMMA SearchCellsIs ==
    ASSUME IInv, AllFit, index.trained, NEW q \in Points, NEW k \in Nat, NEW nprobe,
           NEW allowed, NearestCentroids(q, index.quantizer, nprobe) \subseteq Cell
    PROVE  SearchCells(q, k, Wide, nprobe, allowed) =
               NearestOf(UNION {Has(kind, index, index.cells[c]) \cap allowed :
                                    c \in NearestCentroids(q, index.quantizer, nprobe)}, q, k)
    <1> DEFINE D == NearestCentroids(q, index.quantizer, nprobe)
               H == [c \in D |-> Has(kind, index, index.cells[c]) \cap allowed]
               F == [c \in D |-> FoundIn(index.cells[c], q, k, Wide, allowed)]
    <1>1. kind \in {"IVF", "IVF_HNSW"} /\ DOMAIN index.cells = Cell
          /\ index.cells \in Seq(CellOf(kind))
        BY TrainedIs DEF IInv, XInv
    <1>2. \A c \in Cell : Has(kind, index, index.cells[c]) \subseteq HeldBy(kind, index)
        BY <1>1 DEF HeldBy
    <1>3. IsFiniteSet(HeldBy(kind, index)) /\ HeldBy(kind, index) \subseteq Points
        BY HeldFinite, HeldIn DEF IInv
    <1> DEFINE U == UNION {H[c] : c \in D}
               T == UNION {F[c] : c \in D}
    <1>4. U \in SUBSET HeldBy(kind, index)
        BY <1>2
    <1>5. IsFiniteSet(U) /\ U \subseteq Points
        <2> HIDE DEF U
        <2> QED
            BY <1>3, <1>4, FS_Subset
    <1>6. ASSUME NEW c \in D
          PROVE  F[c] \subseteq H[c] /\ NearestOf(H[c], q, k) \subseteq F[c]
        <2>1. CASE kind = "IVF"
            <3>1. F[c] = DocsOf(index.cells[c]) \cap allowed
                BY <2>1 DEF FoundIn
            <3>2. F[c] = H[c]
                BY <3>1, HeldIs
            <3> HIDE DEF F, H
            <3> QED
                BY <3>2, NearestOfIs
        <2>2. CASE kind = "IVF_HNSW"
            <3>1. c \in Cell /\ index.cells[c] \in Graphs
                BY <1>1, <2>2 DEF CellOf
            <3>2. IsFiniteSet(Points) /\ Len(index.cells[c].nodes) <= M0 + 1
                BY <1>1, <2>2, <3>1 DEF AllFit
            <3>3. F[c] = Offers(index.cells[c], q, k, allowed)
                BY <2>2 DEF FoundIn, Offers
            <3>4. F[c] = NearestOf(Named(index.cells[c]) \cap allowed, q, k)
                BY <3>1, <3>2, <3>3, FilledSearch
            <3>5. H[c] = Named(index.cells[c]) \cap allowed
                BY <2>2 DEF Has
            <3> HIDE DEF F, H
            <3> QED
                BY <3>4, <3>5, NearestOfIs
        <2> QED
            BY <1>1, <2>1, <2>2
    <1>7. SearchCells(q, k, Wide, nprobe, allowed) = NearestOf(T, q, k)
        <2>1. {FoundIn(index.cells[c], q, k, Wide, allowed) : c \in D} = {F[c] : c \in D}
            OBVIOUS
        <2> QED
            BY <2>1 DEF SearchCells, NearestOf
    <1>8. {H[c] : c \in D} = {Has(kind, index, index.cells[c]) \cap allowed : c \in D}
        OBVIOUS
    <1> HIDE DEF F, H, D
    <1>9. /\ \A p \in U : \E c \in D : p \in H[c]
          /\ \A p \in T : \E c \in D : p \in F[c]
          /\ \A c \in D : H[c] \subseteq U /\ F[c] \subseteq T
        OBVIOUS
    <1> HIDE DEF U, T
    <1>10. NearestOf(T, q, k) = NearestOf(U, q, k)
        <2>1. T \in SUBSET U /\ \A c \in D : H[c] \in SUBSET U
            BY <1>6, <1>9
        <2>2. NearestOf(U, q, k) \subseteq T
            <3> SUFFICES ASSUME NEW p \in NearestOf(U, q, k) PROVE p \in T
                OBVIOUS
            <3>1. p \in U
                BY NearestOfIs
            <3>2. PICK c \in D : p \in H[c]
                BY <1>9, <3>1
            <3>3. p \in NearestOf(H[c], q, k)
                BY <1>5, <2>1, <3>2, NearestOfFewer
            <3> QED
                BY <1>6, <1>9, <3>3
        <2> QED
            BY <1>5, <2>1, <2>2, NearestOfPart
    <1> QED
        BY <1>7, <1>8, <1>10 DEF D, U

\* The nearest point to one that is there is that one.
LEMMA NearestToItself ==
    ASSUME NEW S, S \subseteq Points, IsFiniteSet(S), NEW p \in S
    PROVE  NearestOf(S, p, 1) = {p}
    <1>1. ASSUME NEW r \in S PROVE Cardinality(Within(S, p, r)) < 1 <=> r = p
        <2>1. p \in Nat /\ r \in Nat /\ \A s \in S : s \in Nat
            BY GraphAssumption
        <2>2. r = p => \A s \in S : ~(Gap(p, s) < Gap(p, r))
            BY <2>1 DEF Gap
        <2>3. r # p => Gap(p, p) < Gap(p, r)
            BY <2>1 DEF Gap
        <2>4. Within(S, p, r) = {} <=> r = p
            BY <2>2, <2>3 DEF Within
        <2>5. IsFiniteSet(Within(S, p, r)) /\ Cardinality(Within(S, p, r)) \in Nat
            BY WithinFinite
        <2>6. Cardinality(Within(S, p, r)) = 0 <=> Within(S, p, r) = {}
            BY <2>5, FS_EmptySet
        <2> QED
            BY <2>4, <2>5, <2>6
    <1> QED
        BY <1>1, NearestOfIs

\* For every training set and draw, every set of vectors and order of insertions,
\* trainings, saves, crashes and loads: the cell a vector is put into is the cell a
\* search for it probes first; a search that probes all cells finds the nearest of all
\* documents, each cell trimming its own; and what a save has finished is still there.
\* The exception is an index whose cells belong to another training than its centroids,
\* and the assumption is that every cell of an IVFHNSWIndex fits in one list of links.
THEOREM SearchesAreExact == Spec => [](AllFit => SearchIsExact)
    <1>1. IInv => (AllFit => SearchIsExact)
        <2> SUFFICES ASSUME IInv, AllFit, Ready, index.round # 0
                     PROVE  /\ \A p \in Held : SearchCells(p, 1, Wide, 1, Points) = {p}
                            /\ \A q, out \in Points, topK \in 1 .. 2 :
                                   SearchCells(q, topK, Wide, Cells, Points \ {out})
                                       = NearestOf(Held \ {out}, q, topK)
                            /\ saved.round = index.round => saved.docs \subseteq Held
            BY DEF SearchIsExact
        <2>1. PICK Q : Placed(Q)
            BY DEF IInv, QInv
        <2>2. index.trained /\ index.quantizer = Q[index.round]
            BY <2>1 DEF Placed, Housed
        <2>3. /\ index.quantizer \in Seq(Centroid) /\ Len(index.quantizer) = Cells /\ Cells > 0
              /\ DOMAIN index.cells = Cell /\ DOMAIN index.quantizer = Cell
              /\ \A p \in Points : p \in Nat /\ NearestCentroid(p, index.quantizer) \in Cell
            BY <2>2, TrainedIs DEF IInv
        <2>4. Held = HeldBy(kind, index) /\ Held \subseteq Points /\ IsFiniteSet(Held)
            BY HeldIs, HeldIn, HeldFinite DEF IInv
        <2>5. Held = UNION {Has(kind, index, index.cells[c]) : c \in Cell}
            BY <2>3, <2>4 DEF HeldBy
        <2>6. ASSUME NEW p \in Held PROVE SearchCells(p, 1, Wide, 1, Points) = {p}
            <3> DEFINE home == NearestCentroid(p, index.quantizer)
                       S == Has(kind, index, index.cells[home])
            <3>1. p \in Points /\ p \in Nat /\ home \in Cell
                BY <2>3, <2>4
            <3>2. NearestCentroids(p, index.quantizer, 1) = {home}
                BY <2>3, <3>1, ProbedAre
            <3>3. PICK c \in Cell : p \in Has(kind, index, index.cells[c])
                BY <2>5
            <3>4. c = home
                BY <2>1, <2>2, <2>3, <3>3 DEF Placed, Housed, Homes
            <3>5. p \in S /\ S \in SUBSET Held
                BY <2>5, <3>1, <3>3, <3>4
            <3>6. S \subseteq Points /\ IsFiniteSet(S)
                <4> HIDE DEF S
                <4> QED
                    BY <2>4, <3>5, FS_Subset
            <3> HIDE DEF home
            <3>7. SearchCells(p, 1, Wide, 1, Points)
                      = NearestOf(UNION {Has(kind, index, index.cells[d]) \cap Points :
                                             d \in {home}}, p, 1)
                BY <2>2, <3>1, <3>2, SearchCellsIs
            <3>8. UNION {Has(kind, index, index.cells[d]) \cap Points : d \in {home}} = S
                BY <3>6
            <3> HIDE DEF S
            <3> QED
                BY <3>5, <3>6, <3>7, <3>8, NearestToItself
        <2>7. ASSUME NEW q \in Points, NEW out \in Points, NEW k \in 1 .. 2
              PROVE  SearchCells(q, k, Wide, Cells, Points \ {out}) = NearestOf(Held \ {out}, q, k)
            <3>1. NearestCentroids(q, index.quantizer, Cells) = Cell
                BY <2>3, ProbedAre
            <3>2. SearchCells(q, k, Wide, Cells, Points \ {out})
                      = NearestOf(UNION {Has(kind, index, index.cells[c]) \cap (Points \ {out}) :
                                             c \in Cell}, q, k)
                BY <2>2, <3>1, SearchCellsIs
            <3>3. UNION {Has(kind, index, index.cells[c]) \cap (Points \ {out}) : c \in Cell}
                      = Held \ {out}
                BY <2>4, <2>5
            <3> QED
                BY <3>2, <3>3
        <2>8. saved.round = index.round => saved.docs \subseteq Held
            BY <2>4 DEF IInv, SInv
        <2> QED
            BY <2>6, <2>7, <2>8
    <1> QED
        BY <1>1, IndexInvariant, PTL

=============================================================================
