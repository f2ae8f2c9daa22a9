-------------------------- MODULE HnswSearchProofs --------------------------
(* Proofs about HnswSearch: what overlapping searches may touch; that a    *)
(* search that overlaps with no other returns what the graph gives, and    *)
(* that of searches that overlap only repetitions hide a document.         *)
EXTENDS HnswSearch, HnswGraphProofs, SequenceTheorems

-----------------------------------------------------------------------------
(* Heaps: sequences of nodes, nearest first.                               *)

Ordered(g, q, heap) ==
    \A i, j \in 1 .. Len(heap) : i < j => ~Nearer(g, q, heap[j], heap[i])

Single(heap) == \A i, j \in 1 .. Len(heap) : heap[i] = heap[j] => i = j

LEMMA DownIsInterval ==
    ASSUME NEW k \in Nat, NEW S \in SUBSET (1 .. k),
           \A i \in S : \A j \in 1 .. k : j < i => j \in S
    PROVE  Cardinality(S) \in 0 .. k /\ S = 1 .. Cardinality(S)
    <1>1. CASE S = {}
        <2>1. 1 .. 0 = {} /\ Cardinality({}) = 0
            BY FS_EmptySet
        <2> QED
            BY <1>1, <2>1
    <1>2. CASE S # {}
        <2> DEFINE m == Max(S)
        <2>1. m \in S
            BY <1>2, MaxIn
        <2>2. \A i \in S : i <= m
            <3> DEFINE T == {k - i : i \in S}
            <3>1. \A i \in S : i \in Nat /\ k - i \in Nat
                OBVIOUS
            <3>2. T \subseteq Nat /\ T # {}
                BY <1>2, <3>1
            <3>3. PICK t \in T : \A u \in T : t <= u
                BY <3>2, LeastNat
            <3>4. PICK i \in S : t = k - i
                OBVIOUS
            <3>5. \A j \in S : i >= j
                <4> SUFFICES ASSUME NEW j \in S PROVE i >= j
                    OBVIOUS
                <4>1. k - i <= k - j
                    BY <3>3, <3>4
                <4>2. i \in Nat /\ j \in Nat
                    BY <3>1
                <4> HIDE DEF T
                <4> QED
                    BY <4>1, <4>2
            <3>6. \A j \in S : m >= j
                BY <3>5 DEF Max
            <3> QED
                BY <2>1, <3>1, <3>6
        <2> HIDE DEF m
        <2>3. m \in Nat /\ m \in 1 .. k
            BY <2>1
        <2>4. S = 1 .. m
            <3>1. \A i \in S : i \in 1 .. m
                BY <2>2
            <3>2. \A j \in 1 .. m : j \in S
                <4> SUFFICES ASSUME NEW j \in 1 .. m PROVE j \in S
                    OBVIOUS
                <4>1. j = m \/ j < m
                    BY <2>3
                <4>2. j \in 1 .. k
                    BY <2>3
                <4> QED
                    BY <2>1, <4>1, <4>2
            <3> QED
                BY <3>1, <3>2
        <2>5. Cardinality(1 .. m) = m
            BY <2>3, FS_Interval
        <2> QED
            BY <2>3, <2>4, <2>5
    <1> QED
        BY <1>1, <1>2

\* A node goes behind the nearer ones.
LEMMA PushedIs ==
    ASSUME NEW c \in Nat, graph \in GraphOf(c), NEW q \in Points, NEW heap \in Seq(1 .. c),
           Ordered(graph, q, heap), NEW n \in 1 .. c
    PROVE  /\ Pushed(heap, q, n) \in Seq(1 .. c) /\ Len(Pushed(heap, q, n)) = Len(heap) + 1
           /\ Ordered(graph, q, Pushed(heap, q, n))
           /\ ToSet(Pushed(heap, q, n)) = ToSet(heap) \cup {n}
           /\ Single(heap) /\ n \notin ToSet(heap) => Single(Pushed(heap, q, n))
    <1> DEFINE k == Len(heap)
               S == {i \in DOMAIN heap : Nearer(graph, q, heap[i], n)}
               p == Cardinality(S)
               h == Pushed(heap, q, n)
               D(m) == Dist(q, graph.nodes[m].at)
    <1>1. k \in Nat /\ DOMAIN heap = 1 .. k /\ \A i \in 1 .. k : heap[i] \in 1 .. c
        OBVIOUS
    <1>2. \A m \in 1 .. c : D(m) \in Nat
        BY NearerIsOrder
    <1>3. \A a, b \in 1 .. c : Nearer(graph, q, a, b) <=> D(a) < D(b)
        BY DEF Nearer
    <1> HIDE DEF D
    <1>4. p \in 0 .. k /\ S = 1 .. p
        <2>1. \A i \in S : \A j \in 1 .. k : j < i => j \in S
            <3> SUFFICES ASSUME NEW i \in S, NEW j \in 1 .. k, j < i
                         PROVE  Nearer(graph, q, heap[j], n)
                BY <1>1
            <3>1. i \in 1 .. k /\ D(heap[i]) < D(n)
                BY <1>1, <1>3
            <3>2. ~(D(heap[i]) < D(heap[j]))
                BY <1>1, <1>3, <3>1 DEF Ordered
            <3>3. D(heap[i]) \in Nat /\ D(heap[j]) \in Nat /\ D(n) \in Nat
                BY <1>1, <1>2, <3>1
            <3>4. D(heap[j]) < D(n)
                BY <3>1, <3>2, <3>3
            <3> QED
                BY <1>1, <1>3, <3>4
        <2>2. S \in SUBSET (1 .. k)
            BY <1>1
        <2> HIDE DEF S, k
        <2> QED
            BY <1>1, <2>1, <2>2, DownIsInterval
    <1>5. h = SubSeq(heap, 1, p) \o <<n>> \o SubSeq(heap, p + 1, k)
        <2>1. (p + 1) - 1 = p
            BY <1>4
        <2> QED
            BY <2>1 DEF Pushed, InsertAt
    <1>6. \A i \in 1 .. k : i <= p <=> D(heap[i]) < D(n)
        <2> SUFFICES ASSUME NEW i \in 1 .. k PROVE i <= p <=> D(heap[i]) < D(n)
            OBVIOUS
        <2>1. i \in S <=> i \in 1 .. p
            BY <1>4
        <2>2. i \in S <=> D(heap[i]) < D(n)
            BY <1>1, <1>3
        <2>3. i \in 1 .. p <=> i <= p
            BY <1>4
        <2> QED
            BY <2>1, <2>2, <2>3
    <1> HIDE DEF S, p, h
    <1>7. /\ h \in Seq(1 .. c) /\ Len(h) = k + 1
          /\ \A i \in 1 .. p : h[i] = heap[i]
          /\ h[p + 1] = n
          /\ \A i \in p + 2 .. k + 1 : h[i] = heap[i - 1]
        <2> DEFINE a == SubSeq(heap, 1, p)
                   b == SubSeq(heap, p + 1, k)
                   e == a \o <<n>>
        <2>1. a \in Seq(1 .. c) /\ Len(a) = p /\ \A i \in 1 .. p : a[i] = heap[i]
            <3>1. /\ 1 \in Int /\ p \in Int /\ p - 1 + 1 = p
                  /\ \A i \in 1 .. p : i \in 1 .. k /\ 1 + i - 1 = i
                  /\ (IF 1 <= p THEN p - 1 + 1 ELSE 0) = p
                BY <1>1, <1>4
            <3> DEFINE S1 == 1 .. c
            <3>2. \A i \in 1 .. p : heap[i] \in S1
                BY <1>1, <3>1
            <3> HIDE DEF S1
            <3>3. /\ SubSeq(heap, 1, p) \in Seq(S1)
                  /\ Len(SubSeq(heap, 1, p)) = IF 1 <= p THEN p - 1 + 1 ELSE 0
                  /\ \A i \in 1 .. p - 1 + 1 : SubSeq(heap, 1, p)[i] = heap[1 + i - 1]
                BY <3>1, <3>2, SubSeqProperties
            <3> QED
                BY <3>1, <3>3 DEF S1
        <2>2. /\ b \in Seq(1 .. c) /\ Len(b) = k - p
              /\ \A i \in 1 .. k - p : b[i] = heap[p + i]
            <3> DEFINE S1 == 1 .. c
                       p1 == p + 1
            <3>1. /\ p1 \in Int /\ k \in Int /\ k - p1 + 1 = k - p
                  /\ \A i \in 1 .. k - p : p1 + i - 1 = p + i
                  /\ (IF p1 <= k THEN k - p1 + 1 ELSE 0) = k - p
                  /\ \A i \in p1 .. k : i \in 1 .. k
                <4>1. k \in Nat /\ p \in Nat /\ p <= k
                    BY <1>1, <1>4
                <4>2. p1 = p + 1
                    OBVIOUS
                <4> HIDE DEF p1
                <4>3. p1 \in Int /\ k \in Int /\ k - p1 + 1 = k - p
                    BY ONLY <4>1, <4>2
                <4>4. \A i \in 1 .. k - p : p1 + i - 1 = p + i
                    BY ONLY <4>1, <4>2
                <4>5. (IF p1 <= k THEN k - p1 + 1 ELSE 0) = k - p
                    BY ONLY <4>1, <4>2
                <4>6. \A i \in p1 .. k : i \in 1 .. k
                    BY ONLY <4>1, <4>2
                <4> QED
                    BY ONLY <4>3, <4>4, <4>5, <4>6
            <3>2. \A i \in p1 .. k : heap[i] \in S1
                BY <1>1, <3>1
            <3> HIDE DEF S1, p1
            <3>3. /\ SubSeq(heap, p1, k) \in Seq(S1)
                  /\ Len(SubSeq(heap, p1, k)) = IF p1 <= k THEN k - p1 + 1 ELSE 0
                  /\ \A i \in 1 .. k - p1 + 1 : SubSeq(heap, p1, k)[i] = heap[p1 + i - 1]
                BY <3>1, <3>2, SubSeqProperties
            <3>4. b = SubSeq(heap, p1, k)
                BY DEF p1
            <3> HIDE DEF b
            <3>5. /\ b \in Seq(S1) /\ Len(b) = k - p
                  /\ \A i \in 1 .. k - p : b[i] = heap[p + i]
                BY <3>1, <3>3, <3>4
            <3> QED
                BY <3>5 DEF S1
        <2>3. h = e \o b
            BY <1>5
        <2> HIDE DEF a, b
        <2>4. /\ e \in Seq(1 .. c) /\ Len(e) = p + 1 /\ e[p + 1] = n
              /\ \A i \in 1 .. p : e[i] = heap[i]
            <3> DEFINE S1 == 1 .. c
            <3>1. a \in Seq(S1) /\ n \in S1 /\ p \in Nat /\ Len(a) = p
                BY <1>4, <2>1
            <3> HIDE DEF S1
            <3>2. /\ e \in Seq(S1) /\ Len(e) = p + 1 /\ e[p + 1] = n
                  /\ \A i \in 1 .. p : e[i] = a[i]
                BY <3>1
            <3> QED
                BY <2>1, <3>2 DEF S1
        <2> HIDE DEF e
        <2>5. /\ h \in Seq(1 .. c) /\ Len(h) = k + 1
              /\ \A i \in 1 .. p + 1 : h[i] = e[i]
              /\ \A i \in p + 2 .. k + 1 : h[i] = b[i - (p + 1)]
            <3>1. /\ e \o b \in Seq(1 .. c) /\ Len(e \o b) = Len(e) + Len(b)
                  /\ \A i \in 1 .. Len(e) + Len(b) :
                         (e \o b)[i] = IF i <= Len(e) THEN e[i] ELSE b[i - Len(e)]
                BY <2>2, <2>4, ConcatProperties
            <3>2. /\ (p + 1) + (k - p) = k + 1
                  /\ \A i \in 1 .. p + 1 : i \in 1 .. k + 1 /\ i <= p + 1
                  /\ \A i \in p + 2 .. k + 1 : i \in 1 .. k + 1 /\ ~(i <= p + 1)
                BY <1>1, <1>4
            <3> QED
                BY <2>2, <2>3, <2>4, <3>1, <3>2
        <2>6. ASSUME NEW i \in p + 2 .. k + 1
              PROVE  h[i] = heap[i - 1]
            <3>1. i - (p + 1) \in 1 .. k - p /\ p + (i - (p + 1)) = i - 1
                BY <1>1, <1>4
            <3> QED
                BY <2>2, <2>5, <3>1
        <2> QED
            BY <1>4, <2>4, <2>5, <2>6
    <1>8. \A i \in 1 .. k + 1 : \/ i \in 1 .. p
                                \/ i = p + 1
                                \/ i \in p + 2 .. k + 1 /\ i - 1 \in 1 .. k /\ ~(i - 1 <= p)
        BY <1>1, <1>4
    <1>9. \A i \in 1 .. p : i \in 1 .. k /\ i \in 1 .. k + 1
        BY <1>1, <1>4
    <1>10. Ordered(graph, q, h)
        <2> SUFFICES ASSUME NEW i \in 1 .. k + 1, NEW j \in 1 .. k + 1, i < j
                     PROVE  ~Nearer(graph, q, h[j], h[i])
            BY <1>7 DEF Ordered
        <2>1. \A x, y \in 1 .. k : x < y => ~(D(heap[y]) < D(heap[x]))
            BY <1>1, <1>3 DEF Ordered
        <2>2. h[i] \in 1 .. c /\ h[j] \in 1 .. c
            <3> DEFINE S1 == 1 .. c
            <3>1. h \in Seq(S1) /\ i \in 1 .. Len(h) /\ j \in 1 .. Len(h)
                BY <1>7
            <3> HIDE DEF S1
            <3>2. h[i] \in S1 /\ h[j] \in S1
                BY <3>1
            <3> QED
                BY <3>2 DEF S1
        <2>3. ~(D(h[j]) < D(h[i]))
            <3>1. \A x \in 1 .. k : D(heap[x]) \in Nat /\ D(n) \in Nat
                BY <1>1, <1>2
            <3>2. CASE j \in 1 .. p
                <4>1. i \in 1 .. p
                    BY <1>4, <3>2
                <4> QED
                    BY <1>7, <1>9, <2>1, <3>2, <4>1
            <3>3. CASE j = p + 1
                <4>1. i \in 1 .. p
                    BY <1>4, <3>3
                <4>2. D(heap[i]) < D(n)
                    BY <1>6, <1>9, <4>1
                <4> QED
                    BY <1>7, <1>9, <3>1, <3>3, <4>1, <4>2
            <3>4. CASE j \in p + 2 .. k + 1
                <4>1. j - 1 \in 1 .. k /\ ~(j - 1 <= p) /\ h[j] = heap[j - 1]
                    BY <1>1, <1>4, <1>7, <3>4
                <4>2. CASE i \in 1 .. p
                    <5>1. i < j - 1
                        BY <1>1, <1>4, <3>4, <4>2
                    <5>2. i \in 1 .. k /\ h[i] = heap[i]
                        BY <1>7, <1>9, <4>2
                    <5> QED
                        BY <2>1, <4>1, <5>1, <5>2
                <4>3. CASE i = p + 1
                    <5>1. ~(D(heap[j - 1]) < D(n))
                        BY <1>6, <4>1
                    <5> QED
                        BY <1>7, <4>1, <4>3, <5>1
                <4>4. CASE i \in p + 2 .. k + 1
                    <5>1. i - 1 \in 1 .. k /\ i - 1 < j - 1 /\ h[i] = heap[i - 1]
                        BY <1>1, <1>4, <1>7, <4>4
                    <5> QED
                        BY <2>1, <4>1, <5>1
                <4> QED
                    BY <1>8, <4>2, <4>3, <4>4
            <3> QED
                BY <1>8, <3>2, <3>3, <3>4
        <2> QED
            BY <1>3, <2>2, <2>3
    <1>11. ToSet(h) = ToSet(heap) \cup {n}
        <2>1. ToSet(h) = {h[i] : i \in 1 .. k + 1} /\ ToSet(heap) = {heap[i] : i \in 1 .. k}
            <3>1. DOMAIN h = 1 .. k + 1
                BY <1>7
            <3> QED
                BY <1>1, <3>1 DEF ToSet
        <2>2. \A i \in 1 .. k + 1 : h[i] \in {heap[j] : j \in 1 .. k} \cup {n}
            BY <1>7, <1>8, <1>9
        <2>3. n \in {h[i] : i \in 1 .. k + 1}
            <3>1. p + 1 \in 1 .. k + 1
                BY <1>1, <1>4
            <3> QED
                BY <1>7, <3>1
        <2>4. \A j \in 1 .. k : heap[j] \in {h[i] : i \in 1 .. k + 1}
            <3> SUFFICES ASSUME NEW j \in 1 .. k PROVE heap[j] \in {h[i] : i \in 1 .. k + 1}
                OBVIOUS
            <3>1. CASE j <= p
                <4>1. j \in 1 .. p /\ j \in 1 .. k + 1
                    BY <1>1, <1>4, <3>1
                <4> QED
                    BY <1>7, <4>1
            <3>2. CASE ~(j <= p)
                <4>1. j + 1 \in p + 2 .. k + 1 /\ j + 1 \in 1 .. k + 1 /\ (j + 1) - 1 = j
                    BY <1>1, <1>4, <3>2
                <4> QED
                    BY <1>7, <4>1
            <3> QED
                BY <3>1, <3>2
        <2> QED
            BY <2>1, <2>2, <2>3, <2>4
    <1>12. ASSUME Single(heap), n \notin ToSet(heap)
           PROVE  Single(h)
        <2>1. \A x \in 1 .. k : heap[x] # n
            BY <1>1, <1>12 DEF ToSet
        <2>2. \A x, y \in 1 .. k : heap[x] = heap[y] => x = y
            BY <1>12 DEF Single
        <2> SUFFICES ASSUME NEW i \in 1 .. k + 1, NEW j \in 1 .. k + 1, h[i] = h[j]
                     PROVE  i = j
            BY <1>7 DEF Single
        <2> DEFINE Old(x) == IF x \in 1 .. p THEN x ELSE x - 1
        <2>3. \A x \in 1 .. k + 1 : x # p + 1 => Old(x) \in 1 .. k /\ h[x] = heap[Old(x)]
            BY <1>7, <1>8, <1>9
        <2>4. i = p + 1 <=> j = p + 1
            <3>1. \A x \in 1 .. k + 1 : x # p + 1 => h[x] # n
                BY <2>1, <2>3
            <3> HIDE DEF Old
            <3> QED
                BY <1>7, <3>1
        <2>5. CASE i # p + 1
            <3>1. Old(i) = Old(j)
                BY <2>2, <2>3, <2>4, <2>5
            <3> QED
                BY <1>1, <1>4, <1>8, <2>4, <2>5, <3>1
        <2> QED
            BY <2>4, <2>5
    <1> QED
        BY <1>7, <1>10, <1>11, <1>12 DEF h, k

\* The first is the nearest, the last the farthest.
LEMMA HeapIs ==
    ASSUME NEW c \in Nat, graph \in GraphOf(c), NEW q \in Points, NEW heap \in Seq(1 .. c),
           Ordered(graph, q, heap)
    PROVE  /\ ToSet(heap) \in SUBSET (1 .. c)
           /\ ToSet(heap) = {} <=> heap = <<>>
           /\ Single(heap) => Cardinality(ToSet(heap)) = Len(heap)
           /\ heap # <<>> =>
                  /\ Head(heap) \in 1 .. c /\ Last(heap) \in 1 .. c
                  /\ Head(heap) = Nearest(graph, q, ToSet(heap))
                  /\ Last(heap) = Farthest(graph, q, ToSet(heap))
    <1> DEFINE k == Len(heap)
               S == ToSet(heap)
    <1>1. k \in Nat /\ DOMAIN heap = 1 .. k /\ \A i \in 1 .. k : heap[i] \in 1 .. c
        OBVIOUS
    <1>2. S = {heap[i] : i \in 1 .. k}
        BY <1>1 DEF ToSet
    <1>3. S \in SUBSET (1 .. c)
        BY <1>1, <1>2
    <1>4. S = {} <=> heap = <<>>
        <2>1. heap = <<>> <=> k = 0
            OBVIOUS
        <2> HIDE DEF k, S
        <2>2. k # 0 => 1 \in 1 .. k
            BY <1>1
        <2>3. k = 0 => 1 .. k = {}
            OBVIOUS
        <2> QED
            BY <1>2, <2>1, <2>2, <2>3
    <1>5. ASSUME Single(heap)
          PROVE  Cardinality(S) = k
        <2> DEFINE f == [i \in 1 .. k |-> heap[i]]
        <2>1. f \in Bijection(1 .. k, S)
            <3>1. f \in [1 .. k -> S]
                BY <1>2
            <3>2. \A i, j \in 1 .. k : f[i] = f[j] => i = j
                BY <1>5 DEF Single
            <3>3. \A x \in S : \E i \in 1 .. k : f[i] = x
                BY <1>2
            <3> QED
                BY <3>1, <3>2, <3>3 DEF Bijection, Injection, Surjection, IsInjective
        <2>2. ExistsBijection(1 .. k, S)
            BY <2>1 DEF ExistsBijection
        <2> HIDE DEF S, k
        <2> QED
            BY <1>1, <2>2, FS_CountingElements
    <1>6. ASSUME heap # <<>>
          PROVE  /\ Head(heap) \in 1 .. c /\ Last(heap) \in 1 .. c
                 /\ Head(heap) = Nearest(graph, q, S) /\ Last(heap) = Farthest(graph, q, S)
        <2>1. 1 \in 1 .. k /\ k \in 1 .. k /\ Head(heap) = heap[1] /\ Last(heap) = heap[k]
            BY <1>1, <1>6 DEF Last
        <2>2. /\ \A m \in S \ {heap[1]} : Nearer(graph, q, heap[1], m)
              /\ \A m \in S \ {heap[k]} : Nearer(graph, q, m, heap[k])
            <3> SUFFICES ASSUME NEW i \in 1 .. k
                         PROVE  /\ heap[i] # heap[1] => Nearer(graph, q, heap[1], heap[i])
                                /\ heap[i] # heap[k] => Nearer(graph, q, heap[i], heap[k])
                BY <1>2
            <3>1. /\ heap[i] # heap[1] => 1 < i
                  /\ heap[i] # heap[k] => i < k
                BY <1>1
            <3>2. /\ 1 < i => ~Nearer(graph, q, heap[i], heap[1])
                  /\ i < k => ~Nearer(graph, q, heap[k], heap[i])
                BY <2>1 DEF Ordered
            <3> QED
                BY <1>1, <2>1, <3>1, <3>2, NearerIsOrder
        <2>3. heap[1] \in S /\ heap[k] \in S
            BY <1>2, <2>1
        <2>4. heap[1] = Nearest(graph, q, S)
            BY <1>3, <2>2, <2>3, NearerIsOrder DEF Nearest
        <2>5. heap[k] = Farthest(graph, q, S)
            BY <1>3, <2>2, <2>3, NearerIsOrder DEF Farthest
        <2> QED
            BY <1>1, <2>1, <2>4, <2>5
    <1> QED
        BY <1>3, <1>4, <1>5, <1>6

LEMMA TailIs ==
    ASSUME NEW c \in Nat, NEW q, NEW heap \in Seq(1 .. c), Ordered(graph, q, heap),
           heap # <<>>
    PROVE  /\ Tail(heap) \in Seq(1 .. c) /\ Ordered(graph, q, Tail(heap))
           /\ Single(heap) => /\ Single(Tail(heap))
                              /\ ToSet(Tail(heap)) = ToSet(heap) \ {Head(heap)}
    <1> DEFINE k == Len(heap)
               t == Tail(heap)
    <1>1. /\ k \in Nat /\ k >= 1 /\ DOMAIN heap = 1 .. k
          /\ t \in Seq(1 .. c) /\ Len(t) = k - 1 /\ DOMAIN t = 1 .. k - 1
          /\ \A i \in 1 .. k - 1 : t[i] = heap[i + 1] /\ i + 1 \in 1 .. k
          /\ Head(heap) = heap[1] /\ 1 \in 1 .. k
        OBVIOUS
    <1> HIDE DEF k, t
    <1>2. Ordered(graph, q, t)
        <2> SUFFICES ASSUME NEW i \in 1 .. k - 1, NEW j \in 1 .. k - 1, i < j
                     PROVE  ~Nearer(graph, q, t[j], t[i])
            BY <1>1 DEF Ordered
        <2>1. i + 1 < j + 1
            OBVIOUS
        <2> QED
            BY <1>1, <2>1 DEF Ordered, k
    <1>3. ASSUME Single(heap)
          PROVE  Single(t) /\ ToSet(t) = ToSet(heap) \ {Head(heap)}
        <2>1. \A i, j \in 1 .. k : heap[i] = heap[j] => i = j
            BY <1>3 DEF Single, k
        <2>2. Single(t)
            <3> SUFFICES ASSUME NEW i \in 1 .. k - 1, NEW j \in 1 .. k - 1, t[i] = t[j]
                         PROVE  i = j
                BY <1>1 DEF Single
            <3>1. i + 1 = j + 1
                BY <1>1, <2>1
            <3> QED
                BY <3>1
        <2>3. ToSet(t) = {t[i] : i \in 1 .. k - 1} /\ ToSet(heap) = {heap[i] : i \in 1 .. k}
            BY <1>1 DEF ToSet
        <2>4. \A i \in 1 .. k - 1 : t[i] \in {heap[j] : j \in 1 .. k} /\ t[i] # heap[1]
            <3> SUFFICES ASSUME NEW i \in 1 .. k - 1
                         PROVE  t[i] \in {heap[j] : j \in 1 .. k} /\ t[i] # heap[1]
                OBVIOUS
            <3>1. i + 1 # 1
                OBVIOUS
            <3> QED
                BY <1>1, <2>1, <3>1
        <2>5. \A j \in 1 .. k : heap[j] # heap[1] => heap[j] \in {t[i] : i \in 1 .. k - 1}
            <3> SUFFICES ASSUME NEW j \in 1 .. k, heap[j] # heap[1]
                         PROVE  heap[j] \in {t[i] : i \in 1 .. k - 1}
                OBVIOUS
            <3>1. j # 1
                OBVIOUS
            <3>2. j - 1 \in 1 .. k - 1 /\ (j - 1) + 1 = j
                BY <1>1, <3>1
            <3> QED
                BY <1>1, <3>2
        <2>6. {t[i] : i \in 1 .. k - 1} = {heap[i] : i \in 1 .. k} \ {heap[1]}
            BY <2>4, <2>5
        <2> QED
            BY <1>1, <2>2, <2>3, <2>6
    <1> QED
        BY <1>1, <1>2, <1>3 DEF t

\* The first k of a heap, or all of it.
Cut(heap, k) == SubSeq(heap, 1, Lesser(Len(heap), k))

LEMMA CutIs ==
    ASSUME NEW c \in Nat, NEW q, NEW heap \in Seq(1 .. c), Ordered(graph, q, heap),
           NEW k \in Nat
    PROVE  /\ Cut(heap, k) \in Seq(1 .. c) /\ Ordered(graph, q, Cut(heap, k))
           /\ Len(Cut(heap, k)) = Lesser(Len(heap), k) /\ Len(Cut(heap, k)) <= k
           /\ ToSet(Cut(heap, k)) = {heap[i] : i \in 1 .. Lesser(Len(heap), k)}
           /\ Single(heap) => Single(Cut(heap, k))
    <1> DEFINE l == Lesser(Len(heap), k)
               t == Cut(heap, k)
    <1>1. l \in Nat /\ l <= Len(heap) /\ l <= k
        BY DEF Lesser
    <1>2. t = SubSeq(heap, 1, l)
        BY DEF Cut
    <1> HIDE DEF l, t
    <1>3. t \in Seq(1 .. c) /\ Len(t) = l /\ \A i \in 1 .. l : t[i] = heap[i]
        BY <1>1, <1>2
    <1>4. \A i \in 1 .. l : i \in 1 .. Len(heap)
        BY <1>1
    <1>5. Ordered(graph, q, t)
        BY <1>3, <1>4 DEF Ordered
    <1>6. Single(heap) => Single(t)
        BY <1>3, <1>4 DEF Single
    <1>7. ToSet(t) = {heap[i] : i \in 1 .. l}
        <2>1. DOMAIN t = 1 .. l
            BY <1>3
        <2> QED
            BY <1>3, <2>1 DEF ToSet
    <1> QED
        BY <1>1, <1>3, <1>5, <1>6, <1>7 DEF l, t

\* They are those that fewer than k are nearer than.
LEMMA FirstMany ==
    ASSUME NEW c \in Nat, graph \in GraphOf(c), NEW q \in Points, NEW heap \in Seq(1 .. c),
           Ordered(graph, q, heap), Single(heap), NEW k \in Nat
    PROVE  ToSet(Cut(heap, k)) =
               {n \in ToSet(heap) :
                   Cardinality({m \in ToSet(heap) : Nearer(graph, q, m, n)}) < k}
    <1> DEFINE S == ToSet(heap)
               l == Len(heap)
    <1>1. l \in Nat /\ S = {heap[i] : i \in 1 .. l} /\ \A i \in 1 .. l : heap[i] \in 1 .. c
        <2>1. DOMAIN heap = 1 .. l
            OBVIOUS
        <2> QED
            BY <2>1 DEF ToSet
    <1>2. ASSUME NEW i \in 1 .. l
          PROVE  Cardinality({m \in S : Nearer(graph, q, m, heap[i])}) = i - 1
        <2>1. i - 1 \in Nat /\ Lesser(l, i - 1) = i - 1
            BY <1>1 DEF Lesser
        <2> DEFINE t == Cut(heap, i - 1)
        <2>2. /\ t \in Seq(1 .. c) /\ Ordered(graph, q, t) /\ Len(t) = i - 1 /\ Single(t)
              /\ ToSet(t) = {heap[j] : j \in 1 .. i - 1}
            BY <2>1, CutIs, SMTT(20)
        <2> HIDE DEF t
        <2>3. Cardinality(ToSet(t)) = i - 1
            BY <2>2, HeapIs
        <2>4. ASSUME NEW j \in 1 .. l
              PROVE  Nearer(graph, q, heap[j], heap[i]) <=> j \in 1 .. i - 1
            <3>1. j < i <=> j \in 1 .. i - 1
                BY <1>1
            <3>2. CASE j < i
                <4>1. ~Nearer(graph, q, heap[i], heap[j]) /\ heap[i] # heap[j]
                    BY <3>2 DEF Ordered, Single
                <4> QED
                    BY <1>1, <3>1, <3>2, <4>1, NearerIsOrder
            <3>3. CASE j = i
                <4>1. ~Nearer(graph, q, heap[i], heap[i])
                    BY <1>1, NearerIsOrder
                <4> QED
                    BY <3>1, <3>3, <4>1
            <3>4. CASE i < j
                <4>1. ~Nearer(graph, q, heap[j], heap[i])
                    BY <3>4 DEF Ordered
                <4> QED
                    BY <3>1, <3>4, <4>1
            <3> QED
                BY <1>1, <3>2, <3>3, <3>4
        <2>5. \A j \in 1 .. i - 1 : j \in 1 .. l
            BY <1>1
        <2>6. {m \in S : Nearer(graph, q, m, heap[i])} = {heap[j] : j \in 1 .. i - 1}
            BY <1>1, <2>4, <2>5
        <2> QED
            BY <2>2, <2>3, <2>6
    <1>3. ToSet(Cut(heap, k)) = {heap[i] : i \in 1 .. Lesser(l, k)}
        BY ONLY c \in Nat, heap \in Seq(1 .. c), Ordered(graph, q, heap), k \in Nat, CutIs
    <1>4. \A i \in 1 .. l : i \in 1 .. Lesser(l, k) <=> i - 1 < k
        BY <1>1 DEF Lesser
    <1>5. \A i \in 1 .. Lesser(l, k) : i \in 1 .. l
        BY <1>1 DEF Lesser
    <1> HIDE DEF l, S
    <1>6. \A n \in S : n \in ToSet(Cut(heap, k)) <=>
              Cardinality({m \in S : Nearer(graph, q, m, n)}) < k
        <2> DEFINE Kept == ToSet(Cut(heap, k))
                   Before(n) == Cardinality({m \in S : Nearer(graph, q, m, n)})
        <2>1. ASSUME NEW i \in 1 .. l
              PROVE  heap[i] \in Kept <=> Before(heap[i]) < k
            <3>1. heap[i] \in Kept <=> i \in 1 .. Lesser(l, k)
                <4>1. \A j \in 1 .. l : heap[j] = heap[i] => j = i
                    BY DEF Single, l
                <4> QED
                    BY <1>3, <1>5, <4>1
            <3> QED
                BY <1>2, <1>4, <3>1
        <2>2. S = {heap[i] : i \in 1 .. l}
            BY <1>1
        <2> HIDE DEF Kept, Before
        <2>3. \A n \in S : n \in Kept <=> Before(n) < k
            BY ONLY <2>1, <2>2
        <2> QED
            BY <2>3 DEF Kept, Before
    <1>7. ToSet(Cut(heap, k)) \subseteq S
        BY <1>1, <1>3, <1>5
    <1> QED
        BY <1>6, <1>7 DEF S

\* A full heap with one more loses the farthest.
LEMMA TrimIs ==
    ASSUME NEW c \in Nat, graph \in GraphOf(c), NEW q \in Points, NEW heap \in Seq(1 .. c),
           Ordered(graph, q, heap), Single(heap), NEW k \in Nat, Len(heap) <= k + 1
    PROVE  ToSet(Cut(heap, k)) = Trimmed(graph, q, k, ToSet(heap))
    <1> DEFINE l == Len(heap)
    <1>1. l \in Nat /\ l <= k + 1 /\ DOMAIN heap = 1 .. l /\ (l # 0 => heap # <<>>)
        OBVIOUS
    <1>2. ToSet(heap) = {heap[i] : i \in 1 .. l} /\ Cardinality(ToSet(heap)) = l
        BY <1>1, HeapIs DEF ToSet
    <1>3. ToSet(Cut(heap, k)) = {heap[i] : i \in 1 .. Lesser(l, k)}
        BY ONLY c \in Nat, heap \in Seq(1 .. c), Ordered(graph, q, heap), k \in Nat, CutIs
    <1> HIDE DEF l
    <1>4. CASE l <= k
        <2>1. Lesser(l, k) = l /\ ~(l > k)
            BY <1>1, <1>4 DEF Lesser
        <2> QED
            BY <1>2, <1>3, <2>1 DEF Trimmed
    <1>5. CASE l > k
        <2>1. Lesser(l, k) = k /\ l = k + 1 /\ l # 0
            BY <1>1, <1>5 DEF Lesser
        <2>2. Farthest(graph, q, ToSet(heap)) = heap[k + 1]
            <3>1. Last(heap) = Farthest(graph, q, ToSet(heap))
                BY <1>1, <2>1, HeapIs
            <3> QED
                BY <2>1, <3>1 DEF Last, l
        <2>3. \A i, j \in 1 .. l : heap[i] = heap[j] => i = j
            BY DEF Single, l
        <2>4. \A i \in 1 .. k : i \in 1 .. l /\ i # k + 1
            BY <2>1
        <2>5. \A i \in 1 .. l : i \in 1 .. k \/ i = k + 1
            BY <2>1
        <2>6. k + 1 \in 1 .. l
            BY <2>1
        <2>7. {heap[i] : i \in 1 .. k} = {heap[i] : i \in 1 .. l} \ {heap[k + 1]}
            BY <2>3, <2>4, <2>5, <2>6
        <2> QED
            BY <1>2, <1>3, <1>5, <2>1, <2>2, <2>7 DEF Trimmed
    <1> QED
        BY <1>1, <1>4, <1>5

-----------------------------------------------------------------------------
(* search_layer, one neighbour at a time                                   *)

Sound(beam) == beam.open \subseteq beam.visited /\ beam.found \subseteq beam.visited

\* The candidates that were expanded.
Done(beam) == beam.visited \ beam.open

LEMMA ExamineSound ==
    ASSUME NEW g, NEW q, NEW ef, NEW allowed, NEW V, NEW n \in V,
           NEW beam \in Beams(g, V, allowed), Sound(beam)
    PROVE  /\ Sound(Examine(g, q, ef, allowed, beam, n))
           /\ Done(beam) \subseteq Done(Examine(g, q, ef, allowed, beam, n))
    <1> DEFINE e == Examine(g, q, ef, allowed, beam, n)
               more == [visited |-> beam.visited \cup {n},
                        open    |-> beam.open \cup {n},
                        found   |-> IF Accepts(g, n, allowed)
                                      THEN Trimmed(g, q, ef, beam.found \cup {n})
                                      ELSE beam.found]
               seen == [beam EXCEPT !.visited = @ \cup {n}]
    <1>1. \/ e = beam
          \/ n \notin beam.visited /\ e = more
          \/ n \notin beam.visited /\ e = seen
        BY DEF Examine
    <1>2. Trimmed(g, q, ef, beam.found \cup {n}) \subseteq beam.found \cup {n}
        BY DEF Trimmed
    <1>3. more.visited = beam.visited \cup {n} /\ more.open = beam.open \cup {n}
          /\ more.found \subseteq beam.found \cup {n}
        BY <1>2
    <1>4. /\ seen.visited = beam.visited \cup {n} /\ seen.open = beam.open
          /\ seen.found = beam.found
        BY DEF Beams
    <1> HIDE DEF e, more, seen
    <1>5. CASE e = beam
        BY <1>5 DEF e
    <1>6. CASE n \notin beam.visited /\ e = more
        <2>1. Sound(more) /\ Done(beam) \subseteq Done(more)
            BY <1>3, <1>6 DEF Sound, Done
        <2> QED
            BY <1>6, <2>1 DEF e
    <1>7. CASE n \notin beam.visited /\ e = seen
        <2>1. Sound(seen) /\ Done(beam) \subseteq Done(seen)
            BY <1>4, <1>7 DEF Sound, Done
        <2> QED
            BY <1>7, <2>1 DEF e
    <1> QED
        BY <1>1, <1>5, <1>6, <1>7

\* The neighbours a round looks at, and the beam after each of them.
Way(g, q, layer, beam) ==
    IF Barren(g, q, layer, beam) THEN <<>> ELSE Ahead(g, q, layer, beam)

Looks(g, q, ef, layer, allowed, beam) ==
    Examined(g, q, ef, allowed, Rest(g, q, beam), Way(g, q, layer, beam))

Leads(look, g, q, ef, layer, allowed, beam, c) ==
    /\ Way(g, q, layer, beam) \in Seq(1 .. c)
    /\ look[1 .. 0] = Rest(g, q, beam)
    /\ \A j \in 1 .. Len(Way(g, q, layer, beam)) :
           look[1 .. j] = Examine(g, q, ef, allowed, look[1 .. j - 1], Way(g, q, layer, beam)[j])
    /\ \A j \in 0 .. Len(Way(g, q, layer, beam)) :
           /\ look[1 .. j] \in Beams(g, 1 .. c, allowed) /\ Sound(look[1 .. j])
           /\ Done(beam) \cup {Nearest(g, q, beam.open)} \subseteq Done(look[1 .. j])
    /\ Expand(g, q, ef, layer, allowed, beam) = look[1 .. Len(Way(g, q, layer, beam))]

LEMMA LooksLead ==
    ASSUME NEW c \in Nat, NEW g \in GraphOf(c), NEW q \in Points, NEW ef, NEW layer \in Nat,
           NEW allowed, NEW beam \in Beams(g, 1 .. c, allowed), Sound(beam), beam.open # {}
    PROVE  Leads(Looks(g, q, ef, layer, allowed, beam), g, q, ef, layer, allowed, beam, c)
    <1> DEFINE B == Beams(g, 1 .. c, allowed)
               r == Rest(g, q, beam)
               w == Way(g, q, layer, beam)
               look == Looks(g, q, ef, layer, allowed, beam)
               near == Nearest(g, q, beam.open)
    <1>1. Confined(g, layer, 1 .. c) /\ 1 .. c \in SUBSET (1 .. c)
        <2>1. Tower(g, c, All(c)) /\ LinksIn(g, c, All(c))
            BY AllIsTower
        <2>2. Confined(g, layer, All(c)[layer])
            BY <2>1, TowerConfines
        <2> QED
            BY <2>2 DEF All
    <1>2. near \in beam.open /\ near \in 1 .. c /\ r \in B
        BY <1>1, RestIn
    <1>3. w \in Seq(1 .. c)
        <2>1. CASE Barren(g, q, layer, beam)
            BY <2>1 DEF Way
        <2>2. CASE ~Barren(g, q, layer, beam)
            BY <1>1, <2>2, AheadIn DEF Way
        <2> QED
            BY <2>1, <2>2
    <1>4. Runs(look, g, q, ef, allowed, r, w)
        BY <1>2, <1>3, ExaminedIs DEF Looks
    <1>5. Expand(g, q, ef, layer, allowed, beam) = Expansion(g, q, ef, allowed, r, w)
        <2>1. CASE Barren(g, q, layer, beam)
            <3>1. w = <<>> /\ Len(w) = 0 /\ 1 .. 0 = {}
                BY <2>1 DEF Way
            <3>2. Expansion(g, q, ef, allowed, r, w) = r
                BY <1>4, <3>1 DEF Runs
            <3> QED
                BY <2>1, <3>2, ExpandIs
        <2>2. CASE ~Barren(g, q, layer, beam)
            BY <2>2, ExpandIs DEF Way
        <2> QED
            BY <2>1, <2>2
    <1> HIDE DEF B, r, w, look, near
    <1>6. Len(w) \in Nat /\ \A j \in 1 .. Len(w) : w[j] \in 1 .. c
        BY <1>3
    <1>7. look[1 .. 0] = r
        <2>1. 1 .. 0 = {}
            OBVIOUS
        <2> QED
            BY <1>4, <2>1 DEF Runs
    <1>8. \A j \in 1 .. Len(w) : look[1 .. j] = Examine(g, q, ef, allowed, look[1 .. j - 1], w[j])
        <2>1. \A j \in 1 .. Len(w) : (1 .. j) \ {j} = 1 .. j - 1
            BY <1>6
        <2> QED
            BY <1>4, <2>1 DEF Runs
    <1> DEFINE S == {b \in B : Sound(b) /\ Done(beam) \cup {near} \subseteq Done(b)}
               h == [j \in 0 .. Len(w) |-> look[1 .. j]]
    <1>9. r \in S
        <2>1. /\ r.visited = beam.visited /\ r.open = beam.open \ {near}
              /\ r.found = beam.found
            BY DEF r, Rest, near, Beams
        <2>2. Sound(r) /\ Done(beam) \cup {near} \subseteq Done(r)
            BY <1>2, <2>1 DEF Sound, Done
        <2> QED
            BY <1>2, <2>2
    <1>10. \A i \in 1 .. Len(w) : h[i - 1] \in S => h[i] \in S
        <2> SUFFICES ASSUME NEW i \in 1 .. Len(w), h[i - 1] \in S PROVE h[i] \in S
            OBVIOUS
        <2>1. i - 1 \in 0 .. Len(w) /\ i \in 0 .. Len(w)
            BY <1>6
        <2> DEFINE b == look[1 .. i - 1]
        <2>2. b \in S
            BY <2>1
        <2>3. h[i] = Examine(g, q, ef, allowed, b, w[i])
            BY <1>8, <2>1
        <2> HIDE DEF b, h
        <2>4. b \in B /\ Sound(b) /\ w[i] \in 1 .. c
            BY <1>6, <2>2
        <2>5. Examine(g, q, ef, allowed, b, w[i]) \in B
            BY <2>4, ExamineIn DEF B
        <2>6. /\ Sound(Examine(g, q, ef, allowed, b, w[i]))
              /\ Done(b) \subseteq Done(Examine(g, q, ef, allowed, b, w[i]))
            BY <2>4, ExamineSound DEF B
        <2> QED
            BY <2>2, <2>3, <2>5, <2>6
    <1>11. \A j \in 0 .. Len(w) : h[j] \in S
        <2>1. h[0] \in S
            BY <1>6, <1>7, <1>9
        <2> HIDE DEF h, S
        <2> QED
            BY <1>6, <1>10, <2>1, RecursionStays
    <1>12. \A j \in 0 .. Len(w) : look[1 .. j] \in S
        BY <1>11
    <1>13. Expand(g, q, ef, layer, allowed, beam) = look[1 .. Len(w)]
        BY <1>4, <1>5 DEF Runs
    <1> QED
        BY <1>3, <1>7, <1>8, <1>12, <1>13 DEF Leads, B, r, w, look, near

\* The rounds of search_layer: it is done after as many as there are nodes,
\* because each of them expands another node, and nothing changes then.
Course(r, g, q, ep, ef, layer, allowed, c) ==
    /\ r[0] = First(g, ep, allowed)
    /\ \A i \in 0 .. c :
           /\ r[i] \in Beams(g, 1 .. c, allowed) /\ Sound(r[i])
           /\ Finished(g, q, ef, r[i]) => SearchLayer(g, q, ep, ef, layer, allowed) = r[i].found
           /\ ~Finished(g, q, ef, r[i]) =>
                  /\ i + 1 \in 0 .. c /\ r[i].open # {}
                  /\ r[i + 1] = Expand(g, q, ef, layer, allowed, r[i])
                  /\ Leads(Looks(g, q, ef, layer, allowed, r[i]), g, q, ef, layer, allowed, r[i], c)

LEMMA CourseIs ==
    ASSUME NEW c \in Nat, NEW g \in GraphOf(c), NEW q \in Points, NEW ef, NEW layer \in Nat,
           NEW allowed, NEW ep \in 1 .. c
    PROVE  Course(Rounds(g, q, ep, ef, layer, allowed), g, q, ep, ef, layer, allowed, c)
    <1> DEFINE B == Beams(g, 1 .. c, allowed)
               r == Rounds(g, q, ep, ef, layer, allowed)
               Fin(b) == Finished(g, q, ef, b)
               found == SearchLayer(g, q, ep, ef, layer, allowed)
    <1>1. /\ r[0] = First(g, ep, allowed)
          /\ \A i \in 1 .. c : r[i] = Round(g, q, ef, layer, allowed, r[i - 1])
          /\ \A i \in 0 .. c : r[i] \in B
          /\ found = r[c].found
        <2>1. Tower(g, c, All(c)) /\ LinksIn(g, c, All(c))
            BY AllIsTower
        <2>2. Confined(g, layer, All(c)[layer])
            BY <2>1, TowerConfines
        <2>3. Confined(g, layer, 1 .. c) /\ 1 .. c \in SUBSET (1 .. c)
            BY <2>2 DEF All
        <2>4. Goes(r, g, q, ep, ef, layer, allowed, 1 .. c, c)
            BY <2>3, RoundsAre
        <2> QED
            BY <2>4 DEF Goes
    <1>2. \A b : ~Fin(b) => b.open # {}
        BY DEF Finished
    <1>3. \A i \in 0 .. c : i < c => i + 1 \in 1 .. c /\ i + 1 \in 0 .. c /\ (i + 1) - 1 = i
        OBVIOUS
    <1>4. ASSUME NEW b \in B, Sound(b), ~Fin(b)
          PROVE  Leads(Looks(g, q, ef, layer, allowed, b), g, q, ef, layer, allowed, b, c)
        BY <1>2, <1>4, LooksLead
    <1> DEFINE e(b) == Expand(g, q, ef, layer, allowed, b)
    <1>5. ASSUME NEW b \in B, Sound(b), ~Fin(b)
          PROVE  /\ Sound(e(b))
                 /\ Cardinality(Done(b)) + 1 <= Cardinality(Done(e(b)))
        <2> DEFINE w == Way(g, q, layer, b)
                   look == Looks(g, q, ef, layer, allowed, b)
                   near == Nearest(g, q, b.open)
        <2>1. /\ w \in Seq(1 .. c) /\ e(b) = look[1 .. Len(w)]
              /\ \A j \in 0 .. Len(w) :
                     /\ look[1 .. j] \in B /\ Sound(look[1 .. j])
                     /\ Done(b) \cup {near} \subseteq Done(look[1 .. j])
            BY <1>4, <1>5 DEF Leads
        <2> HIDE DEF w, look
        <2>2. Len(w) \in 0 .. Len(w)
            BY <2>1
        <2>3. e(b) \in B /\ Sound(e(b)) /\ Done(b) \cup {near} \subseteq Done(e(b))
            BY <2>1, <2>2
        <2> HIDE DEF e
        <2>4. near \in b.open
            <3>1. b.open \in SUBSET (1 .. c) /\ b.open # {}
                BY <1>2, <1>5 DEF Beams
            <3> QED
                BY <3>1, NearestIn
        <2>5. near \notin Done(b)
            BY <2>4 DEF Done
        <2>6. Done(b) \in SUBSET (1 .. c) /\ Done(e(b)) \in SUBSET (1 .. c)
            BY <2>3 DEF Done, Beams
        <2>7. /\ IsFiniteSet(Done(b)) /\ Cardinality(Done(b)) \in Nat
              /\ IsFiniteSet(Done(e(b))) /\ Cardinality(Done(e(b))) \in Nat
            BY <2>6, FiniteNodes
        <2> HIDE DEF near
        <2>8. Cardinality(Done(b) \cup {near}) = Cardinality(Done(b)) + 1
            BY <2>5, <2>7, FS_AddElement
        <2>9. Cardinality(Done(b) \cup {near}) <= Cardinality(Done(e(b)))
            BY <2>3, <2>7, FS_Subset
        <2> QED
            BY <2>3, <2>8, <2>9
    <1> HIDE DEF B, r, Fin, found, e
    <1> DEFINE P(i) == Sound(r[i]) /\ (~Fin(r[i]) => i <= Cardinality(Done(r[i])))
               S == {i \in Nat : i <= c => P(i)}
    <1>6. 0 \in S
        <2>1. Sound(r[0])
            BY <1>1 DEF First, Sound
        <2>2. Cardinality(Done(r[0])) \in Nat
            <3>1. 0 \in 0 .. c
                OBVIOUS
            <3>2. Done(r[0]) \in SUBSET (1 .. c)
                BY <1>1, <3>1 DEF B, Beams, Done
            <3> QED
                BY <3>2, FiniteNodes
        <2> QED
            BY <2>1, <2>2
    <1>7. ASSUME NEW i \in Nat, i \in S PROVE i + 1 \in S
        <2> SUFFICES ASSUME i + 1 <= c PROVE P(i + 1)
            OBVIOUS
        <2>1. i \in 0 .. c /\ i < c /\ P(i)
            BY <1>7
        <2>2. r[i + 1] = Round(g, q, ef, layer, allowed, r[i]) /\ r[i] \in B
            BY <1>1, <1>3, <2>1
        <2>3. CASE Fin(r[i])
            <3>1. r[i + 1] = r[i]
                BY <2>2, <2>3 DEF Round, Fin
            <3> QED
                BY <2>1, <2>3, <3>1
        <2>4. CASE ~Fin(r[i])
            <3>1. r[i + 1] = e(r[i])
                BY <2>2, <2>4 DEF Round, Fin, e
            <3>2. Sound(r[i + 1]) /\ Cardinality(Done(r[i])) + 1 <= Cardinality(Done(r[i + 1]))
                BY <1>5, <2>1, <2>2, <2>4, <3>1
            <3>3. Done(r[i]) \in SUBSET (1 .. c) /\ Done(r[i + 1]) \in SUBSET (1 .. c)
                BY <1>1, <1>3, <2>1 DEF B, Beams, Done
            <3>4. Cardinality(Done(r[i])) \in Nat /\ Cardinality(Done(r[i + 1])) \in Nat
                BY <3>3, FiniteNodes
            <3> QED
                BY <2>1, <2>4, <3>2, <3>4
        <2> QED
            BY <2>3, <2>4
    <1>8. \A i \in 0 .. c : P(i)
        <2> HIDE DEF P
        <2>1. Nat \subseteq S
            <3> HIDE DEF S
            <3> QED
                BY <1>6, <1>7, Induction
        <2> QED
            BY <2>1
    <1>9. Fin(r[c])
        <2> SUFFICES ASSUME ~Fin(r[c]) PROVE FALSE
            OBVIOUS
        <2>1. c \in 0 .. c
            OBVIOUS
        <2>2. c <= Cardinality(Done(r[c])) /\ Sound(r[c]) /\ r[c] \in B /\ r[c].open # {}
            BY <1>1, <1>2, <1>8, <2>1 DEF Fin
        <2>3. Done(r[c]) \subseteq 1 .. c /\ r[c].open \subseteq 1 .. c
            BY <2>2 DEF Done, B, Beams
        <2>4. IsFiniteSet(1 .. c) /\ Cardinality(1 .. c) = c
            BY FS_Interval
        <2>5. Cardinality(Done(r[c])) \in Nat /\ Cardinality(Done(r[c])) <= c
            BY <2>3, <2>4, FS_Subset, FiniteNodes
        <2>6. Cardinality(Done(r[c])) = Cardinality(1 .. c)
            BY <2>2, <2>4, <2>5
        <2>7. Done(r[c]) = 1 .. c
            BY <2>3, <2>4, <2>6, FS_Subset
        <2> QED
            BY <2>2, <2>3, <2>7 DEF Done
    <1>10. ASSUME NEW i \in 0 .. c, Fin(r[i]) PROVE found = r[i].found
        <2> DEFINE T == {k \in Nat : i + k <= c => r[i + k] = r[i]}
        <2>1. 0 \in T
            OBVIOUS
        <2>2. ASSUME NEW k \in Nat, k \in T PROVE k + 1 \in T
            <3> SUFFICES ASSUME i + (k + 1) <= c PROVE r[i + (k + 1)] = r[i]
                OBVIOUS
            <3>1. i + k \in 0 .. c /\ i + k < c /\ i + (k + 1) = (i + k) + 1
                OBVIOUS
            <3>2. r[i + k] = r[i]
                BY <2>2, <3>1
            <3>3. r[(i + k) + 1] = Round(g, q, ef, layer, allowed, r[i + k])
                BY <1>1, <1>3, <3>1
            <3> QED
                BY <1>10, <3>1, <3>2, <3>3 DEF Round, Fin
        <2>3. Nat \subseteq T
            <3> HIDE DEF T
            <3> QED
                BY <2>1, <2>2, Induction
        <2>4. c - i \in Nat /\ i + (c - i) = c
            OBVIOUS
        <2>5. c - i \in T
            BY <2>3, <2>4
        <2>6. r[c] = r[i]
            BY <2>4, <2>5
        <2> QED
            BY <1>1, <2>6
    <1>11. ASSUME NEW i \in 0 .. c, ~Fin(r[i])
           PROVE  i + 1 \in 0 .. c /\ r[i].open # {} /\ r[i + 1] = e(r[i])
        <2>1. i < c
            BY <1>9, <1>11
        <2>2. r[i + 1] = Round(g, q, ef, layer, allowed, r[i])
            BY <1>1, <1>3, <2>1
        <2> QED
            BY <1>2, <1>3, <1>11, <2>1, <2>2 DEF Round, Fin, e
    <1>12. ASSUME NEW i \in 0 .. c, ~Fin(r[i])
           PROVE  Leads(Looks(g, q, ef, layer, allowed, r[i]), g, q, ef, layer, allowed, r[i], c)
        BY <1>1, <1>4, <1>8, <1>12
    <1> QED
        BY <1>1, <1>8, <1>10, <1>11, <1>12 DEF Course, B, r, Fin, found, e

\* Each step of the descent goes on from where the last one ended.
LEMMA DescendStep ==
    ASSUME NEW c \in Nat, NEW g \in GraphOf(c), NEW q \in Points, NEW high \in Nat,
           NEW l \in 0 .. high, NEW ep \in 1 .. c
    PROVE  /\ Descend(g, q, ep, high, high + 1) = ep
           /\ Descend(g, q, ep, high, l) = Down(g, q, Descend(g, q, ep, high, l + 1), l)
    <1> DEFINE a == Descent(g, q, ep, high, l)
               b == Descent(g, q, ep, high, l + 1)
    <1>1. Descend(g, q, ep, high, high + 1) = ep
        <2>1. high + 1 > high
            OBVIOUS
        <2> QED
            BY <2>1 DEF Descend
    <1>2. /\ l \in Nat /\ l <= high /\ l \in l .. high
        OBVIOUS
    <1>3. Descends(a, g, q, ep, high, l, c)
        BY <1>2, DescentIs
    <1> HIDE DEF a, b
    <1>4. Descend(g, q, ep, high, l) = Down(g, q, a[l + 1], l)
        BY <1>2, <1>3 DEF Descends
    <1>5. a[l + 1] = Descend(g, q, ep, high, l + 1)
        <2>1. CASE l = high
            BY <1>1, <1>3, <2>1 DEF Descends
        <2>2. CASE l # high
            <3> DEFINE low == l + 1
                       P == [k \in Nat |-> {b[k]}]
            <3>1. low \in Nat /\ low <= high
                BY <1>2, <2>2
            <3>2. Descends(b, g, q, ep, high, low, c)
                BY <3>1, DescentIs DEF b
            <3>3. \A k \in low .. high + 1 : P[k] = {b[k]}
                BY <3>1
            <3>4. \A k \in low .. high :
                      /\ k \in l .. high /\ k + 1 \in low .. high + 1 /\ k \in low .. high + 1
                OBVIOUS
            <3> HIDE DEF low, P
            <3>5. high + 1 \in low .. high + 1 /\ low \in low .. high + 1
                BY <3>1
            <3>6. a[high + 1] \in P[high + 1]
                BY <1>3, <3>2, <3>3, <3>5 DEF Descends
            <3>7. \A k \in low .. high : a[k + 1] \in P[k + 1] => a[k] \in P[k]
                BY <1>3, <3>2, <3>3, <3>4 DEF Descends
            <3>8. \A k \in low .. high + 1 : a[k] \in P[k]
                BY <3>1, <3>6, <3>7, DescentStays
            <3>9. a[low] = b[low]
                BY <3>3, <3>5, <3>8
            <3> QED
                BY <3>2, <3>9 DEF Descends, low
        <2> QED
            BY <2>1, <2>2
    <1> QED
        BY <1>1, <1>4, <1>5

-----------------------------------------------------------------------------
(* The steps of a searcher, on its own record                              *)

Searches(c) ==
    [pc : PCs, ask : Requests \cup {NoRequest}, layer : Nat, ep : 0 .. c, gen : Nat,
     open : Seq(1 .. c), todo : Seq(1 .. c), found : Seq(1 .. c),
     alone : BOOLEAN, clean : BOOLEAN]

Heaps(c, q) == {heap \in Seq(1 .. c) : Ordered(graph, q, heap)}

\* What the record of a searcher in a graph of c nodes holds.
Working(c) ==
    {w \in Searches(c) :
        /\ w.ask \in Requests /\ w.layer \in 0 .. graph.top /\ w.ep \in 1 .. c
        /\ w.open \in Heaps(c, w.ask.q) /\ w.found \in Heaps(c, w.ask.q)
        /\ Len(w.found) <= Beam(w)}

LEMMA WorkingIs ==
    ASSUME NEW c \in Nat, NEW w \in Working(c)
    PROVE  /\ w.ask.q \in Points /\ w.ask.topK \in Nat \ {0} /\ w.ask.allowed \subseteq Docs
           /\ w.layer \in Nat /\ Beam(w) \in Nat \ {0}
           /\ Beam(w) <= Greater(EfSearch, w.ask.topK)
           /\ w.open \in Seq(1 .. c) /\ Ordered(graph, w.ask.q, w.open)
           /\ w.found \in Seq(1 .. c) /\ Ordered(graph, w.ask.q, w.found)
           /\ w.todo \in Seq(1 .. c) /\ w.ep \in 1 .. c
           /\ w.layer = 0 => Beam(w) = Greater(EfSearch, w.ask.topK)
                             /\ AllowedNow(w) = w.ask.allowed
           /\ w.layer # 0 => Beam(w) = 1 /\ AllowedNow(w) = Docs
    <1>1. w.ask \in [q : Points, topK : Nat \ {0}, allowed : SUBSET Docs]
        BY SearchAssumption DEF Working
    <1>2. EfSearch \in Nat \ {0}
        BY SearchAssumption
    <1>3. /\ Greater(EfSearch, w.ask.topK) \in Nat \ {0}
          /\ 1 <= Greater(EfSearch, w.ask.topK)
        BY <1>1, <1>2 DEF Greater
    <1>4. w.layer \in Nat /\ Beam(w) \in Nat \ {0} /\ Beam(w) <= Greater(EfSearch, w.ask.topK)
        BY <1>3 DEF Beam, Working, Searches
    <1>5. /\ w.open \in Seq(1 .. c) /\ Ordered(graph, w.ask.q, w.open)
          /\ w.found \in Seq(1 .. c) /\ Ordered(graph, w.ask.q, w.found)
          /\ w.todo \in Seq(1 .. c) /\ w.ep \in 1 .. c
        BY DEF Working, Searches, Heaps
    <1> QED
        BY <1>1, <1>4, <1>5 DEF Beam, AllowedNow

\* Same search, layer and entry point.
Same(v, w) ==
    /\ v.ask = w.ask /\ v.layer = w.layer /\ v.ep = w.ep
    /\ v.alone = w.alone

LEMMA SameBeam ==
    ASSUME NEW v, NEW w, Same(v, w)
    PROVE  Beam(v) = Beam(w) /\ AllowedNow(v) = AllowedNow(w)
    BY DEF Same, Beam, AllowedNow

LEMMA OneIsHeap ==
    ASSUME NEW c \in Nat, NEW n \in 1 .. c, NEW q
    PROVE  /\ <<n>> \in Heaps(c, q) /\ <<>> \in Heaps(c, q)
           /\ Single(<<n>>) /\ Single(<<>>)
           /\ ToSet(<<n>>) = {n} /\ ToSet(<<>>) = {}
    <1>1. <<n>> \in Seq(1 .. c) /\ Len(<<n>>) = 1 /\ DOMAIN <<n>> = 1 .. 1 /\ <<n>>[1] = n
        OBVIOUS
    <1>2. <<>> \in Seq(1 .. c) /\ Len(<<>>) = 0 /\ DOMAIN <<>> = {} /\ 1 .. 0 = {}
        OBVIOUS
    <1>3. \A i, j \in 1 .. 1 : i = j /\ ~(i < j)
        OBVIOUS
    <1>4. ToSet(<<n>>) = {n} /\ ToSet(<<>>) = {}
        BY <1>1, <1>2 DEF ToSet
    <1>5. Ordered(graph, q, <<n>>) /\ Single(<<n>>)
        BY <1>1, <1>3 DEF Ordered, Single
    <1>6. Ordered(graph, q, <<>>) /\ Single(<<>>)
        BY <1>2 DEF Ordered, Single
    <1> QED
        BY <1>1, <1>2, <1>4, <1>5, <1>6 DEF Heaps

LEMMA OpenedIs ==
    ASSUME NEW c \in Nat, NEW w \in Working(c), NEW g \in Nat
    PROVE  /\ Opened(w, g) \in Working(c) /\ Same(Opened(w, g), w)
           /\ Opened(w, g).pc = w.pc /\ Opened(w, g).todo = w.todo /\ Opened(w, g).gen = g
           /\ Opened(w, g).open = <<w.ep>>
           /\ Opened(w, g).found =
                  IF Accepts(graph, w.ep, AllowedNow(w)) THEN <<w.ep>> ELSE <<>>
           /\ Opened(w, g).clean =
                  (w.clean /\ \A n \in DOMAIN graph.nodes : marks[n] # g)
    <1> DEFINE v == Opened(w, g)
               one == IF Accepts(graph, w.ep, AllowedNow(w)) THEN <<w.ep>> ELSE <<>>
               new == (w.clean /\ \A n \in DOMAIN graph.nodes : marks[n] # g)
    <1>1. w \in Searches(c)
        BY DEF Working
    <1>2. /\ v.pc = w.pc /\ v.ask = w.ask /\ v.layer = w.layer /\ v.ep = w.ep
          /\ v.gen = g /\ v.open = <<w.ep>> /\ v.todo = w.todo /\ v.found = one
          /\ v.alone = w.alone /\ v.clean = new
        BY <1>1 DEF Opened, Searches
    <1>3. one \in Heaps(c, w.ask.q) /\ <<w.ep>> \in Heaps(c, w.ask.q) /\ Len(one) <= 1
        BY WorkingIs, OneIsHeap
    <1>4. new \in BOOLEAN
        BY <1>1 DEF Searches
    <1>5. v \in Searches(c)
        <2> HIDE DEF one, new
        <2>1. v = [w EXCEPT !.gen = g, !.open = <<w.ep>>, !.found = one, !.clean = new]
            BY DEF Opened, one, new
        <2>2. one \in Seq(1 .. c) /\ <<w.ep>> \in Seq(1 .. c)
            BY <1>3 DEF Heaps
        <2> HIDE DEF v
        <2> QED
            BY <1>1, <1>4, <2>1, <2>2 DEF Searches
    <1> HIDE DEF v, one, new
    <1>6. Same(v, w)
        BY <1>2 DEF Same
    <1>7. Len(v.found) <= Beam(v)
        <2>1. Beam(v) \in Nat \ {0}
            BY <1>6, SameBeam, WorkingIs
        <2>2. Len(one) \in Nat
            BY <1>3 DEF Heaps
        <2> QED
            BY <1>2, <1>3, <2>1, <2>2
    <1>8. v \in Working(c)
        BY <1>2, <1>3, <1>5, <1>7 DEF Working
    <1> QED
        BY <1>2, <1>6, <1>8 DEF v, one, new

LEMMA HeadIs ==
    ASSUME NEW S, NEW list \in Seq(S), list # <<>>
    PROVE  Head(list) \in S /\ Tail(list) \in Seq(S)
    OBVIOUS

LEMMA SeenAlso ==
    ASSUME NEW V, NEW O, NEW F, NEW n
    PROVE  [[visited |-> V, open |-> O, found |-> F] EXCEPT !.visited = @ \cup {n}] =
               [visited |-> V \cup {n}, open |-> O, found |-> F]
    OBVIOUS

LEMMA OpenLess ==
    ASSUME NEW V, NEW O, NEW F, NEW n
    PROVE  [[visited |-> V, open |-> O, found |-> F] EXCEPT !.open = @ \ {n}] =
               [visited |-> V, open |-> O \ {n}, found |-> F]
    OBVIOUS

\* Whether the next neighbour becomes a candidate, and whether a result.
Wanted(w) ==
    \/ Len(w.found) < Beam(w)
    \/ Nearer(graph, w.ask.q, Head(w.todo), Last(w.found))

Counts(w) == Wanted(w) /\ Accepts(graph, Head(w.todo), AllowedNow(w))

NowOpen(w)  == IF Wanted(w) THEN Pushed(w.open, w.ask.q, Head(w.todo)) ELSE w.open
NowFound(w) == IF Counts(w) THEN Cut(Pushed(w.found, w.ask.q, Head(w.todo)), Beam(w)) ELSE w.found

LEMMA VisitedIs ==
    ASSUME NEW c \in Nat, graph \in GraphOf(c), NEW w \in Working(c), w.todo # <<>>
    PROVE  /\ Visited(w) \in Working(c) /\ Same(Visited(w), w)
           /\ Visited(w).pc = w.pc /\ Visited(w).gen = w.gen /\ Visited(w).clean = w.clean
           /\ Visited(w).todo = Tail(w.todo)
           /\ Head(w.todo) \in 1 .. c
           /\ marks[Head(w.todo)] = w.gen =>
                  Visited(w).open = w.open /\ Visited(w).found = w.found
           /\ marks[Head(w.todo)] # w.gen =>
                  Visited(w).open = NowOpen(w) /\ Visited(w).found = NowFound(w)
    <1> DEFINE v == Visited(w)
               n == Head(w.todo)
               q == w.ask.q
    <1>1. w \in Searches(c)
        BY DEF Working
    <1>2. n \in 1 .. c /\ Tail(w.todo) \in Seq(1 .. c)
        <2>1. w.todo \in Seq(1 .. c)
            BY WorkingIs
        <2> QED
            BY <2>1, HeadIs
    <1>3. q \in Points /\ Beam(w) \in Nat \ {0}
        BY WorkingIs
    <1>4. v = IF marks[n] = w.gen THEN [w EXCEPT !.todo = Tail(w.todo)]
              ELSE [w EXCEPT !.todo = Tail(w.todo), !.open = NowOpen(w), !.found = NowFound(w)]
        BY DEF Visited, NowOpen, NowFound, Counts, Wanted, Cut
    <1>5. NowOpen(w) \in Heaps(c, q)
        <2>1. w.open \in Heaps(c, q)
            BY DEF Working
        <2>2. Pushed(w.open, q, n) \in Heaps(c, q)
            BY <1>2, <1>3, <2>1, PushedIs DEF Heaps
        <2> QED
            BY <2>1, <2>2 DEF NowOpen
    <1>6. NowFound(w) \in Heaps(c, q) /\ Len(NowFound(w)) <= Beam(w)
        <2>1. w.found \in Heaps(c, q) /\ Len(w.found) <= Beam(w)
            BY DEF Working
        <2>2. Pushed(w.found, q, n) \in Heaps(c, q)
            BY <1>2, <1>3, <2>1, PushedIs DEF Heaps
        <2> DEFINE p == Pushed(w.found, q, n)
                   k == Beam(w)
        <2>3. p \in Seq(1 .. c) /\ Ordered(graph, q, p) /\ k \in Nat
            BY <1>3, <2>2 DEF Heaps
        <2> HIDE DEF p, k
        <2>4. Cut(p, k) \in Seq(1 .. c) /\ Ordered(graph, q, Cut(p, k)) /\ Len(Cut(p, k)) <= k
            BY <2>3, CutIs
        <2> QED
            BY <2>1, <2>4 DEF NowFound, Heaps, p, k
    <1>7. /\ v.pc = w.pc /\ v.ask = w.ask /\ v.layer = w.layer /\ v.ep = w.ep
          /\ v.gen = w.gen /\ v.alone = w.alone /\ v.clean = w.clean
          /\ v.todo = Tail(w.todo)
          /\ marks[n] = w.gen => v.open = w.open /\ v.found = w.found
          /\ marks[n] # w.gen => v.open = NowOpen(w) /\ v.found = NowFound(w)
        BY <1>1, <1>4 DEF Searches
    <1>8. v \in Searches(c)
        <2>1. NowOpen(w) \in Seq(1 .. c) /\ NowFound(w) \in Seq(1 .. c)
            BY <1>5, <1>6 DEF Heaps
        <2> HIDE DEF v, n
        <2> QED
            BY <1>1, <1>2, <1>4, <2>1 DEF Searches
    <1> HIDE DEF v, n
    <1>9. Same(v, w)
        BY <1>7 DEF Same
    <1>10. Beam(v) = Beam(w)
        BY <1>9, SameBeam
    <1>11. v.open \in Heaps(c, q) /\ v.found \in Heaps(c, q) /\ Len(v.found) <= Beam(w)
        BY <1>5, <1>6, <1>7 DEF Working
    <1>12. v \in Working(c)
        BY <1>7, <1>8, <1>10, <1>11 DEF Working
    <1> QED
        BY <1>2, <1>7, <1>9, <1>12 DEF v, n

\* The nodes with the search's mark, and its heaps as sets.
BeamOf(w, m, c) ==
    [visited |-> {n \in 1 .. c : m[n] = w.gen}, open |-> ToSet(w.open), found |-> ToSet(w.found)]

Singles(w) == Single(w.open) /\ Single(w.found)

\* With its own marks on the array, a look at a neighbour is search_layer's.
LEMMA VisitExamines ==
    ASSUME NEW c \in Nat, graph \in GraphOf(c), NEW w \in Working(c), w.todo # <<>>,
           NEW m, marks \in Seq(Nat), c <= Len(marks), m = [marks EXCEPT ![Head(w.todo)] = w.gen],
           Singles(w), Sound(BeamOf(w, marks, c))
    PROVE  /\ Singles(Visited(w))
           /\ BeamOf(Visited(w), m, c) =
                  Examine(graph, w.ask.q, Beam(w), AllowedNow(w), BeamOf(w, marks, c), Head(w.todo))
    <1> DEFINE v == Visited(w)
               n == Head(w.todo)
               q == w.ask.q
               ef == Beam(w)
               b == BeamOf(w, marks, c)
    <1>1. /\ n \in 1 .. c /\ v.gen = w.gen
          /\ marks[n] = w.gen => v.open = w.open /\ v.found = w.found
          /\ marks[n] # w.gen => v.open = NowOpen(w) /\ v.found = NowFound(w)
        BY VisitedIs
    <1>2. /\ q \in Points /\ ef \in Nat \ {0}
          /\ w.open \in Seq(1 .. c) /\ Ordered(graph, q, w.open)
          /\ w.found \in Seq(1 .. c) /\ Ordered(graph, q, w.found)
        BY WorkingIs
    <1>3. Len(w.found) <= ef
        BY DEF Working
    <1>4. /\ b.visited = {k \in 1 .. c : marks[k] = w.gen}
          /\ b.open = ToSet(w.open) /\ b.found = ToSet(w.found)
        BY DEF BeamOf
    <1>5. b.open \subseteq b.visited /\ b.found \subseteq b.visited
        BY DEF Sound
    <1> HIDE DEF v, ef, b
    <1>6. {k \in 1 .. c : m[k] = v.gen} = b.visited \cup {n}
        <2>1. \A k \in 1 .. c : k \in DOMAIN marks
            OBVIOUS
        <2> HIDE DEF n
        <2>2. \A k \in 1 .. c : m[k] = IF k = n THEN w.gen ELSE marks[k]
            BY <1>1, <2>1 DEF n
        <2> QED
            BY <1>1, <1>4, <2>2
    <1>7. BeamOf(v, m, c) = [visited |-> b.visited \cup {n}, open |-> ToSet(v.open),
                             found |-> ToSet(v.found)]
        BY <1>6 DEF BeamOf
    <1> HIDE DEF n, q
    <1>8. CASE n \in b.visited
        <2>1. marks[n] = w.gen
            BY <1>4, <1>8
        <2>2. BeamOf(v, m, c) = b
            <3>1. b.visited \cup {n} = b.visited
                BY <1>8
            <3> QED
                BY <1>1, <1>4, <1>7, <2>1, <3>1 DEF b, BeamOf
        <2>3. Examine(graph, q, ef, AllowedNow(w), b, n) = b
            BY <1>8 DEF Examine
        <2> QED
            BY <1>1, <2>1, <2>2, <2>3 DEF Singles, v, n, q, ef, b
    <1>9. CASE n \notin b.visited
        <2>1. v.open = NowOpen(w) /\ v.found = NowFound(w)
            BY <1>1, <1>4, <1>9
        <2>2. n \notin ToSet(w.open) /\ n \notin ToSet(w.found)
            BY <1>4, <1>5, <1>9
        <2>3. Single(w.open) /\ Single(w.found)
            BY DEF Singles
        <2>4. Wanted(w) <=> \/ Cardinality(b.found) < ef
                            \/ Nearer(graph, q, n, Farthest(graph, q, b.found))
            <3>1. Cardinality(b.found) = Len(w.found)
                BY <1>2, <1>4, <2>3, HeapIs
            <3>2. CASE w.found = <<>>
                <4>1. Len(w.found) < ef
                    BY <1>2, <3>2
                <4> QED
                    BY <3>1, <4>1 DEF Wanted, ef
            <3>3. CASE w.found # <<>>
                <4>1. Last(w.found) = Farthest(graph, q, b.found)
                    BY <1>2, <1>4, <3>3, HeapIs
                <4> QED
                    BY <3>1, <4>1 DEF Wanted, ef, n, q
            <3> QED
                BY <3>2, <3>3
        <2>5. /\ Pushed(w.open, q, n) \in Seq(1 .. c) /\ Single(Pushed(w.open, q, n))
              /\ ToSet(Pushed(w.open, q, n)) = b.open \cup {n}
            <3>1. Single(w.open) /\ n \notin ToSet(w.open)
                BY <2>2, <2>3
            <3>2. /\ Pushed(w.open, q, n) \in Seq(1 .. c)
                  /\ ToSet(Pushed(w.open, q, n)) = ToSet(w.open) \cup {n}
                  /\ Single(w.open) /\ n \notin ToSet(w.open) => Single(Pushed(w.open, q, n))
                BY <1>1, <1>2, PushedIs
            <3> QED
                BY <1>4, <3>1, <3>2
        <2> DEFINE p == Pushed(w.found, q, n)
        <2>6. /\ p \in Seq(1 .. c) /\ Single(p) /\ Ordered(graph, q, p)
              /\ ToSet(p) = b.found \cup {n} /\ Len(p) = Len(w.found) + 1
            <3>1. Single(w.found) /\ n \notin ToSet(w.found)
                BY <2>2, <2>3
            <3>2. /\ p \in Seq(1 .. c) /\ Ordered(graph, q, p) /\ Len(p) = Len(w.found) + 1
                  /\ ToSet(p) = ToSet(w.found) \cup {n}
                  /\ Single(w.found) /\ n \notin ToSet(w.found) => Single(p)
                <4> DEFINE h == w.found
                <4>1. h \in Seq(1 .. c) /\ Ordered(graph, q, h) /\ q \in Points /\ n \in 1 .. c
                    BY <1>1, <1>2
                <4> HIDE DEF h
                <4>2. /\ Pushed(h, q, n) \in Seq(1 .. c) /\ Len(Pushed(h, q, n)) = Len(h) + 1
                      /\ Ordered(graph, q, Pushed(h, q, n))
                      /\ ToSet(Pushed(h, q, n)) = ToSet(h) \cup {n}
                      /\ Single(h) /\ n \notin ToSet(h) => Single(Pushed(h, q, n))
                    BY <4>1, PushedIs
                <4> QED
                    BY <4>2 DEF h
            <3> HIDE DEF p
            <3> QED
                BY <1>4, <3>1, <3>2
        <2> HIDE DEF p
        <2>7. ef \in Nat /\ Len(p) <= ef + 1
            BY <1>2, <1>3, <2>6
        <2>8. Single(Cut(p, ef)) /\ ToSet(Cut(p, ef)) = Trimmed(graph, q, ef, b.found \cup {n})
            <3>1. Single(p) => Single(Cut(p, ef))
                BY <2>6, <2>7, CutIs
            <3>2. ToSet(Cut(p, ef)) = Trimmed(graph, q, ef, ToSet(p))
                BY <1>2, <2>6, <2>7, TrimIs
            <3> QED
                BY <2>6, <3>1, <3>2
        <2>9. NowOpen(w) = IF Wanted(w) THEN Pushed(w.open, q, n) ELSE w.open
            BY DEF NowOpen, n, q
        <2>10. NowFound(w) = IF Wanted(w) /\ Accepts(graph, n, AllowedNow(w)) THEN Cut(p, ef)
                             ELSE w.found
            BY DEF NowFound, Counts, n, q, ef, p
        <2>11. Singles(v)
            BY <2>1, <2>3, <2>5, <2>8, <2>9, <2>10 DEF Singles
        <2>12. CASE Wanted(w)
            <3>1. Examine(graph, q, ef, AllowedNow(w), b, n) =
                      [visited |-> b.visited \cup {n}, open |-> b.open \cup {n},
                       found |-> IF Accepts(graph, n, AllowedNow(w))
                                   THEN Trimmed(graph, q, ef, b.found \cup {n}) ELSE b.found]
                BY <1>9, <2>4, <2>12 DEF Examine
            <3>2. ToSet(v.open) = b.open \cup {n}
                BY <2>1, <2>5, <2>9, <2>12
            <3>3. ToSet(v.found) = IF Accepts(graph, n, AllowedNow(w))
                                   THEN Trimmed(graph, q, ef, b.found \cup {n}) ELSE b.found
                BY <1>4, <2>1, <2>8, <2>10, <2>12
            <3> QED
                BY <1>7, <2>11, <3>1, <3>2, <3>3 DEF v, n, q, ef, b
        <2>13. CASE ~Wanted(w)
            <3>1. Examine(graph, q, ef, AllowedNow(w), b, n) = [b EXCEPT !.visited = @ \cup {n}]
                BY <1>9, <2>4, <2>13 DEF Examine
            <3>2. v.open = w.open /\ v.found = w.found
                BY <2>1, <2>9, <2>10, <2>13
            <3>3. [b EXCEPT !.visited = @ \cup {n}] =
                      [visited |-> b.visited \cup {n}, open |-> b.open, found |-> b.found]
                <4> DEFINE V == b.visited
                           O == b.open
                           F == b.found
                <4>1. b = [visited |-> V, open |-> O, found |-> F]
                    BY DEF b, BeamOf
                <4>2. V = b.visited /\ O = b.open /\ F = b.found
                    OBVIOUS
                <4> HIDE DEF V, O, F
                <4>3. [b EXCEPT !.visited = @ \cup {n}] =
                          [visited |-> V \cup {n}, open |-> O, found |-> F]
                    BY ONLY <4>1, SeenAlso
                <4> QED
                    BY <4>2, <4>3
            <3> QED
                BY <1>4, <1>7, <2>11, <3>1, <3>2, <3>3 DEF v, n, q, ef, b
        <2> QED
            BY <2>12, <2>13
    <1> QED
        BY <1>8, <1>9

LEMMA TakenIs ==
    ASSUME NEW c \in Nat, graph \in GraphOf(c), NEW w \in Working(c), w.open # <<>>,
           NEW beam, beam.open = ToSet(w.open)
    PROVE  /\ Taken(w) \in Working(c) /\ Same(Taken(w), w)
           /\ Taken(w).pc = "visit" /\ Taken(w).gen = w.gen /\ Taken(w).clean = w.clean
           /\ Taken(w).open = Tail(w.open) /\ Taken(w).found = w.found
           /\ Taken(w).todo = Way(graph, w.ask.q, w.layer, beam)
    <1> DEFINE v == Taken(w)
               q == w.ask.q
               list == Way(graph, q, w.layer, beam)
               aim == Aim(graph, q, beam)
    <1>1. w \in Searches(c) /\ w.open \in Heaps(c, q) /\ Len(w.found) <= Beam(w)
        BY DEF Working
    <1>2. /\ q \in Points /\ w.layer \in Nat
          /\ w.open \in Seq(1 .. c) /\ Ordered(graph, q, w.open)
        BY WorkingIs
    <1>3. Head(w.open) = Nearest(graph, q, ToSet(w.open)) /\ Head(w.open) \in 1 .. c
        BY <1>2, HeapIs
    <1>4. v = [w EXCEPT !.pc = "visit", !.open = Tail(w.open), !.todo = list]
        <2>1. Resolved(graph, Head(w.open)) = aim
            BY <1>3 DEF Aim
        <2>2. list = IF aim = NoNode \/ w.layer > graph.nodes[aim].top THEN <<>>
                     ELSE graph.nodes[aim].neighbors[w.layer]
            BY DEF Way, Barren, Ahead
        <2> HIDE DEF aim, list
        <2> QED
            BY <2>1, <2>2 DEF Taken
    <1>5. list \in Seq(1 .. c)
        <2>1. aim \in 0 .. c
            BY <1>3, GraphIs DEF Aim
        <2>2. CASE aim = NoNode \/ w.layer > graph.nodes[aim].top
            <3>1. list = <<>>
                BY <2>2 DEF Way, Barren
            <3> QED
                BY <3>1
        <2>3. CASE ~(aim = NoNode \/ w.layer > graph.nodes[aim].top)
            <3>1. list = graph.nodes[aim].neighbors[w.layer]
                BY <2>3 DEF Way, Barren, Ahead
            <3> HIDE DEF aim, list
            <3>2. aim \in 1 .. c
                BY <2>1, <2>3 DEF NoNode
            <3>3. graph.nodes[aim].top \in Nat
                BY <3>2, GraphIs
            <3>4. w.layer \in 0 .. graph.nodes[aim].top
                BY <1>2, <2>3, <3>3
            <3> QED
                BY <3>1, <3>2, <3>4, ListIs
        <2> QED
            BY <2>2, <2>3
    <1>6. Tail(w.open) \in Heaps(c, q)
        BY <1>2, TailIs DEF Heaps
    <1> HIDE DEF list
    <1>7. /\ v.pc = "visit" /\ v.ask = w.ask /\ v.layer = w.layer /\ v.ep = w.ep
          /\ v.gen = w.gen /\ v.alone = w.alone /\ v.clean = w.clean
          /\ v.todo = list /\ v.open = Tail(w.open) /\ v.found = w.found
        BY <1>1, <1>4 DEF Searches
    <1>8. v \in Searches(c)
        <2>1. Tail(w.open) \in Seq(1 .. c) /\ "visit" \in PCs
            BY <1>6 DEF Heaps, PCs
        <2> HIDE DEF v
        <2> QED
            BY <1>1, <1>4, <1>5, <2>1 DEF Searches
    <1> HIDE DEF v
    <1>9. Same(v, w) /\ Beam(v) = Beam(w)
        BY <1>7, SameBeam DEF Same
    <1>10. v \in Working(c)
        BY <1>1, <1>6, <1>7, <1>8, <1>9 DEF Working
    <1> QED
        BY <1>7, <1>9, <1>10 DEF v, list

LEMMA ClosedIs ==
    ASSUME NEW c \in Nat, graph \in GraphOf(c), NEW w \in Working(c)
    PROVE  /\ Closed(w) \in Working(c)
           /\ Closed(w).ask = w.ask /\ Closed(w).alone = w.alone
           /\ Closed(w).clean = w.clean /\ Closed(w).todo = w.todo
           /\ Closed(w).gen = w.gen
           /\ w.layer # 0 =>
                  /\ Closed(w).pc = "layer" /\ Closed(w).layer = w.layer - 1
                  /\ Closed(w).ep = Follow(graph, w.ask.q, w.ep, ToSet(w.found))
           /\ w.layer = 0 =>
                  /\ Closed(w).pc = "return" /\ Closed(w).layer = 0
                  /\ Closed(w).found = Cut(w.found, w.ask.topK)
    <1> DEFINE v == Closed(w)
               q == w.ask.q
               next == Follow(graph, q, w.ep, ToSet(w.found))
               first == Cut(w.found, w.ask.topK)
    <1>1. /\ w \in Searches(c) /\ w.ask \in Requests /\ w.layer \in 0 .. graph.top
          /\ w.ep \in 1 .. c /\ Len(w.found) <= Beam(w)
        BY DEF Working
    <1>2. /\ q \in Points /\ w.ask.topK \in Nat \ {0} /\ Beam(w) \in Nat \ {0}
          /\ w.found \in Seq(1 .. c) /\ Ordered(graph, q, w.found)
        BY WorkingIs
    <1>3. graph.top \in Nat
        BY GraphIs
    <1>4. next \in 1 .. c
        <2>1. Tower(graph, c, All(c)) /\ All(c)[w.layer] = 1 .. c /\ w.layer \in Nat
            <3>1. w.layer \in Nat
                BY <1>1
            <3>2. All(c)[w.layer] = 1 .. c
                BY <3>1 DEF All
            <3>3. Tower(graph, c, All(c))
                BY AllIsTower
            <3> QED
                BY <3>1, <3>2, <3>3
        <2>2. ToSet(w.found) \in SUBSET All(c)[w.layer] /\ w.ep \in All(c)[w.layer]
            <3>1. ToSet(w.found) \in SUBSET (1 .. c)
                BY <1>2, HeapIs
            <3> QED
                BY <1>1, <2>1, <3>1
        <2>3. next \in All(c)[w.layer]
            BY <1>2, <2>1, <2>2, FollowIn
        <2> QED
            BY <2>1, <2>3
    <1>5. first \in Heaps(c, q) /\ Len(first) <= Len(w.found)
        <2>1. w.ask.topK \in Nat
            BY <1>2
        <2>2. /\ first \in Seq(1 .. c) /\ Ordered(graph, q, first)
              /\ Len(first) = Lesser(Len(w.found), w.ask.topK)
            <3> DEFINE k == w.ask.topK
                       h == w.found
            <3>1. k \in Nat /\ h \in Seq(1 .. c) /\ Ordered(graph, q, h) /\ q \in Points
                BY <1>2, <2>1
            <3> HIDE DEF k, h, q
            <3>2. /\ Cut(h, k) \in Seq(1 .. c) /\ Ordered(graph, q, Cut(h, k))
                  /\ Len(Cut(h, k)) = Lesser(Len(h), k)
                BY <3>1, CutIs
            <3> QED
                BY <3>2 DEF h, k
        <2>3. Len(w.found) \in Nat
            BY <1>2
        <2> HIDE DEF first
        <2> QED
            BY <2>1, <2>2, <2>3 DEF Heaps, Lesser
    <1>6. <<>> \in Heaps(c, q) /\ Len(<<>>) = 0
        BY <1>1, OneIsHeap
    <1>7. CASE w.layer # 0
        <2>1. v = [w EXCEPT !.pc = "layer", !.layer = w.layer - 1, !.open = <<>>, !.found = <<>>,
                            !.ep = next]
            BY <1>1, <1>7 DEF Closed
        <2> HIDE DEF next, first
        <2>2. /\ v.pc = "layer" /\ v.ask = w.ask /\ v.layer = w.layer - 1 /\ v.ep = next
              /\ v.gen = w.gen /\ v.alone = w.alone /\ v.clean = w.clean
              /\ v.todo = w.todo /\ v.open = <<>> /\ v.found = <<>>
            BY <1>1, <2>1 DEF Searches
        <2>3. w.layer - 1 \in Nat /\ w.layer - 1 \in 0 .. graph.top
            BY <1>1, <1>3, <1>7
        <2>4. v \in Searches(c)
            <3>1. <<>> \in Seq(1 .. c) /\ "layer" \in PCs /\ next \in 0 .. c
                BY <1>4 DEF PCs
            <3> HIDE DEF v
            <3> QED
                BY <1>1, <2>1, <2>3, <3>1 DEF Searches
        <2> HIDE DEF v
        <2>5. Beam(v) \in Nat \ {0}
            <3>1. EfSearch \in Nat \ {0}
                BY SearchAssumption
            <3> QED
                BY <1>2, <2>2, <3>1 DEF Beam, Greater
        <2>6. v \in Working(c)
            BY <1>1, <1>4, <1>6, <2>2, <2>3, <2>4, <2>5 DEF Working
        <2> QED
            BY <1>7, <2>2, <2>6 DEF v, next
    <1>8. CASE w.layer = 0
        <2>1. v = [w EXCEPT !.pc = "return", !.open = <<>>, !.found = first]
            BY <1>8 DEF Closed, Cut
        <2> HIDE DEF next, first
        <2>2. /\ v.pc = "return" /\ v.ask = w.ask /\ v.layer = w.layer /\ v.ep = w.ep
              /\ v.gen = w.gen /\ v.alone = w.alone /\ v.clean = w.clean
              /\ v.todo = w.todo /\ v.open = <<>> /\ v.found = first
            BY <1>1, <2>1 DEF Searches
        <2>3. v \in Searches(c)
            <3>1. <<>> \in Seq(1 .. c) /\ "return" \in PCs /\ first \in Seq(1 .. c)
                BY <1>5 DEF PCs, Heaps
            <3> HIDE DEF v
            <3> QED
                BY <1>1, <2>1, <3>1 DEF Searches
        <2> HIDE DEF v
        <2>4. Beam(v) = Beam(w)
            BY <2>2 DEF Beam
        <2>5. Len(v.found) <= Beam(v)
            <3>1. Len(first) \in Nat /\ Len(w.found) \in Nat
                BY <1>2, <1>5 DEF Heaps
            <3> QED
                BY <1>1, <1>2, <1>5, <2>2, <2>4, <3>1
        <2>6. v \in Working(c)
            BY <1>1, <1>5, <1>6, <2>2, <2>3, <2>5 DEF Working
        <2> QED
            BY <1>8, <2>2, <2>6 DEF v, first
    <1> QED
        BY <1>7, <1>8

LEMMA AdvancedIs ==
    ASSUME NEW c \in Nat, graph \in GraphOf(c), NEW w \in Working(c)
    PROVE  /\ Advanced(w) \in Working(c)
           /\ Advanced(w).ask = w.ask /\ Advanced(w).alone = w.alone
           /\ Advanced(w).clean = w.clean /\ Advanced(w).gen = w.gen
           /\ w.todo # <<>> => Advanced(w) = w
           /\ w.todo = <<>> => /\ Advanced(w).pc \in {"layer", "visit", "return"}
                               /\ Advanced(w).pc = "layer" => Advanced(w).todo = <<>>
    <1>1. CASE w.todo # <<>>
        BY <1>1 DEF Advanced
    <1>2. CASE w.todo = <<>> /\ LayerDone(w)
        <2>1. Advanced(w) = Closed(w)
            BY <1>2 DEF Advanced
        <2>2. /\ Closed(w) \in Working(c)
              /\ Closed(w).ask = w.ask /\ Closed(w).alone = w.alone
              /\ Closed(w).clean = w.clean /\ Closed(w).todo = w.todo
              /\ Closed(w).gen = w.gen
              /\ w.layer # 0 => Closed(w).pc = "layer"
              /\ w.layer = 0 => Closed(w).pc = "return"
            BY ClosedIs
        <2> QED
            BY <1>2, <2>1, <2>2
    <1>3. CASE w.todo = <<>> /\ ~LayerDone(w)
        <2>1. Advanced(w) = Taken(w) /\ w.open # <<>>
            BY <1>3 DEF Advanced, LayerDone
        <2> DEFINE beam == [open |-> ToSet(w.open)]
        <2>2. beam.open = ToSet(w.open)
            OBVIOUS
        <2> HIDE DEF beam
        <2>3. /\ Taken(w) \in Working(c) /\ Same(Taken(w), w)
              /\ Taken(w).pc = "visit" /\ Taken(w).clean = w.clean
              /\ Taken(w).gen = w.gen
            BY <2>1, <2>2, TakenIs
        <2> QED
            BY <1>3, <2>1, <2>3 DEF Same
    <1> QED
        BY <1>1, <1>2, <1>3

-----------------------------------------------------------------------------
(* A search that has the marks to itself follows search_layer.             *)

RoundsOf(w) == Rounds(graph, w.ask.q, w.ep, Beam(w), w.layer, AllowedNow(w))
WayOf(w, i) == Way(graph, w.ask.q, w.layer, RoundsOf(w)[i])
LooksOf(w, i) == Looks(graph, w.ask.q, Beam(w), w.layer, AllowedNow(w), RoundsOf(w)[i])
Ends(w, i) == Finished(graph, w.ask.q, Beam(w), RoundsOf(w)[i])

\* w, with the array m, is where search_layer is after i rounds.
AtRound(w, m, c, i) == Singles(w) /\ BeamOf(w, m, c) = RoundsOf(w)[i]

\* It is in the next round, and has looked at j neighbours.
AtLook(w, m, c, i, j) ==
    /\ ~Ends(w, i) /\ Singles(w)
    /\ BeamOf(w, m, c) = LooksOf(w, i)[1 .. j]
    /\ w.todo = SubSeq(WayOf(w, i), j + 1, Len(WayOf(w, i)))

\* Where the descent enters the layer of w.
EntryTo(w) == Descend(graph, w.ask.q, graph.entry, graph.top, w.layer + 1)

OnCourse(w, m, c) ==
    /\ w.pc \in {"layer", "visit"} => w.ep = EntryTo(w)
    /\ w.pc = "visit" =>
           \E i \in 0 .. c : \E j \in 0 .. Len(WayOf(w, i)) : AtLook(w, m, c, i, j)
    /\ w.pc = "return" => Single(w.found) /\ Result(w) = Expected(w)

LEMMA SameRounds ==
    ASSUME NEW v, NEW w, Same(v, w)
    PROVE  /\ RoundsOf(v) = RoundsOf(w) /\ EntryTo(v) = EntryTo(w)
           /\ \A i : WayOf(v, i) = WayOf(w, i) /\ LooksOf(v, i) = LooksOf(w, i)
           /\ \A i : Ends(v, i) <=> Ends(w, i)
    <1>1. Beam(v) = Beam(w) /\ AllowedNow(v) = AllowedNow(w)
        BY SameBeam
    <1>2. v.ask = w.ask /\ v.layer = w.layer /\ v.ep = w.ep
        BY DEF Same
    <1>3. RoundsOf(v) = RoundsOf(w)
        BY <1>1, <1>2 DEF RoundsOf
    <1> QED
        BY <1>1, <1>2, <1>3 DEF WayOf, LooksOf, Ends, EntryTo

CourseOf(w, c) ==
    Course(RoundsOf(w), graph, w.ask.q, w.ep, Beam(w), w.layer, AllowedNow(w), c)

LEMMA WorkingCourse ==
    ASSUME NEW c \in Nat, graph \in GraphOf(c), NEW w \in Working(c)
    PROVE  CourseOf(w, c)
    <1>1. w.ask.q \in Points /\ w.layer \in Nat /\ w.ep \in 1 .. c
        BY WorkingIs
    <1> QED
        BY <1>1, CourseIs DEF CourseOf, RoundsOf

LEMMA LayerDoneIs ==
    ASSUME NEW c \in Nat, graph \in GraphOf(c), NEW w \in Working(c), Single(w.found),
           NEW beam, beam.open = ToSet(w.open), beam.found = ToSet(w.found)
    PROVE  LayerDone(w) <=> Finished(graph, w.ask.q, Beam(w), beam)
    <1> DEFINE q == w.ask.q
    <1>1. /\ q \in Points /\ Beam(w) \in Nat \ {0}
          /\ w.open \in Seq(1 .. c) /\ Ordered(graph, q, w.open)
          /\ w.found \in Seq(1 .. c) /\ Ordered(graph, q, w.found)
        BY WorkingIs
    <1>2. /\ beam.open = {} <=> w.open = <<>>
          /\ w.open # <<>> => Head(w.open) = Nearest(graph, q, beam.open)
        BY <1>1, HeapIs
    <1>3. /\ beam.found = {} <=> w.found = <<>>
          /\ Cardinality(beam.found) = Len(w.found)
          /\ w.found # <<>> => Last(w.found) = Farthest(graph, q, beam.found)
        BY <1>1, HeapIs
    <1>4. Len(w.found) \in Nat
        BY <1>1
    <1>5. Full(w) <=> beam.found # {} /\ Cardinality(beam.found) >= Beam(w)
        BY <1>3 DEF Full
    <1>6. CASE w.open = <<>>
        BY <1>2, <1>6 DEF LayerDone, Finished
    <1>7. CASE w.open # <<>> /\ ~Full(w)
        BY <1>2, <1>5, <1>7 DEF LayerDone, Finished
    <1>8. CASE w.open # <<>> /\ Full(w)
        <2>1. Last(w.found) = Farthest(graph, q, beam.found)
            BY <1>3, <1>8 DEF Full
        <2>2. Nearer(graph, q, Last(w.found), Head(w.open)) <=>
                  Nearer(graph, q, Farthest(graph, q, beam.found), Nearest(graph, q, beam.open))
            BY <1>2, <1>8, <2>1
        <2>3. LayerDone(w) <=> Nearer(graph, q, Last(w.found), Head(w.open))
            BY <1>8 DEF LayerDone
        <2>4. Finished(graph, q, Beam(w), beam) <=>
                  Nearer(graph, q, Farthest(graph, q, beam.found), Nearest(graph, q, beam.open))
            BY <1>2, <1>5, <1>8 DEF Finished
        <2> QED
            BY <2>2, <2>3, <2>4
    <1> QED
        BY <1>6, <1>7, <1>8

\* After a round: the next one, the next layer, or the end.
LEMMA GoesOn ==
    ASSUME NEW c \in Nat, graph \in GraphOf(c), graph.entry \in 1 .. c,
           NEW w \in Working(c), w.todo = <<>>, w.ep = EntryTo(w),
           NEW m, NEW i \in 0 .. c, AtRound(w, m, c, i)
    PROVE  OnCourse(Advanced(w), m, c)
    <1> DEFINE q == w.ask.q
               b == RoundsOf(w)[i]
               found == SearchLayer(graph, q, w.ep, Beam(w), w.layer, AllowedNow(w))
    <1>1. /\ b \in Beams(graph, 1 .. c, AllowedNow(w)) /\ Sound(b)
          /\ Ends(w, i) => found = b.found
          /\ ~Ends(w, i) =>
                 Leads(LooksOf(w, i), graph, q, Beam(w), w.layer, AllowedNow(w), b, c)
        BY WorkingCourse DEF CourseOf, Course, Ends, LooksOf
    <1>2. b = BeamOf(w, m, c) /\ Single(w.open) /\ Single(w.found)
        BY DEF AtRound, Singles
    <1>3. b.open = ToSet(w.open) /\ b.found = ToSet(w.found)
        BY <1>2 DEF BeamOf
    <1>4. LayerDone(w) <=> Ends(w, i)
        BY <1>2, <1>3, LayerDoneIs DEF Ends
    <1>5. /\ q \in Points /\ w.layer \in Nat /\ w.ask.topK \in Nat \ {0}
          /\ w.open \in Seq(1 .. c) /\ Ordered(graph, q, w.open)
          /\ w.found \in Seq(1 .. c) /\ Ordered(graph, q, w.found)
        BY WorkingIs
    <1>6. w.layer \in 0 .. graph.top /\ graph.top \in Nat
        BY GraphIs DEF Working
    <1> HIDE DEF b
    <1>7. CASE LayerDone(w) /\ w.layer # 0
        <2> DEFINE v == Closed(w)
        <2>1. Advanced(w) = v
            BY <1>7 DEF Advanced
        <2>2. /\ v.pc = "layer" /\ v.ask = w.ask /\ v.layer = w.layer - 1
              /\ v.ep = Follow(graph, q, w.ep, ToSet(w.found))
            BY <1>7, ClosedIs
        <2>3. Beam(w) = 1 /\ AllowedNow(w) = Docs
            BY <1>7, WorkingIs
        <2>4. ToSet(w.found) = SearchLayer(graph, q, w.ep, 1, w.layer, Docs)
            BY <1>1, <1>3, <1>4, <1>7, <2>3
        <2> HIDE DEF v, q
        <2>5. v.ep = Down(graph, q, w.ep, w.layer)
            BY <2>2, <2>4 DEF Down
        <2>6. Descend(graph, q, graph.entry, graph.top, w.layer)
                  = Down(graph, q, Descend(graph, q, graph.entry, graph.top, w.layer + 1), w.layer)
            BY <1>5, <1>6, DescendStep
        <2>7. v.layer + 1 = w.layer
            BY <1>5, <2>2
        <2>8. v.ep = EntryTo(v)
            BY <2>2, <2>5, <2>6, <2>7 DEF EntryTo, q
        <2> QED
            BY <2>1, <2>2, <2>8 DEF OnCourse
    <1>8. CASE LayerDone(w) /\ w.layer = 0
        <2> DEFINE v == Closed(w)
                   k == w.ask.topK
        <2>1. Advanced(w) = v
            BY <1>8 DEF Advanced
        <2>2. v.pc = "return" /\ v.ask = w.ask /\ v.found = Cut(w.found, k)
            BY <1>8, ClosedIs
        <2>3. Beam(w) = Greater(EfSearch, k) /\ AllowedNow(w) = w.ask.allowed
            BY <1>8, WorkingIs
        <2>4. w.ep = Descend(graph, q, graph.entry, graph.top, 1)
            <3>1. w.layer + 1 = 1
                BY <1>8
            <3> QED
                BY <3>1 DEF EntryTo
        <2>5. ToSet(w.found) =
                  SearchLayer(graph, q, Descend(graph, q, graph.entry, graph.top, 1),
                              Greater(EfSearch, k), 0, w.ask.allowed)
            BY <1>1, <1>3, <1>4, <1>8, <2>3, <2>4
        <2>6. graph.entry # NoNode
            BY DEF NoNode
        <2> HIDE DEF v, q, found
        <2>7. Search(graph, q, k, EfSearch, w.ask.allowed) =
                  {n \in ToSet(w.found) :
                      Cardinality({x \in ToSet(w.found) : Nearer(graph, q, x, n)}) < k}
            BY <2>5, <2>6 DEF Search
        <2>8. k \in Nat
            BY <1>5
        <2> HIDE DEF k
        <2>9. /\ ToSet(Cut(w.found, k)) =
                     {n \in ToSet(w.found) :
                         Cardinality({x \in ToSet(w.found) : Nearer(graph, q, x, n)}) < k}
              /\ Single(Cut(w.found, k))
            <3> DEFINE h == w.found
            <3>1. h \in Seq(1 .. c) /\ Ordered(graph, q, h) /\ Single(h) /\ q \in Points
                BY <1>2, <1>5 DEF q
            <3> HIDE DEF h
            <3>2. ToSet(Cut(h, k)) =
                      {n \in ToSet(h) : Cardinality({x \in ToSet(h) : Nearer(graph, q, x, n)}) < k}
                BY ONLY <2>8, <3>1, FirstMany, c \in Nat, graph \in GraphOf(c)
            <3>3. Single(h) => Single(Cut(h, k))
                BY <2>8, <3>1, CutIs
            <3> QED
                BY <3>1, <3>2, <3>3 DEF h
        <2>10. Single(v.found) /\ Result(v) = Expected(v)
            BY <2>2, <2>7, <2>9 DEF Result, Expected, q, k
        <2> QED
            BY <2>1, <2>2, <2>10 DEF OnCourse
    <1>9. CASE ~LayerDone(w)
        <2> DEFINE v == Taken(w)
                   near == Nearest(graph, q, b.open)
        <2>1. Advanced(w) = v /\ w.open # <<>>
            BY <1>9 DEF Advanced, LayerDone
        <2>2. /\ Same(v, w) /\ v.pc = "visit" /\ v.gen = w.gen
              /\ v.open = Tail(w.open) /\ v.found = w.found
              /\ v.todo = Way(graph, q, w.layer, b)
            BY <1>3, <2>1, TakenIs
        <2>3. ~Ends(w, i) /\ Leads(LooksOf(w, i), graph, q, Beam(w), w.layer, AllowedNow(w), b, c)
            BY <1>1, <1>4, <1>9
        <2>4. /\ Head(w.open) = near
              /\ Single(Tail(w.open)) /\ ToSet(Tail(w.open)) = ToSet(w.open) \ {Head(w.open)}
            <3> DEFINE h == w.open
            <3>1. /\ h \in Seq(1 .. c) /\ Ordered(graph, q, h) /\ Single(h) /\ h # <<>>
                  /\ q \in Points
                BY <1>2, <1>5, <2>1
            <3> HIDE DEF h
            <3>2. h # <<>> => Head(h) = Nearest(graph, q, ToSet(h))
                BY <3>1, HeapIs
            <3>3. Single(h) => Single(Tail(h)) /\ ToSet(Tail(h)) = ToSet(h) \ {Head(h)}
                BY <3>1, TailIs
            <3> QED
                BY <1>3, <3>1, <3>2, <3>3 DEF h
        <2>5. Way(graph, q, w.layer, b) = WayOf(w, i)
            BY DEF WayOf, b
        <2>6. WayOf(w, i) \in Seq(1 .. c) /\ LooksOf(w, i)[1 .. 0] = Rest(graph, q, b)
            BY <2>3, <2>5 DEF Leads
        <2> HIDE DEF v
        <2>7. BeamOf(v, m, c) = Rest(graph, q, b)
            <3>1. b = [visited |-> b.visited, open |-> b.open, found |-> b.found]
                BY DEF Beams, b, BeamOf, AtRound
            <3>2. Rest(graph, q, b) =
                      [visited |-> b.visited, open |-> b.open \ {near}, found |-> b.found]
                <4> DEFINE V == b.visited
                           O == b.open
                           F == b.found
                <4>1. b = [visited |-> V, open |-> O, found |-> F]
                    BY <3>1
                <4> HIDE DEF V, O, F, near
                <4>2. [b EXCEPT !.open = @ \ {near}] =
                          [visited |-> V, open |-> O \ {near}, found |-> F]
                    BY ONLY <4>1, OpenLess
                <4> QED
                    BY <4>2 DEF Rest, V, O, F, near
            <3>3. b.visited = {n \in 1 .. c : m[n] = v.gen}
                BY <1>2, <2>2 DEF BeamOf
            <3>4. ToSet(v.open) = b.open \ {near} /\ ToSet(v.found) = b.found
                BY <1>3, <2>2, <2>4
            <3> HIDE DEF near
            <3> QED
                BY <3>2, <3>3, <3>4 DEF BeamOf
        <2>8. v.todo = SubSeq(WayOf(w, i), 0 + 1, Len(WayOf(w, i)))
            <3> DEFINE way == WayOf(w, i)
            <3>1. way \in Seq(1 .. c)
                BY <2>6
            <3> HIDE DEF way
            <3>2. SubSeq(way, 0 + 1, Len(way)) = way
                BY <3>1
            <3> QED
                BY <2>2, <2>5, <3>2 DEF way
        <2>9. Singles(v)
            BY <1>2, <2>2, <2>4 DEF Singles
        <2>10. AtLook(v, m, c, i, 0)
            BY <2>2, <2>3, <2>6, <2>7, <2>8, <2>9, SameRounds DEF AtLook
        <2>11. v.ep = EntryTo(v)
            BY <2>2, SameRounds DEF Same
        <2>12. 0 \in 0 .. Len(WayOf(v, i))
            <3>1. Len(WayOf(w, i)) \in Nat
                BY <2>6
            <3> QED
                BY <2>2, <3>1, SameRounds
        <2> QED
            BY <2>1, <2>2, <2>10, <2>11, <2>12 DEF OnCourse
    <1> QED
        BY <1>7, <1>8, <1>9

LEMMA Remainder ==
    ASSUME NEW S, NEW way \in Seq(S), NEW j \in 0 .. Len(way),
           NEW todo, todo = SubSeq(way, j + 1, Len(way))
    PROVE  /\ todo = <<>> => j = Len(way)
           /\ todo # <<>> => /\ j + 1 \in 1 .. Len(way) /\ Head(todo) = way[j + 1]
                             /\ Tail(todo) = SubSeq(way, (j + 1) + 1, Len(way))
    <1> DEFINE n == Len(way)
    <1>1. n \in Nat /\ j \in Nat /\ j <= n
        OBVIOUS
    <1>2. CASE j = n
        <2>1. n < j + 1 /\ j + 1 \in Int /\ n \in Int
            BY <1>1, <1>2
        <2>2. todo = <<>>
            BY <2>1, SubSeqEmpty
        <2> QED
            BY <1>2, <2>2
    <1>3. CASE j # n
        <2>1. j + 1 \in 1 .. n /\ n \in j + 1 .. n
            BY <1>1, <1>3
        <2>2. Head(todo) = way[j + 1] /\ Tail(todo) = SubSeq(way, (j + 1) + 1, n)
            BY <2>1, HeadTailOfSubSeq
        <2>3. todo # <<>>
            <3>1. j + 1 \in Int /\ n \in Int /\ \A k \in j + 1 .. n : way[k] \in S
                BY <1>1
            <3>2. Len(SubSeq(way, j + 1, n)) = IF j + 1 <= n THEN n - (j + 1) + 1 ELSE 0
                BY <3>1, SubSeqProperties
            <3>3. Len(todo) # 0
                BY <1>1, <2>1, <3>2
            <3> QED
                BY <3>3
        <2> QED
            BY <2>1, <2>2, <2>3
    <1> QED
        BY <1>2, <1>3

\* A search in a round is in the course of it.
LEMMA LookingIs ==
    ASSUME NEW c \in Nat, graph \in GraphOf(c), NEW w \in Working(c), NEW m,
           NEW i \in 0 .. c, NEW j \in 0 .. Len(WayOf(w, i)), AtLook(w, m, c, i, j)
    PROVE  /\ WayOf(w, i) \in Seq(1 .. c)
           /\ j + 1 \in 1 .. Len(WayOf(w, i)) =>
                  LooksOf(w, i)[1 .. j + 1] =
                      Examine(graph, w.ask.q, Beam(w), AllowedNow(w), BeamOf(w, m, c),
                              WayOf(w, i)[j + 1])
           /\ Sound(BeamOf(w, m, c))
           /\ i + 1 \in 0 .. c
           /\ RoundsOf(w)[i + 1] = LooksOf(w, i)[1 .. Len(WayOf(w, i))]
    <1> DEFINE q == w.ask.q
               b == RoundsOf(w)[i]
               look == LooksOf(w, i)
               way == WayOf(w, i)
    <1>1. /\ i + 1 \in 0 .. c
          /\ RoundsOf(w)[i + 1] = Expand(graph, q, Beam(w), w.layer, AllowedNow(w), b)
          /\ Leads(look, graph, q, Beam(w), w.layer, AllowedNow(w), b, c)
        BY WorkingCourse DEF CourseOf, Course, Ends, LooksOf, AtLook
    <1>2. Way(graph, q, w.layer, b) = way
        BY DEF WayOf
    <1> HIDE DEF b, look, way
    <1>3. /\ way \in Seq(1 .. c)
          /\ \A k \in 1 .. Len(way) :
                 look[1 .. k] = Examine(graph, q, Beam(w), AllowedNow(w), look[1 .. k - 1], way[k])
          /\ \A k \in 0 .. Len(way) : Sound(look[1 .. k])
          /\ Expand(graph, q, Beam(w), w.layer, AllowedNow(w), b) = look[1 .. Len(way)]
        BY <1>1, <1>2 DEF Leads
    <1>4. BeamOf(w, m, c) = look[1 .. j] /\ j \in 0 .. Len(way)
        BY DEF AtLook, look, way
    <1>5. (j + 1) - 1 = j
        OBVIOUS
    <1>6. j + 1 \in 1 .. Len(way) =>
              look[1 .. j + 1] = Examine(graph, q, Beam(w), AllowedNow(w), BeamOf(w, m, c), way[j + 1])
        BY <1>3, <1>4, <1>5
    <1> QED
        BY <1>1, <1>3, <1>4, <1>6 DEF look, way

LEMMA LooksOn ==
    ASSUME NEW c \in Nat, graph \in GraphOf(c), NEW w \in Working(c), w.todo # <<>>,
           NEW m, marks \in Seq(Nat), c <= Len(marks), m = [marks EXCEPT ![Head(w.todo)] = w.gen],
           NEW i \in 0 .. c, NEW j \in 0 .. Len(WayOf(w, i)), AtLook(w, marks, c, i, j)
    PROVE  /\ j + 1 \in 0 .. Len(WayOf(w, i))
           /\ AtLook(Visited(w), m, c, i, j + 1)
    <1> DEFINE way == WayOf(w, i)
               v == Visited(w)
    <1>1. /\ ~Ends(w, i) /\ Singles(w)
          /\ BeamOf(w, marks, c) = LooksOf(w, i)[1 .. j]
          /\ w.todo = SubSeq(way, j + 1, Len(way))
        BY DEF AtLook
    <1>2. /\ way \in Seq(1 .. c)
          /\ j + 1 \in 1 .. Len(way) =>
                 LooksOf(w, i)[1 .. j + 1] =
                     Examine(graph, w.ask.q, Beam(w), AllowedNow(w), BeamOf(w, marks, c), way[j + 1])
          /\ Sound(BeamOf(w, marks, c))
        BY LookingIs
    <1>3. j \in 0 .. Len(way)
        OBVIOUS
    <1> HIDE DEF way, v
    <1>4. /\ j + 1 \in 1 .. Len(way) /\ Head(w.todo) = way[j + 1]
          /\ Tail(w.todo) = SubSeq(way, (j + 1) + 1, Len(way))
        <2> DEFINE t == w.todo
        <2>1. t = SubSeq(way, j + 1, Len(way)) /\ t # <<>>
            BY <1>1
        <2> HIDE DEF t
        <2>2. /\ j + 1 \in 1 .. Len(way) /\ Head(t) = way[j + 1]
              /\ Tail(t) = SubSeq(way, (j + 1) + 1, Len(way))
            BY <1>2, <1>3, <2>1, Remainder
        <2> QED
            BY <2>2 DEF t
    <1>5. Singles(v) /\ BeamOf(v, m, c) =
              Examine(graph, w.ask.q, Beam(w), AllowedNow(w), BeamOf(w, marks, c), Head(w.todo))
        BY <1>1, <1>2, VisitExamines DEF v
    <1>6. Same(v, w) /\ v.todo = Tail(w.todo)
        BY VisitedIs DEF v
    <1>7. BeamOf(v, m, c) = LooksOf(w, i)[1 .. j + 1]
        BY <1>2, <1>4, <1>5
    <1>8. /\ WayOf(v, i) = way /\ LooksOf(v, i) = LooksOf(w, i) /\ ~Ends(v, i)
        BY <1>1, <1>6, SameRounds DEF way
    <1>9. v.todo = SubSeq(WayOf(v, i), (j + 1) + 1, Len(WayOf(v, i)))
        BY <1>4, <1>6, <1>8
    <1>10. j + 1 \in 0 .. Len(way)
        BY <1>4
    <1> QED
        BY <1>5, <1>7, <1>8, <1>9, <1>10 DEF AtLook, way, v

\* With the last of its neighbours a round ends.
LEMMA LookedAll ==
    ASSUME NEW c \in Nat, graph \in GraphOf(c), NEW w \in Working(c), w.todo = <<>>, NEW m,
           NEW i \in 0 .. c, NEW j \in 0 .. Len(WayOf(w, i)), AtLook(w, m, c, i, j)
    PROVE  i + 1 \in 0 .. c /\ AtRound(w, m, c, i + 1)
    <1> DEFINE way == WayOf(w, i)
    <1>1. /\ way \in Seq(1 .. c) /\ i + 1 \in 0 .. c
          /\ RoundsOf(w)[i + 1] = LooksOf(w, i)[1 .. Len(way)]
        BY LookingIs
    <1>2. /\ w.todo = SubSeq(way, j + 1, Len(way)) /\ j \in 0 .. Len(way) /\ Singles(w)
          /\ BeamOf(w, m, c) = LooksOf(w, i)[1 .. j]
        BY DEF AtLook
    <1> HIDE DEF way
    <1>3. j = Len(way)
        <2> DEFINE t == w.todo
        <2>1. t = SubSeq(way, j + 1, Len(way)) /\ t = <<>>
            BY <1>2
        <2> HIDE DEF t
        <2> QED
            BY <1>1, <1>2, <2>1, Remainder
    <1> QED
        BY <1>1, <1>2, <1>3 DEF AtRound

-----------------------------------------------------------------------------
(* The inductive invariant                                                 *)

Size == Len(graph.nodes)

\* Every document is its node's number, and id_map_ leads to it.
Numbered(g, c) == \A n \in 1 .. c : g.nodes[n].doc = n /\ ~g.nodes[n].deleted /\ g.idMap[n] = n

Held == Shape(graph, Size, MaxLevel) /\ Size >= 1 /\ Numbered(graph, Size)

\* There is room for the nodes, and for the one an insertion is about to add.
Roomy ==
    /\ capacity \in Nat /\ growing \in BOOLEAN /\ wrapped \in BOOLEAN
    /\ marks \in Seq(0 .. Generations - 1) /\ gen \in 0 .. Generations - 1
    /\ Size <= capacity /\ Size <= Len(marks)
    /\ growing => Size < MaxSize /\ Size + 1 <= capacity /\ Size + 1 <= Len(marks)

Undefined == [Idle EXCEPT !.pc = "undefined"]

Proper(w, c) ==
    \/ w = Idle
    \/ w = Undefined
    \/ /\ w \in Working(c) /\ w.pc \in {"layer", "visit", "return"}
       /\ w.pc = "layer" => w.todo = <<>>

Propers ==
    /\ search \in [Searchers -> Searches(Size)]
    /\ \A s \in Searchers : Proper(search[s], Size) /\ search[s].gen \in 0 .. Generations - 1

\* Until the generations start again, no mark is newer than the counter, and so
\* every search finds its generation unused.
Young ==
    ~wrapped =>
        /\ \A n \in 1 .. Len(marks) : marks[n] <= gen
        /\ \A s \in Searchers : search[s].clean /\ search[s].gen <= gen

\* A search is alone only as long as nobody else searches.
Apart ==
    \A s, t \in Searchers : search[s].alone /\ search[t].pc # "idle" => s = t

\* What a search does alone, with a generation no node had, is search_layer.
Courses ==
    \A s \in Searchers : search[s].alone /\ search[s].clean => OnCourse(search[s], marks, Size)

SInv == Held /\ Roomy /\ Propers /\ Young /\ Apart /\ Courses

LEMMA IdleIs ==
    ASSUME NEW c \in Nat
    PROVE  /\ Idle \in Searches(c) /\ Undefined \in Searches(c)
           /\ Idle.pc = "idle" /\ Undefined.pc = "undefined"
           /\ ~Idle.alone /\ ~Undefined.alone /\ Idle.clean /\ Undefined.clean
           /\ Idle.gen = 0 /\ Undefined.gen = 0 /\ Idle.layer = 0 /\ Undefined.layer = 0
           /\ Idle.open = <<>> /\ Idle.todo = <<>> /\ Idle.found = <<>>
           /\ Undefined.open = <<>> /\ Undefined.todo = <<>> /\ Undefined.found = <<>>
           /\ Idle.ask = NoRequest /\ Undefined.ask = NoRequest
    <1>1. <<>> \in Seq(1 .. c)
        OBVIOUS
    <1>2. Idle \in Searches(c)
        BY <1>1 DEF Idle, Searches, PCs, NoNode
    <1>3. Undefined \in Searches(c)
        <2>1. "undefined" \in PCs
            BY DEF PCs
        <2> QED
            BY <1>2, <2>1 DEF Undefined, Searches
    <1>4. /\ Idle.pc = "idle" /\ Idle.gen = 0 /\ Idle.layer = 0 /\ Idle.ask = NoRequest
          /\ Idle.open = <<>> /\ Idle.todo = <<>> /\ Idle.found = <<>>
          /\ Idle.alone = FALSE /\ Idle.clean = TRUE
        BY DEF Idle
    <1>5. /\ Undefined.pc = "undefined" /\ Undefined.gen = Idle.gen
          /\ Undefined.layer = Idle.layer /\ Undefined.ask = Idle.ask
          /\ Undefined.open = Idle.open /\ Undefined.todo = Idle.todo
          /\ Undefined.found = Idle.found
          /\ Undefined.alone = Idle.alone /\ Undefined.clean = Idle.clean
        <2> HIDE DEF Idle
        <2> QED
            BY <1>2 DEF Undefined, Searches
    <1> QED
        BY <1>2, <1>3, <1>4, <1>5

LEMMA HeldIs ==
    ASSUME Held
    PROVE  /\ Size \in Nat /\ graph \in GraphOf(Size) /\ DOMAIN graph.nodes = 1 .. Size
           /\ graph.entry \in 1 .. Size /\ graph.top \in Nat /\ graph.top <= MaxLevel
    <1>1. graph \in GraphOf(Size) /\ Size >= 1
        BY DEF Held, Shape
    <1>2. graph.nodes \in Seq(NodeOf(Size))
        BY <1>1 DEF GraphOf
    <1>3. Size \in Nat /\ DOMAIN graph.nodes = 1 .. Size
        BY <1>2 DEF Size
    <1>4. Size # 0
        BY <1>1, <1>3
    <1>5. graph.entry \in 1 .. Size /\ graph.top <= MaxLevel
        BY <1>4 DEF Held, Shape
    <1>6. graph.top \in Nat
        BY <1>1, <1>3, GraphIs
    <1> QED
        BY <1>1, <1>3, <1>5, <1>6

\* The node that an insertion adds has the next number.
LEMMA NumberedNext ==
    ASSUME NEW c \in Nat, NEW g, Shape(g, c, MaxLevel), Numbered(g, c), NEW p \in Points,
           NEW level \in 0 .. MaxLevel, \A n \in 1 .. c : g.nodes[n].at # p,
           NEW d \in Docs, d = c + 1, 1 .. c \subseteq Docs
    PROVE  /\ Shape(Inserted(g, d, p, level), c + 1, MaxLevel)
           /\ Numbered(Inserted(g, d, p, level), c + 1)
    <1> DEFINE r == Inserted(g, d, p, level)
    <1>1. /\ MaxLevel \in Nat /\ c \in Nat /\ Shape(g, c, MaxLevel) /\ d \in Docs /\ p \in Points
          /\ level \in 0 .. MaxLevel /\ \A n \in 1 .. c : g.nodes[n].at # p
        BY SearchAssumption
    <1>2. /\ Shape(r, c + 1, MaxLevel)
          /\ r.idMap = [g.idMap EXCEPT ![d] = c + 1]
          /\ \A n \in 1 .. c : /\ r.nodes[n].doc = g.nodes[n].doc
                               /\ r.nodes[n].at = g.nodes[n].at
                               /\ r.nodes[n].deleted = g.nodes[n].deleted
          /\ r.nodes[c + 1].doc = d /\ r.nodes[c + 1].at = p /\ ~r.nodes[c + 1].deleted
          /\ ~g.wild /\ SelfResolving(g, c) /\ LinksIn(g, c, Reach(g, c))
                 /\ (\A n \in 1 .. c : g.nodes[n].doc # d) =>
             ~r.wild /\ LinksIn(r, c + 1, Reach(r, c + 1))
        BY ONLY <1>1, InsertedIs
    <1> HIDE DEF r
    <1>3. DOMAIN g.idMap = Docs
        BY GraphIs DEF Shape
    <1>4. r.idMap[d] = d /\ \A n \in 1 .. c : r.idMap[n] = g.idMap[n]
        BY <1>2, <1>3
    <1>5. \A n \in 1 .. c + 1 : n = c + 1 \/ n \in 1 .. c
        OBVIOUS
    <1>6. Numbered(r, c + 1)
        BY <1>2, <1>4, <1>5 DEF Numbered
    <1> QED
        BY <1>2, <1>6 DEF r

\* What is said about a searcher is about the graph, and holds as long as that
\* stays as it is.
LEMMA Unmoved ==
    ASSUME graph' = graph
    PROVE  /\ Size' = Size
           /\ \A c : Working(c)' = Working(c)
           /\ \A w, c : Proper(w, c)' <=> Proper(w, c)
           /\ \A w, m, c : OnCourse(w, m, c)' <=> OnCourse(w, m, c)
    <1>1. \A c : Working(c)' = Working(c)
        BY DEF Working, Heaps, Ordered, Beam
    <1>2. \A w, c : Proper(w, c)' <=> Proper(w, c)
        BY <1>1 DEF Proper
    <1>3. \A w : RoundsOf(w)' = RoundsOf(w)
        BY DEF RoundsOf
    <1>4. \A w, i : /\ WayOf(w, i)' = WayOf(w, i) /\ LooksOf(w, i)' = LooksOf(w, i)
                    /\ Ends(w, i)' <=> Ends(w, i)
        BY <1>3 DEF WayOf, LooksOf, Ends
    <1>5. \A w, m, c, i, j : AtLook(w, m, c, i, j)' <=> AtLook(w, m, c, i, j)
        BY <1>4 DEF AtLook
    <1>6. \A w : EntryTo(w)' = EntryTo(w) /\ Expected(w)' = Expected(w)
        BY DEF EntryTo, Expected
    <1>7. \A w, m, c : OnCourse(w, m, c)' <=> OnCourse(w, m, c)
        BY <1>4, <1>5, <1>6 DEF OnCourse
    <1> QED
        BY <1>1, <1>2, <1>7 DEF Size

-----------------------------------------------------------------------------
(* Every step preserves it.                                                *)

\* Searcher s goes on to v, and the array to marks'.
Moves(s, v) ==
    /\ UNCHANGED <<graph, capacity, growing>>
    /\ search' = [search EXCEPT ![s] = v]
    /\ search[s].pc # "idle"
    /\ v \in Searches(Size) /\ Proper(v, Size) /\ v.gen \in 0 .. Generations - 1
    /\ marks' \in Seq(0 .. Generations - 1) /\ Len(marks') = Len(marks)
    /\ gen' \in 0 .. Generations - 1 /\ wrapped' \in BOOLEAN
    /\ ~wrapped' =>
           /\ ~wrapped /\ gen <= gen' /\ v.clean /\ v.gen <= gen'
           /\ \A n \in 1 .. Len(marks) : marks'[n] <= gen'
    /\ v.alone => search[s].alone
    /\ v.alone /\ v.clean => OnCourse(v, marks', Size)

LEMMA MovesKeep ==
    ASSUME SInv, NEW s \in Searchers, NEW v, Moves(s, v)
    PROVE  SInv'
    <1>1. /\ graph' = graph /\ capacity' = capacity /\ growing' = growing
          /\ Size' = Size
        BY Unmoved DEF Moves
    <1>2. search' \in [Searchers -> Searches(Size)] /\ search'[s] = v
          /\ \A t \in Searchers : t # s => search'[t] = search[t]
        BY DEF SInv, Propers, Moves
    <1>3. Held'
        BY <1>1 DEF SInv, Held
    <1>4. Roomy'
        BY <1>1 DEF SInv, Roomy, Moves
    <1>5. Propers'
        <2>1. (search \in [Searchers -> Searches(Size)])'
            BY <1>1, <1>2 DEF Searches
        <2>2. \A t \in Searchers : Proper(search'[t], Size) /\ search'[t].gen \in 0 .. Generations - 1
            BY <1>2 DEF SInv, Propers, Moves
        <2>3. \A t \in Searchers : Proper(search[t], Size)'
            BY <1>1, <2>2, Unmoved
        <2> QED
            BY <2>1, <2>2, <2>3 DEF Propers
    <1>6. Young'
        <2> SUFFICES ASSUME ~wrapped'
                     PROVE  /\ \A n \in 1 .. Len(marks') : marks'[n] <= gen'
                            /\ \A t \in Searchers : search'[t].clean /\ search'[t].gen <= gen'
            BY DEF Young
        <2>1. /\ ~wrapped /\ gen <= gen' /\ v.clean /\ v.gen <= gen'
              /\ \A n \in 1 .. Len(marks') : marks'[n] <= gen'
            BY DEF Moves
        <2>2. \A t \in Searchers : search[t].clean /\ search[t].gen <= gen
                                   /\ search[t].gen \in 0 .. Generations - 1
            BY <2>1 DEF SInv, Young, Propers
        <2>3. gen \in Nat /\ gen' \in Nat /\ Generations \in Nat
            BY SearchAssumption DEF SInv, Roomy, Moves
        <2>4. \A t \in Searchers : t # s => search'[t].clean /\ search'[t].gen <= gen'
            <3> SUFFICES ASSUME NEW t \in Searchers, t # s
                         PROVE  search[t].clean /\ search[t].gen <= gen'
                BY <1>2
            <3>1. search[t].gen \in Nat
                BY <2>2, <2>3
            <3> QED
                BY <2>1, <2>2, <2>3, <3>1
        <2> QED
            BY <1>2, <2>1, <2>4
    <1>7. \A t \in Searchers : t # s => ~search'[t].alone
        BY <1>2 DEF SInv, Apart, Moves
    <1>8. Apart'
        <2> SUFFICES ASSUME NEW t \in Searchers, NEW u \in Searchers,
                            search'[t].alone, search'[u].pc # "idle"
                     PROVE  t = u
            BY DEF Apart
        <2>1. t = s /\ search[s].alone
            BY <1>2, <1>7 DEF Moves
        <2>2. u # s => search[u].pc # "idle"
            BY <1>2
        <2> QED
            BY <2>1, <2>2 DEF SInv, Apart
    <1>9. Courses'
        <2>1. \A t \in Searchers :
                  search'[t].alone /\ search'[t].clean => OnCourse(search'[t], marks', Size)
            BY <1>2, <1>7 DEF Moves
        <2>2. \A t \in Searchers :
                  search'[t].alone /\ search'[t].clean => OnCourse(search[t], marks, Size)'
            BY <1>1, <2>1, Unmoved
        <2> QED
            BY <2>2 DEF Courses
    <1> QED
        BY <1>3, <1>4, <1>5, <1>6, <1>8, <1>9 DEF SInv

LEMMA ModIs ==
    ASSUME NEW n \in Nat \ {0}, NEW a \in Nat
    PROVE  a % n \in 0 .. n - 1 /\ (a < n => a % n = a)
    OBVIOUS

\* The record of a searcher that has begun and has not lost the arrays.
LEMMA BusyIs ==
    ASSUME SInv, NEW s \in Searchers, search[s].pc \in {"layer", "visit", "return"}
    PROVE  /\ search[s] \in Working(Size) /\ search[s].gen \in 0 .. Generations - 1
           /\ search[s].pc = "layer" => search[s].todo = <<>>
           /\ ~wrapped => search[s].clean /\ search[s].gen <= gen
           /\ search[s].alone /\ search[s].clean => OnCourse(search[s], marks, Size)
    <1>1. Size \in Nat
        BY HeldIs DEF SInv
    <1>2. search[s] # Idle /\ search[s] # Undefined
        BY <1>1, IdleIs
    <1> QED
        BY <1>2 DEF SInv, Propers, Proper, Young, Courses

\* A mark on a node of the graph.
LEMMA MarkIs ==
    ASSUME SInv, NEW n \in 1 .. Size, NEW g \in 0 .. Generations - 1
    PROVE  /\ [marks EXCEPT ![n] = g] \in Seq(0 .. Generations - 1)
           /\ Len([marks EXCEPT ![n] = g]) = Len(marks)
           /\ \A k \in 1 .. Len(marks) : [marks EXCEPT ![n] = g][k] = IF k = n THEN g ELSE marks[k]
           /\ n \in 1 .. Len(marks) /\ marks \in Seq(Nat)
    <1>1. marks \in Seq(0 .. Generations - 1) /\ Size <= Len(marks) /\ Size \in Nat
        BY HeldIs DEF SInv, Roomy
    <1>2. n \in 1 .. Len(marks)
        BY <1>1
    <1>3. Generations \in Nat
        BY SearchAssumption
    <1>4. marks \in Seq(Nat)
        <2>1. \A k \in 1 .. Len(marks) : marks[k] \in Nat
            BY <1>1, <1>3
        <2> QED
            BY <1>1, <2>1, Retyped
    <1> QED
        BY <1>1, <1>2, <1>4

\* In a round: to the next neighbour, or on.
LEMMA Proceeds ==
    ASSUME NEW c \in Nat, graph \in GraphOf(c), graph.entry \in 1 .. c,
           NEW w \in Working(c), w.pc = "visit", w.ep = EntryTo(w), NEW m,
           NEW i \in 0 .. c, NEW j \in 0 .. Len(WayOf(w, i)), AtLook(w, m, c, i, j)
    PROVE  OnCourse(Advanced(w), m, c)
    <1>1. CASE w.todo # <<>>
        BY <1>1, AdvancedIs DEF OnCourse
    <1>2. CASE w.todo = <<>>
        <2>1. i + 1 \in 0 .. c /\ AtRound(w, m, c, i + 1)
            BY <1>2, LookedAll
        <2> DEFINE k == i + 1
        <2>2. k \in 0 .. c /\ AtRound(w, m, c, k)
            BY <2>1
        <2> HIDE DEF k
        <2> QED
            BY <1>2, <2>2, GoesOn
    <1> QED
        BY <1>1, <1>2

LEMMA OpenLayerKeeps ==
    ASSUME SInv, NEW s \in Searchers, OpenLayer(s)
    PROVE  SInv'
    <1> DEFINE w == search[s]
               g == (gen + 1) % Generations
               o == Opened(w, g)
               v == Advanced(o)
               c == Size
    <1>1. /\ w.pc = "layer" /\ gen' = g /\ wrapped' = (wrapped \/ g = 0)
          /\ marks' = [marks EXCEPT ![w.ep] = g]
          /\ search' = [search EXCEPT ![s] = v]
          /\ UNCHANGED <<graph, capacity, growing>>
        BY DEF OpenLayer, Resume
    <1>2. /\ w \in Working(c) /\ w.todo = <<>>
          /\ ~wrapped => w.clean
          /\ w.alone /\ w.clean => OnCourse(w, marks, c)
        BY <1>1, BusyIs
    <1>3. /\ c \in Nat /\ graph \in GraphOf(c) /\ DOMAIN graph.nodes = 1 .. c
          /\ graph.entry \in 1 .. c
        BY HeldIs DEF SInv
    <1>4. /\ gen \in 0 .. Generations - 1 /\ Generations \in Nat \ {0} /\ gen \in Nat
          /\ wrapped \in BOOLEAN
        BY SearchAssumption DEF SInv, Roomy
    <1>5. /\ g \in 0 .. Generations - 1 /\ g \in Nat
          /\ g # 0 => g = gen + 1
        <2>1. gen + 1 \in Nat
            BY <1>4
        <2>2. g \in 0 .. Generations - 1 /\ (gen + 1 < Generations => g = gen + 1)
            BY <1>4, <2>1, ModIs
        <2>3. CASE gen + 1 < Generations
            BY <1>4, <2>2, <2>3
        <2>4. CASE ~(gen + 1 < Generations)
            <3>1. gen + 1 = Generations
                BY <1>4, <2>4
            <3>2. g = 0
                BY <1>4, <3>1
            <3> QED
                BY <1>4, <2>2, <3>2
        <2> QED
            BY <2>3, <2>4
    <1> HIDE DEF g
    <1>6. /\ o \in Working(c) /\ Same(o, w)
          /\ o.pc = "layer" /\ o.todo = <<>> /\ o.gen = g /\ o.open = <<w.ep>>
          /\ o.found = IF Accepts(graph, w.ep, AllowedNow(w)) THEN <<w.ep>> ELSE <<>>
          /\ o.clean = (w.clean /\ \A n \in 1 .. c : marks[n] # g)
        BY <1>1, <1>2, <1>3, <1>5, OpenedIs, SMTT(30)
    <1>7. /\ v \in Working(c) /\ v.alone = w.alone /\ v.clean = o.clean /\ v.gen = g
          /\ v.pc \in {"layer", "visit", "return"} /\ (v.pc = "layer" => v.todo = <<>>)
        <2>1. v = Advanced(o)
            OBVIOUS
        <2> HIDE DEF o, v
        <2>2. /\ Advanced(o) \in Working(c) /\ Advanced(o).alone = o.alone
              /\ Advanced(o).clean = o.clean /\ Advanced(o).gen = o.gen
              /\ Advanced(o).pc \in {"layer", "visit", "return"}
              /\ (Advanced(o).pc = "layer" => Advanced(o).todo = <<>>)
            BY <1>3, <1>6, AdvancedIs
        <2> QED
            BY <1>6, <2>1, <2>2 DEF Same
    <1>8. w.ep \in 1 .. c
        BY <1>2 DEF Working
    <1>9. /\ marks' \in Seq(0 .. Generations - 1) /\ Len(marks') = Len(marks)
          /\ \A k \in 1 .. Len(marks) : marks'[k] = IF k = w.ep THEN g ELSE marks[k]
          /\ \A k \in 1 .. c : k \in 1 .. Len(marks)
        <2> DEFINE at == w.ep
                   now == [marks EXCEPT ![at] = g]
        <2>1. at \in 1 .. c /\ marks' = now
            BY <1>1, <1>8
        <2> HIDE DEF at
        <2>2. /\ now \in Seq(0 .. Generations - 1) /\ Len(now) = Len(marks)
              /\ \A k \in 1 .. Len(marks) : now[k] = IF k = at THEN g ELSE marks[k]
            BY <1>5, <2>1, MarkIs
        <2>3. c <= Len(marks) /\ Len(marks) \in Nat
            BY DEF SInv, Roomy
        <2>4. \A k \in 1 .. c : k \in 1 .. Len(marks)
            BY <1>3, <2>3
        <2> HIDE DEF now
        <2> QED
            BY <2>1, <2>2, <2>4 DEF at
    <1> HIDE DEF w, o, v
    <1>10. ASSUME ~wrapped'
           PROVE  /\ ~wrapped /\ gen <= gen' /\ v.clean /\ v.gen <= gen'
                  /\ \A n \in 1 .. Len(marks) : marks'[n] <= gen'
        <2>1. ~wrapped /\ g = gen + 1 /\ gen' = g
            BY <1>1, <1>5, <1>10
        <2>2. \A n \in 1 .. Len(marks) : marks[n] <= gen /\ marks[n] \in 0 .. Generations - 1
            <3>1. marks \in Seq(0 .. Generations - 1)
                BY DEF SInv, Roomy
            <3>2. \A n \in 1 .. Len(marks) : marks[n] <= gen
                BY <2>1 DEF SInv, Young
            <3>3. \A n \in 1 .. Len(marks) : marks[n] \in 0 .. Generations - 1
                <4> DEFINE S == 0 .. Generations - 1
                <4>1. marks \in Seq(S)
                    BY <3>1
                <4> HIDE DEF S
                <4>2. \A n \in 1 .. Len(marks) : marks[n] \in S
                    BY <4>1
                <4> QED
                    BY <4>2 DEF S
            <3> QED
                BY <3>2, <3>3
        <2>3. \A n \in 1 .. Len(marks) : marks[n] # g /\ marks[n] <= g
            <3> SUFFICES ASSUME NEW n \in 1 .. Len(marks) PROVE marks[n] # g /\ marks[n] <= g
                OBVIOUS
            <3>1. marks[n] <= gen /\ marks[n] \in Nat
                BY <1>4, <2>2
            <3> QED
                BY <1>4, <2>1, <3>1
        <2>4. v.clean
            BY <1>2, <1>6, <1>7, <1>9, <2>1, <2>3
        <2>5. \A n \in 1 .. Len(marks) : marks'[n] <= gen'
            BY <1>5, <1>9, <2>1, <2>3
        <2> QED
            BY <1>4, <1>5, <1>7, <2>1, <2>4, <2>5
    <1>11. ASSUME v.alone, v.clean PROVE OnCourse(v, marks', c)
        <2>1. w.alone /\ w.clean /\ \A n \in 1 .. c : marks[n] # g
            BY <1>6, <1>7, <1>11
        <2>2. w.ep = EntryTo(w)
            BY <1>1, <1>2, <2>1 DEF OnCourse, w
        <2>3. o.ep = EntryTo(o)
            BY <1>6, <2>2, SameRounds DEF Same
        <2>4. {n \in 1 .. c : marks'[n] = o.gen} = {w.ep}
            <3>1. \A n \in 1 .. c : marks'[n] = g <=> n = w.ep
                BY <1>9, <2>1
            <3> QED
                BY <1>6, <1>8, <3>1
        <2>5. RoundsOf(o)[0] = First(graph, o.ep, AllowedNow(o))
            BY <1>3, <1>6, WorkingCourse DEF CourseOf, Course
        <2>6. o.ep = w.ep /\ AllowedNow(o) = AllowedNow(w)
            BY <1>6, SameBeam DEF Same
        <2>7. /\ Single(<<w.ep>>) /\ Single(<<>>)
              /\ ToSet(<<w.ep>>) = {w.ep} /\ ToSet(<<>>) = {}
            BY <1>3, <1>8, OneIsHeap
        <2>8. BeamOf(o, marks', c) = First(graph, w.ep, AllowedNow(w))
            <3>1. ToSet(o.found) = IF Accepts(graph, w.ep, AllowedNow(w)) THEN {w.ep} ELSE {}
                BY <1>6, <2>7
            <3>2. ToSet(o.open) = {w.ep}
                BY <1>6, <2>7
            <3> QED
                BY <2>4, <3>1, <3>2 DEF BeamOf, First
        <2>9. AtRound(o, marks', c, 0)
            BY <1>6, <2>5, <2>6, <2>7, <2>8 DEF AtRound, Singles
        <2>10. 0 \in 0 .. c
            BY <1>3
        <2> QED
            BY <1>3, <1>6, <2>3, <2>9, <2>10, GoesOn DEF v
    <1>12. Moves(s, v)
        <2>1. v \in Searches(c) /\ Proper(v, c)
            BY <1>7 DEF Working, Proper
        <2>2. search[s].alone = w.alone /\ search[s].pc # "idle"
            BY <1>1 DEF w
        <2> QED
            BY <1>1, <1>4, <1>5, <1>7, <1>9, <1>10, <1>11, <2>1, <2>2 DEF Moves
    <1> QED
        BY <1>12, MovesKeep

LEMMA VisitKeeps ==
    ASSUME SInv, NEW s \in Searchers, Visit(s)
    PROVE  SInv'
    <1> DEFINE w == search[s]
               n == Head(w.todo)
               u == Visited(w)
               v == Advanced(u)
               c == Size
    <1>1. /\ w.pc = "visit" /\ w.todo # <<>> /\ gen' = gen /\ wrapped' = wrapped
          /\ marks' = [marks EXCEPT ![n] = w.gen]
          /\ search' = [search EXCEPT ![s] = v]
          /\ UNCHANGED <<graph, capacity, growing>>
        BY DEF Visit, Resume
    <1>2. /\ w \in Working(c) /\ w.gen \in 0 .. Generations - 1
          /\ ~wrapped => w.clean /\ w.gen <= gen
          /\ w.alone /\ w.clean => OnCourse(w, marks, c)
        BY <1>1, BusyIs
    <1>3. c \in Nat /\ graph \in GraphOf(c) /\ graph.entry \in 1 .. c
        BY HeldIs DEF SInv
    <1>4. /\ u \in Working(c) /\ Same(u, w) /\ u.pc = "visit" /\ u.gen = w.gen
          /\ u.clean = w.clean /\ n \in 1 .. c
        BY <1>1, <1>2, <1>3, VisitedIs
    <1>5. /\ v \in Working(c) /\ v.alone = w.alone /\ v.clean = w.clean /\ v.gen = w.gen
          /\ v.pc \in {"layer", "visit", "return"} /\ (v.pc = "layer" => v.todo = <<>>)
        BY <1>3, <1>4, AdvancedIs DEF Same
    <1>6. /\ marks' \in Seq(0 .. Generations - 1) /\ Len(marks') = Len(marks)
          /\ \A k \in 1 .. Len(marks) : marks'[k] = IF k = n THEN w.gen ELSE marks[k]
          /\ marks \in Seq(Nat) /\ c <= Len(marks)
        BY <1>1, <1>2, <1>4, MarkIs DEF SInv, Roomy
    <1>7. gen \in 0 .. Generations - 1 /\ wrapped \in BOOLEAN
        BY DEF SInv, Roomy
    <1> HIDE DEF w, n, u, v
    <1>8. ASSUME ~wrapped'
          PROVE  /\ ~wrapped /\ gen <= gen' /\ v.clean /\ v.gen <= gen'
                 /\ \A k \in 1 .. Len(marks) : marks'[k] <= gen'
        <2>1. ~wrapped /\ w.clean /\ w.gen <= gen
            BY <1>1, <1>2, <1>8
        <2>2. \A k \in 1 .. Len(marks) : marks[k] <= gen
            BY <2>1 DEF SInv, Young
        <2> QED
            BY <1>1, <1>5, <1>6, <1>7, <2>1, <2>2
    <1>9. ASSUME v.alone, v.clean PROVE OnCourse(v, marks', c)
        <2>1. OnCourse(w, marks, c)
            BY <1>2, <1>5, <1>9
        <2>2. PICK i \in 0 .. c : \E j \in 0 .. Len(WayOf(w, i)) : AtLook(w, marks, c, i, j)
            BY <1>1, <2>1 DEF OnCourse, w
        <2>3. PICK j \in 0 .. Len(WayOf(w, i)) : AtLook(w, marks, c, i, j)
            BY <2>2
        <2> DEFINE m == marks'
        <2>4. m = [marks EXCEPT ![Head(w.todo)] = w.gen] /\ w.todo # <<>>
            BY <1>1 DEF n, w
        <2> HIDE DEF m
        <2>5. /\ j + 1 \in 0 .. Len(WayOf(w, i))
              /\ AtLook(u, m, c, i, j + 1)
            BY <1>2, <1>3, <1>6, <2>3, <2>4, LooksOn DEF u
        <2>6. WayOf(u, i) = WayOf(w, i) /\ EntryTo(u) = EntryTo(w) /\ u.ep = w.ep
            BY <1>4, SameRounds DEF Same
        <2>7. u.ep = EntryTo(u)
            BY <1>1, <2>1, <2>6 DEF OnCourse, w
        <2> DEFINE k == j + 1
        <2>8. k \in 0 .. Len(WayOf(u, i)) /\ AtLook(u, m, c, i, k)
            BY <2>5, <2>6
        <2> HIDE DEF k
        <2>9. OnCourse(Advanced(u), m, c)
            BY <1>3, <1>4, <2>7, <2>8, Proceeds
        <2> QED
            BY <2>9 DEF m, v
    <1>10. Moves(s, v)
        <2>1. v \in Searches(c) /\ Proper(v, c)
            BY <1>5 DEF Working, Proper
        <2>2. search[s].alone = w.alone /\ search[s].pc # "idle"
            BY <1>1 DEF w
        <2> QED
            BY <1>1, <1>2, <1>5, <1>6, <1>7, <1>8, <1>9, <2>1, <2>2 DEF Moves
    <1> QED
        BY <1>10, MovesKeep

LEMMA SkipKeeps ==
    ASSUME SInv, NEW s \in Searchers, Skip(s)
    PROVE  SInv'
    <1> DEFINE w == search[s]
               v == Advanced(w)
               c == Size
    <1>1. /\ w.pc = "visit" /\ w.todo = <<>>
          /\ search' = [search EXCEPT ![s] = v]
          /\ UNCHANGED <<graph, capacity, growing, marks, gen, begun, wrapped>>
        BY DEF Skip
    <1>2. /\ w \in Working(c) /\ w.gen \in 0 .. Generations - 1
          /\ ~wrapped => w.clean /\ w.gen <= gen
          /\ w.alone /\ w.clean => OnCourse(w, marks, c)
        BY <1>1, BusyIs
    <1>3. c \in Nat /\ graph \in GraphOf(c) /\ graph.entry \in 1 .. c
        BY HeldIs DEF SInv
    <1>4. /\ v \in Working(c) /\ v.alone = w.alone /\ v.clean = w.clean /\ v.gen = w.gen
          /\ v.pc \in {"layer", "visit", "return"} /\ (v.pc = "layer" => v.todo = <<>>)
        BY <1>1, <1>2, <1>3, AdvancedIs
    <1>5. /\ marks \in Seq(0 .. Generations - 1)
          /\ gen \in 0 .. Generations - 1 /\ wrapped \in BOOLEAN
        BY DEF SInv, Roomy
    <1> HIDE DEF w, v
    <1>6. ASSUME ~wrapped'
          PROVE  /\ ~wrapped /\ gen <= gen' /\ v.clean /\ v.gen <= gen'
                 /\ \A k \in 1 .. Len(marks) : marks'[k] <= gen'
        <2>1. ~wrapped
            BY <1>1, <1>6
        <2>2. \A k \in 1 .. Len(marks) : marks[k] <= gen
            BY <2>1 DEF SInv, Young
        <2> QED
            BY <1>1, <1>2, <1>4, <1>5, <2>1, <2>2
    <1>7. ASSUME v.alone, v.clean PROVE OnCourse(v, marks, c)
        <2>1. OnCourse(w, marks, c)
            BY <1>2, <1>4, <1>7
        <2>2. w.ep = EntryTo(w) /\ w.pc = "visit"
            BY <1>1, <2>1 DEF OnCourse, w
        <2>3. PICK i \in 0 .. c : \E j \in 0 .. Len(WayOf(w, i)) : AtLook(w, marks, c, i, j)
            BY <2>1, <2>2 DEF OnCourse
        <2>4. PICK j \in 0 .. Len(WayOf(w, i)) : AtLook(w, marks, c, i, j)
            BY <2>3
        <2> QED
            BY <1>2, <1>3, <2>2, <2>4, Proceeds DEF v
    <1>8. Moves(s, v)
        <2>1. v \in Searches(c) /\ Proper(v, c)
            BY <1>4 DEF Working, Proper
        <2>2. search[s].alone = w.alone /\ search[s].pc # "idle"
            BY <1>1 DEF w
        <2> QED
            BY <1>1, <1>2, <1>4, <1>5, <1>6, <1>7, <2>1, <2>2 DEF Moves
    <1> QED
        BY <1>8, MovesKeep

LEMMA LeaveKeeps ==
    ASSUME SInv, NEW s \in Searchers, Leave(s)
    PROVE  SInv'
    <1>1. /\ search[s].pc # "idle" /\ search' = [search EXCEPT ![s] = Idle]
          /\ UNCHANGED <<graph, capacity, growing, marks, gen, begun, wrapped>>
        BY DEF Leave
    <1>2. /\ marks \in Seq(0 .. Generations - 1)
          /\ gen \in 0 .. Generations - 1 /\ wrapped \in BOOLEAN /\ Generations \in Nat \ {0}
        BY SearchAssumption DEF SInv, Roomy
    <1>3. ~wrapped => \A n \in 1 .. Len(marks) : marks[n] <= gen
        BY DEF SInv, Young
    <1>4. /\ Idle \in Searches(Size) /\ ~Idle.alone /\ Idle.clean /\ Idle.gen = 0
          /\ Proper(Idle, Size)
        BY HeldIs, IdleIs DEF SInv, Proper
    <1>5. 0 \in 0 .. Generations - 1 /\ 0 <= gen /\ gen <= gen
        BY <1>2
    <1>6. Moves(s, Idle)
        <2> HIDE DEF Idle
        <2> QED
            BY <1>1, <1>2, <1>3, <1>4, <1>5 DEF Moves
    <1> QED
        BY <1>6, MovesKeep

LEMMA BeginKeeps ==
    ASSUME SInv, NEW s \in Searchers, NEW ask \in Requests, Begin(s, ask)
    PROVE  SInv'
    <1> DEFINE c == Size
               v == [Idle EXCEPT !.pc = "layer", !.ask = ask, !.layer = graph.top,
                                 !.ep = graph.entry, !.alone = (Active = {})]
               Left(t) == [search[t] EXCEPT !.alone = FALSE]
    <1>1. /\ search' = [t \in Searchers |-> IF t = s THEN v ELSE Left(t)]
          /\ UNCHANGED <<graph, capacity, growing, marks, gen, wrapped>>
        BY DEF Begin
    <1>2. Size' = Size
        BY <1>1, Unmoved
    <1>3. /\ c \in Nat /\ graph \in GraphOf(c) /\ graph.entry \in 1 .. c /\ graph.top \in Nat
        BY HeldIs DEF SInv
    <1>4. /\ Idle \in Searches(c) /\ Undefined \in Searches(c)
          /\ ~Idle.alone /\ ~Undefined.alone /\ Idle.clean /\ Idle.gen = 0
          /\ Idle.open = <<>> /\ Idle.todo = <<>> /\ Idle.found = <<>>
        BY <1>3, IdleIs
    <1>5. ask.q \in Points
        BY SearchAssumption
    <1> DEFINE nobody == (Active = {})
    <1>6. nobody \in BOOLEAN
        OBVIOUS
    <1>7. v = [Idle EXCEPT !.pc = "layer", !.ask = ask, !.layer = graph.top,
                           !.ep = graph.entry, !.alone = nobody]
        OBVIOUS
    <1> HIDE DEF nobody, v
    <1>8. /\ v \in Searches(c) /\ v.pc = "layer" /\ v.ask = ask /\ v.layer = graph.top
          /\ v.ep = graph.entry /\ v.alone = nobody /\ v.clean /\ v.gen = 0
          /\ v.open = <<>> /\ v.todo = <<>> /\ v.found = <<>>
        <2>1. "layer" \in PCs
            BY DEF PCs
        <2> DEFINE top == graph.top
                   entry == graph.entry
        <2>2. /\ top \in Nat /\ entry \in 0 .. c /\ Idle \in Searches(c)
              /\ v = [Idle EXCEPT !.pc = "layer", !.ask = ask, !.layer = top,
                                  !.ep = entry, !.alone = nobody]
            BY <1>3, <1>4, <1>7
        <2>3. Idle.clean = TRUE
            BY DEF Idle
        <2> HIDE DEF Idle, top, entry, c
        <2>4. /\ v.pc = "layer" /\ v.ask = ask /\ v.layer = top /\ v.ep = entry
              /\ v.alone = nobody /\ v.clean = Idle.clean /\ v.gen = Idle.gen
              /\ v.open = Idle.open /\ v.todo = Idle.todo /\ v.found = Idle.found
            BY <2>2 DEF Searches
        <2>5. v \in Searches(c)
            BY <1>6, <2>1, <2>2 DEF Searches
        <2> QED
            BY <1>4, <2>3, <2>4, <2>5 DEF top, entry
    <1>9. v \in Working(c)
        <2>1. <<>> \in Heaps(c, ask.q)
            BY <1>3, OneIsHeap
        <2>2. Beam(v) \in Nat
            BY <1>8, SearchAssumption DEF Beam, Greater
        <2>3. Len(v.found) <= Beam(v)
            BY <1>8, <2>2
        <2>4. v.layer \in 0 .. graph.top
            BY <1>3, <1>8
        <2> QED
            BY <1>3, <1>8, <2>1, <2>3, <2>4 DEF Working
    <1>10. OnCourse(v, marks, c)
        <2>1. graph.top \in 0 .. graph.top
            BY <1>3
        <2>2. Descend(graph, ask.q, graph.entry, graph.top, graph.top + 1) = graph.entry
            BY <1>3, <1>5, <2>1, DescendStep
        <2> QED
            BY <1>8, <2>2 DEF OnCourse, EntryTo
    <1>11. ASSUME NEW t \in Searchers
           PROVE  /\ Left(t) \in Searches(c) /\ Proper(Left(t), c) /\ ~Left(t).alone
                  /\ Left(t).gen = search[t].gen /\ Left(t).clean = search[t].clean
                  /\ Left(t).pc = search[t].pc
        <2> DEFINE w == search[t]
                   l == [w EXCEPT !.alone = FALSE]
        <2>1. w \in Searches(c) /\ Proper(w, c)
            BY DEF SInv, Propers
        <2> HIDE DEF w
        <2>2. /\ l \in Searches(c) /\ l.alone = FALSE
              /\ l.pc = w.pc /\ l.ask = w.ask /\ l.layer = w.layer /\ l.ep = w.ep
              /\ l.gen = w.gen /\ l.open = w.open /\ l.todo = w.todo /\ l.found = w.found
              /\ l.clean = w.clean
            BY <2>1 DEF Searches
        <2>3. ASSUME w.alone = FALSE PROVE l = w
            BY <2>1, <2>3 DEF Searches
        <2>4. CASE w = Idle \/ w = Undefined
            <3>1. w.alone = FALSE
                BY <1>4, <2>1, <2>4 DEF Searches
            <3> QED
                BY <2>1, <2>2, <2>3, <3>1 DEF w
        <2>5. CASE w \in Working(c) /\ w.pc \in {"layer", "visit", "return"}
                   /\ (w.pc = "layer" => w.todo = <<>>)
            <3> HIDE DEF l
            <3>1. Beam(l) = Beam(w)
                BY <2>2 DEF Beam
            <3>2. l \in Working(c)
                BY <2>2, <2>5, <3>1 DEF Working
            <3>3. Proper(l, c)
                BY <2>2, <2>5, <3>2 DEF Proper
            <3> QED
                BY <2>2, <3>3 DEF l, w
        <2> QED
            BY <2>1, <2>4, <2>5 DEF Proper
    <1> HIDE DEF Left
    <1>12. /\ search'[s] = v
           /\ \A t \in Searchers : t # s => search'[t] = Left(t)
           /\ \A t \in Searchers : search'[t] \in Searches(c) /\ Proper(search'[t], c)
        <2>1. Proper(v, c)
            BY <1>8, <1>9 DEF Proper
        <2> QED
            BY <1>1, <1>8, <1>11, <2>1
    <1>13. Held' /\ Roomy'
        BY <1>1, <1>2 DEF SInv, Held, Roomy
    <1>14. Generations \in Nat \ {0} /\ gen \in Nat /\ 0 \in 0 .. Generations - 1
        BY SearchAssumption DEF SInv, Roomy
    <1>15. Propers'
        <2>1. search' \in [Searchers -> Searches(c)]
            BY <1>1, <1>12
        <2>2. (search \in [Searchers -> Searches(Size)])'
            BY <1>2, <2>1 DEF Searches
        <2>3. \A t \in Searchers : search'[t].gen \in 0 .. Generations - 1
            BY <1>8, <1>11, <1>12, <1>14 DEF SInv, Propers
        <2>4. \A t \in Searchers : Proper(search[t], Size)'
            BY <1>1, <1>2, <1>12, Unmoved
        <2> QED
            BY <2>2, <2>3, <2>4 DEF Propers
    <1>16. Young'
        <2>1. ~wrapped => \A n \in 1 .. Len(marks) : marks[n] <= gen
            BY DEF SInv, Young
        <2>2. ~wrapped => \A t \in Searchers : search'[t].clean /\ search'[t].gen <= gen
            BY <1>8, <1>11, <1>12, <1>14 DEF SInv, Young
        <2> QED
            BY <1>1, <2>1, <2>2 DEF Young
    <1>17. Apart'
        <2> SUFFICES ASSUME NEW t \in Searchers, NEW r \in Searchers,
                            search'[t].alone, search'[r].pc # "idle"
                     PROVE  t = r
            BY DEF Apart
        <2>1. t = s /\ nobody
            BY <1>8, <1>11, <1>12
        <2>2. r # s => search[r].pc # "idle"
            BY <1>11, <1>12
        <2>3. search[r].pc = "idle"
            BY <2>1 DEF nobody, Active
        <2> QED
            BY <2>1, <2>2, <2>3
    <1>18. Courses'
        <2>1. \A t \in Searchers :
                  search'[t].alone /\ search'[t].clean => OnCourse(search'[t], marks, c)
            BY <1>10, <1>11, <1>12
        <2>2. \A t \in Searchers :
                  search'[t].alone /\ search'[t].clean => OnCourse(search[t], marks, Size)'
            BY <1>1, <1>2, <2>1, Unmoved
        <2> QED
            BY <2>2 DEF Courses
    <1> QED
        BY <1>13, <1>15, <1>16, <1>17, <1>18 DEF SInv

LEMMA GrowKeeps ==
    ASSUME SInv, Grow
    PROVE  SInv'
    <1> DEFINE c == Size
               moved == c >= capacity \/ c >= Len(marks)
    <1>1. /\ c < MaxSize /\ growing' = TRUE
          /\ capacity' = IF c >= capacity THEN 2 * capacity ELSE capacity
          /\ marks' = IF c >= Len(marks)
                      THEN [n \in 1 .. 2 * (c + 1) |-> IF n <= Len(marks) THEN marks[n] ELSE 0]
                      ELSE marks
          /\ search' = [s \in Searchers |->
                 IF moved /\ s \in Active THEN Undefined ELSE search[s]]
          /\ UNCHANGED <<graph, gen, begun, wrapped>>
        BY DEF Grow, Size, Undefined
    <1>2. Size' = Size
        BY <1>1, Unmoved
    <1>3. c \in Nat /\ c >= 1
        BY HeldIs DEF SInv, Held
    <1>4. /\ capacity \in Nat /\ marks \in Seq(0 .. Generations - 1)
          /\ gen \in 0 .. Generations - 1 /\ gen \in Nat /\ wrapped \in BOOLEAN
          /\ c <= capacity /\ c <= Len(marks) /\ Generations \in Nat \ {0}
        BY SearchAssumption DEF SInv, Roomy
    <1>5. 0 \in 0 .. Generations - 1
        BY <1>4
    <1>6. /\ Undefined \in Searches(c) /\ ~Undefined.alone /\ Undefined.clean
          /\ Undefined.gen = 0 /\ Proper(Undefined, c)
        BY <1>3, IdleIs DEF Proper
    <1>7. /\ capacity' \in Nat /\ c + 1 <= capacity'
        <2>1. capacity' = IF c >= capacity THEN 2 * capacity ELSE capacity
            BY <1>1
        <2>2. c \in Nat /\ c >= 1 /\ capacity \in Nat /\ c <= capacity
            BY <1>3, <1>4
        <2> HIDE DEF c
        <2> QED
            BY ONLY <2>1, <2>2
    <1>8. /\ marks' \in Seq(0 .. Generations - 1) /\ c + 1 <= Len(marks')
          /\ \A n \in 1 .. Len(marks') : (n \in 1 .. Len(marks) /\ marks'[n] = marks[n])
                                         \/ marks'[n] = 0
        <2> DEFINE l == Len(marks)
        <2>1. l \in Nat /\ \A n \in 1 .. l : marks[n] \in 0 .. Generations - 1
            <3> DEFINE S == 0 .. Generations - 1
            <3>1. marks \in Seq(S)
                BY <1>4
            <3> HIDE DEF S
            <3>2. l \in Nat /\ \A n \in 1 .. l : marks[n] \in S
                BY <3>1
            <3> QED
                BY <3>2 DEF S
        <2>2. CASE c >= Len(marks)
            <3> DEFINE k == 2 * (c + 1)
                       more == [n \in 1 .. k |-> IF n <= l THEN marks[n] ELSE 0]
            <3>1. k \in Nat /\ c + 1 <= k
                BY <1>3
            <3>2. \A n \in 1 .. k : n <= l => n \in 1 .. l
                BY <2>1
            <3>3. \A n \in 1 .. k : more[n] \in 0 .. Generations - 1
                BY <1>5, <2>1, <3>2
            <3>4. marks' = more
                BY <1>1, <2>2
            <3>5. \A n \in 1 .. k : (n \in 1 .. l /\ more[n] = marks[n]) \/ more[n] = 0
                BY <3>2
            <3>6. more = [n \in 1 .. k |-> more[n]]
                OBVIOUS
            <3>7. more \in Seq(0 .. Generations - 1) /\ Len(more) = k
                <4> DEFINE S == 0 .. Generations - 1
                <4>1. \A n \in 1 .. k : more[n] \in S
                    BY <3>3
                <4> HIDE DEF k, more, S
                <4>2. more \in Seq(S) /\ Len(more) = k
                    BY <3>1, <3>6, <4>1
                <4> QED
                    BY <4>2 DEF S
            <3> HIDE DEF k, more
            <3> QED
                BY <3>1, <3>4, <3>5, <3>7
        <2>3. CASE ~(c >= Len(marks))
            BY <1>1, <1>3, <1>4, <2>1, <2>3
        <2> QED
            BY <2>2, <2>3
    <1> HIDE DEF moved
    <1>9. /\ search' \in [Searchers -> Searches(c)]
          /\ \A s \in Searchers : search'[s] = Undefined \/ search'[s] = search[s]
        BY <1>1, <1>6 DEF SInv, Propers
    <1>10. Held'
        BY <1>1, <1>2 DEF SInv, Held
    <1>11. Roomy'
        <2>1. c <= capacity' /\ c <= Len(marks')
            <3>1. Len(marks') \in Nat
                BY <1>8
            <3> QED
                BY <1>3, <1>7, <1>8, <3>1
        <2> QED
            BY <1>1, <1>2, <1>4, <1>7, <1>8, <2>1 DEF Roomy
    <1>12. Propers'
        <2>1. (search \in [Searchers -> Searches(Size)])'
            BY <1>2, <1>9 DEF Searches
        <2>2. \A s \in Searchers :
                  Proper(search'[s], c) /\ search'[s].gen \in 0 .. Generations - 1
            BY <1>5, <1>6, <1>9 DEF SInv, Propers
        <2>3. \A s \in Searchers : Proper(search[s], Size)'
            BY <1>1, <1>2, <2>2, Unmoved
        <2> QED
            BY <2>1, <2>2, <2>3 DEF Propers
    <1>13. Young'
        <2> SUFFICES ASSUME ~wrapped
                     PROVE  /\ \A n \in 1 .. Len(marks') : marks'[n] <= gen
                            /\ \A s \in Searchers : search'[s].clean /\ search'[s].gen <= gen
            BY <1>1 DEF Young
        <2>1. \A n \in 1 .. Len(marks) : marks[n] <= gen
            BY DEF SInv, Young
        <2>2. \A n \in 1 .. Len(marks') : marks'[n] <= gen
            <3>1. 0 <= gen
                BY <1>4
            <3>2. \A n \in 1 .. Len(marks') :
                      (n \in 1 .. Len(marks) /\ marks'[n] = marks[n]) \/ marks'[n] = 0
                BY <1>8
            <3> QED
                BY ONLY <2>1, <3>1, <3>2
        <2>3. \A s \in Searchers : search[s].clean /\ search[s].gen <= gen
            BY DEF SInv, Young
        <2>4. 0 <= gen
            BY <1>4
        <2> QED
            BY <1>6, <1>9, <2>2, <2>3, <2>4
    <1>14. Apart'
        <2> SUFFICES ASSUME NEW s \in Searchers, NEW t \in Searchers,
                            search'[s].alone, search'[t].pc # "idle"
                     PROVE  s = t
            BY DEF Apart
        <2>1. search[s].alone
            BY <1>6, <1>9
        <2>2. search[t].pc # "idle"
            <3>1. search'[t] = search[t] \/ t \in Active
                BY <1>1
            <3> QED
                BY <3>1 DEF Active
        <2> QED
            BY <2>1, <2>2 DEF SInv, Apart
    <1>15. Courses'
        <2>1. ASSUME NEW s \in Searchers, search'[s].alone, search'[s].clean
              PROVE  OnCourse(search'[s], marks', c)
            <3>1. search'[s] = search[s] /\ search[s].alone /\ search[s].clean
                BY <1>6, <1>9, <2>1
            <3>2. OnCourse(search[s], marks, c)
                BY <3>1 DEF SInv, Courses
            <3>3. CASE s \in Active
                <4>1. ~moved
                    BY <1>1, <1>6, <2>1, <3>3
                <4>2. marks' = marks
                    BY <1>1, <4>1 DEF moved
                <4> QED
                    BY <3>1, <3>2, <4>2
            <3>4. CASE s \notin Active
                <4>1. search[s].pc = "idle"
                    BY <3>4 DEF Active
                <4> QED
                    BY <3>1, <4>1 DEF OnCourse
            <3> QED
                BY <3>3, <3>4
        <2>2. \A s \in Searchers :
                  search'[s].alone /\ search'[s].clean => OnCourse(search[s], marks, Size)'
            BY <1>1, <1>2, <2>1, Unmoved
        <2> QED
            BY <2>2 DEF Courses
    <1> QED
        BY <1>10, <1>11, <1>12, <1>13, <1>14, <1>15 DEF SInv

LEMMA LinkKeeps ==
    ASSUME SInv, NEW p \in Points, NEW level \in 0 .. MaxLevel, Link(p, level)
    PROVE  SInv'
    <1> DEFINE c == Size
               used == graph.top + 1
               g == (gen + used) % Generations
    <1>1. /\ growing /\ Active = {}
          /\ \A n \in DOMAIN graph.nodes : graph.nodes[n].at # p
          /\ graph' = Inserted(graph, c + 1, p, level)
          /\ gen' = g /\ wrapped' = (wrapped \/ gen + used >= Generations)
          /\ growing' = FALSE /\ capacity' = capacity /\ search' = search
        BY DEF Link, Size
    <1>2. PICK touched \in SUBSET (1 .. c) :
              marks' = [n \in DOMAIN marks |-> IF n \in touched THEN g ELSE marks[n]]
        BY DEF Link, Size
    <1>3. /\ c \in Nat /\ c >= 1 /\ DOMAIN graph.nodes = 1 .. c /\ graph.top \in Nat
          /\ MaxLevel \in Nat /\ MaxSize \in Nat /\ 1 .. MaxSize \subseteq Docs
          /\ Generations \in Nat \ {0}
        BY HeldIs, SearchAssumption DEF SInv, Held
    <1>4. /\ c < MaxSize /\ c + 1 <= capacity /\ c + 1 <= Len(marks)
          /\ capacity \in Nat /\ marks \in Seq(0 .. Generations - 1)
          /\ gen \in 0 .. Generations - 1 /\ wrapped \in BOOLEAN
        BY <1>1 DEF SInv, Roomy
    <1>5. Shape(graph', c + 1, MaxLevel) /\ Numbered(graph', c + 1)
        <2>1. c + 1 \in Docs /\ 1 .. c \subseteq Docs
            <3> HIDE DEF c
            <3>1. \A n \in 1 .. c + 1 : n \in 1 .. MaxSize
                BY <1>3, <1>4
            <3> QED
                BY <1>3, <3>1
        <2>2. /\ Shape(graph, c, MaxLevel) /\ Numbered(graph, c)
              /\ \A n \in 1 .. c : graph.nodes[n].at # p
            BY <1>1, <1>3 DEF SInv, Held
        <2> DEFINE h == graph
        <2>3. /\ Shape(h, c, MaxLevel) /\ Numbered(h, c)
              /\ \A n \in 1 .. c : h.nodes[n].at # p
            BY <2>2
        <2>4. graph' = Inserted(h, c + 1, p, level)
            BY <1>1
        <2> HIDE DEF h, c
        <2>5. /\ Shape(Inserted(h, c + 1, p, level), c + 1, MaxLevel)
              /\ Numbered(Inserted(h, c + 1, p, level), c + 1)
            BY <1>3, <2>1, <2>3, NumberedNext
        <2> QED
            BY <2>4, <2>5
    <1>6. Size' = c + 1
        <2> HIDE DEF c
        <2>1. graph' \in GraphOf(c + 1) /\ c + 1 \in Nat
            BY <1>3, <1>5 DEF Shape
        <2> QED
            BY <2>1, GraphIs DEF Size
    <1>7. /\ g \in 0 .. Generations - 1
          /\ ~wrapped' => ~wrapped /\ gen <= g
        <2> DEFINE a == gen + used
        <2>1. a \in Nat /\ gen <= a
            <3>1. used \in Nat /\ gen \in Nat
                BY <1>3, <1>4
            <3> HIDE DEF used
            <3> QED
                BY <3>1
        <2>2. g = a % Generations
            OBVIOUS
        <2>3. wrapped' = (wrapped \/ a >= Generations)
            BY <1>1
        <2> HIDE DEF a, g
        <2>4. a % Generations \in 0 .. Generations - 1
              /\ (a < Generations => a % Generations = a)
            BY <1>3, <2>1, ModIs
        <2> DEFINE over == a >= Generations
        <2>5. ~over => a < Generations
            BY <1>3, <2>1
        <2>6. wrapped' = (wrapped \/ over)
            BY <2>3
        <2> HIDE DEF over
        <2>7. ~wrapped' => ~wrapped /\ a < Generations
            BY ONLY <2>5, <2>6, Zenon
        <2> QED
            BY <2>1, <2>2, <2>4, <2>7
    <1>8. /\ marks' \in Seq(0 .. Generations - 1) /\ Len(marks') = Len(marks)
          /\ \A n \in 1 .. Len(marks) : marks'[n] = g \/ marks'[n] = marks[n]
        <2> DEFINE S == 0 .. Generations - 1
                   k == Len(marks)
        <2>1. marks \in Seq(S) /\ g \in S
            BY <1>4, <1>7
        <2> HIDE DEF S, g
        <2>2. k \in Nat /\ DOMAIN marks = 1 .. k /\ \A n \in 1 .. k : marks[n] \in S
            BY <2>1
        <2>3. marks' = [n \in 1 .. k |-> IF n \in touched THEN g ELSE marks[n]]
            BY <1>2, <2>2
        <2> HIDE DEF k
        <2>4. /\ marks' \in Seq(S) /\ Len(marks') = k
              /\ \A n \in 1 .. k : marks'[n] = g \/ marks'[n] = marks[n]
            BY <2>1, <2>2, <2>3
        <2> QED
            BY <2>4 DEF S, k
    <1> HIDE DEF g
    <1>9. \A s \in Searchers : search'[s] = Idle
        <2> SUFFICES ASSUME NEW s \in Searchers PROVE search[s] = Idle
            BY <1>1
        <2>1. search[s].pc = "idle"
            BY <1>1 DEF Active
        <2>2. Proper(search[s], Size) /\ Undefined.pc = "undefined"
            BY <1>3, IdleIs DEF SInv, Propers
        <2> QED
            BY <2>1, <2>2 DEF Proper
    <1>10. Held'
        <2>1. Size' >= 1
            BY <1>3, <1>6
        <2> QED
            BY <1>5, <1>6, <2>1 DEF Held
    <1>11. Roomy'
        BY <1>1, <1>4, <1>6, <1>7, <1>8 DEF Roomy
    <1>12. /\ Idle \in Searches(c + 1) /\ ~Idle.alone /\ Idle.clean /\ Idle.gen = 0
           /\ Idle.pc = "idle"
        <2>1. c + 1 \in Nat
            BY <1>3
        <2> QED
            BY <2>1, IdleIs
    <1>13. Propers'
        <2>1. search \in [Searchers -> Searches(Size)] /\ 0 \in 0 .. Generations - 1
            BY <1>3 DEF SInv, Propers
        <2>2. search' \in [Searchers -> Searches(c + 1)]
            <3> HIDE DEF Idle
            <3> QED
                BY <1>1, <1>9, <1>12, <2>1
        <2>3. (search \in [Searchers -> Searches(Size)])'
            BY <1>6, <2>2 DEF Searches
        <2>4. \A s \in Searchers : Proper(search[s], Size)'
            BY <1>9 DEF Proper
        <2>5. \A s \in Searchers : search'[s].gen \in 0 .. Generations - 1
            BY <1>9, <1>12, <2>1
        <2> QED
            BY <2>3, <2>4, <2>5 DEF Propers
    <1>14. Young'
        <2> SUFFICES ASSUME ~wrapped'
                     PROVE  /\ \A n \in 1 .. Len(marks') : marks'[n] <= gen'
                            /\ \A s \in Searchers : search'[s].clean /\ search'[s].gen <= gen'
            BY DEF Young
        <2>1. ~wrapped /\ gen <= g
            BY <1>7
        <2>2. \A n \in 1 .. Len(marks) : marks[n] <= gen
            BY <2>1 DEF SInv, Young
        <2>3. /\ gen \in Nat /\ g \in Nat
              /\ \A n \in 1 .. Len(marks) : marks[n] \in Nat
            <3> DEFINE S == 0 .. Generations - 1
            <3>1. marks \in Seq(S) /\ S \subseteq Nat /\ gen \in S /\ g \in S
                BY <1>3, <1>4, <1>7
            <3> HIDE DEF S
            <3>2. \A n \in 1 .. Len(marks) : marks[n] \in S
                BY <3>1
            <3> QED
                BY <3>1, <3>2
        <2>4. \A n \in 1 .. Len(marks') : marks'[n] <= g
            BY <1>8, <2>1, <2>2, <2>3
        <2>5. 0 <= g
            BY <2>3
        <2> QED
            BY <1>1, <1>9, <1>12, <2>4, <2>5
    <1>15. Apart' /\ Courses'
        BY <1>9, <1>12 DEF Apart, Courses
    <1> QED
        BY <1>10, <1>11, <1>13, <1>14, <1>15 DEF SInv

-----------------------------------------------------------------------------
(* It holds initially.                                                     *)

\* The graphs of c nodes among which Built starts.
Shaped(c) == {g \in GraphOf(c) : Shape(g, c, MaxLevel) /\ Numbered(g, c)}

\* What Built makes of g.
Extended(g) ==
    {Inserted(g, Len(g.nodes) + 1, p, level) :
        p \in {r \in Points : \A n \in DOMAIN g.nodes : g.nodes[n].at # r},
        level \in 0 .. MaxLevel}

LEMMA ExtendedIs ==
    ASSUME NEW i \in 1 .. StartSize, NEW g \in Shaped(i - 1)
    PROVE  Extended(g) \subseteq Shaped(i)
    <1> DEFINE c == i - 1
    <1>1. c \in Nat /\ c + 1 = i /\ i \in Docs /\ i \in Nat
        BY SearchAssumption
    <1>2. Shape(g, c, MaxLevel) /\ Numbered(g, c) /\ g \in GraphOf(c)
        BY DEF Shaped
    <1> HIDE DEF c
    <1>3. Len(g.nodes) = c /\ DOMAIN g.nodes = 1 .. c
        BY <1>1, <1>2, GraphIs
    <1> SUFFICES ASSUME NEW p \in Points, NEW level \in 0 .. MaxLevel,
                        \A n \in DOMAIN g.nodes : g.nodes[n].at # p
                 PROVE  Inserted(g, Len(g.nodes) + 1, p, level) \in Shaped(i)
        BY DEF Extended
    <1>4. \A n \in 1 .. c : g.nodes[n].at # p
        BY <1>3
    <1>5. /\ Shape(Inserted(g, i, p, level), c + 1, MaxLevel)
          /\ Numbered(Inserted(g, i, p, level), c + 1)
        <2>1. 1 .. c \subseteq Docs
            <3>1. \A n \in 1 .. c : n \in 1 .. StartSize
                BY <1>1, SearchAssumption
            <3> QED
                BY <3>1, SearchAssumption
        <2> QED
            BY <1>1, <1>2, <1>4, <2>1, NumberedNext
    <1>6. Shape(Inserted(g, i, p, level), i, MaxLevel) /\ Numbered(Inserted(g, i, p, level), i)
        BY <1>1, <1>5
    <1>7. Inserted(g, Len(g.nodes) + 1, p, level) = Inserted(g, i, p, level)
        BY <1>1, <1>3
    <1> QED
        BY <1>6, <1>7 DEF Shaped, Shape

LEMMA BuiltIs == Built \subseteq Shaped(StartSize)
    <1> DEFINE U == UNION {Shaped(i) : i \in 0 .. StartSize}
               S == SUBSET U
               More(G) == UNION {Extended(g) : g \in G}
               F == [G \in S |-> [i \in 1 .. StartSize |-> More(G \cap Shaped(i - 1))]]
               empty == {EmptyGraph}
               IsBuilt(h) == h = [i \in 0 .. StartSize |->
                                     IF i = 0 THEN empty ELSE More(h[i - 1])]
               r == CHOOSE h : IsBuilt(h)
    <1>1. StartSize \in Nat /\ MaxLevel \in Nat /\ 0 \in 0 .. StartSize
        BY SearchAssumption
    <1>2. Built = r[StartSize]
        BY DEF Built, Extended
    <1>3. empty \subseteq Shaped(0) /\ empty \in S
        <2>1. EmptyGraph \in Shaped(0)
            <3>1. Shape(EmptyGraph, 0, MaxLevel)
                BY <1>1, EmptyIs
            <3> QED
                BY <3>1 DEF Shaped, Shape, Numbered
        <2> QED
            BY <1>1, <2>1
    <1>4. ASSUME NEW i \in 1 .. StartSize, NEW G \in SUBSET Shaped(i - 1)
          PROVE  More(G) \subseteq Shaped(i)
        BY ExtendedIs
    <1>5. \A i \in 1 .. StartSize : Shaped(i) \subseteq U
        OBVIOUS
    <1>6. \A G \in S, i \in 1 .. StartSize : F[G][i] = More(G \cap Shaped(i - 1))
        OBVIOUS
    <1> HIDE DEF F, More, empty, r
    <1>7. Keeps(S, StartSize, F)
        <2> SUFFICES ASSUME NEW G \in S, NEW i \in 1 .. StartSize PROVE F[G][i] \in S
            BY DEF Keeps
        <2>1. More(G \cap Shaped(i - 1)) \subseteq Shaped(i)
            BY <1>4
        <2> QED
            BY <1>5, <1>6, <2>1
    <1> HIDE DEF S
    <1>8. PICK h \in [0 .. StartSize -> S] :
              h[0] = empty /\ \A i \in 1 .. StartSize : h[i] = F[h[i - 1]][i]
        BY <1>1, <1>3, <1>7, RecursionExists
    <1>9. ASSUME NEW i \in 1 .. StartSize
          PROVE  /\ i - 1 \in 0 .. StartSize /\ i \in 0 .. StartSize /\ h[i - 1] \in S
                 /\ h[i] = More(h[i - 1] \cap Shaped(i - 1))
        <2>1. i - 1 \in 0 .. StartSize /\ i \in 0 .. StartSize
            BY <1>1
        <2> QED
            BY <1>6, <1>8, <2>1
    <1>10. \A i \in 0 .. StartSize : h[i] \in SUBSET Shaped(i)
        <2>1. \A i \in 1 .. StartSize : h[i] \in SUBSET Shaped(i)
            BY <1>4, <1>9
        <2> QED
            BY <1>1, <1>3, <1>8, <2>1
    <1>11. IsBuilt(h)
        <2>1. h = [i \in 0 .. StartSize |-> h[i]]
            BY <1>8
        <2>2. ASSUME NEW i \in 1 .. StartSize PROVE h[i] = More(h[i - 1])
            <3>1. h[i - 1] \cap Shaped(i - 1) = h[i - 1]
                BY <1>9, <1>10
            <3> QED
                BY <1>9, <3>1
        <2>3. \A i \in 0 .. StartSize : h[i] = IF i = 0 THEN empty ELSE More(h[i - 1])
            <3>1. \A i \in 0 .. StartSize : i # 0 => i \in 1 .. StartSize
                BY <1>1
            <3> QED
                BY <1>8, <2>2, <3>1
        <2> QED
            BY <2>1, <2>3
    <1>12. IsBuilt(r)
        BY <1>11 DEF r
    <1>13. \A i \in 0 .. StartSize : r[i] = IF i = 0 THEN empty ELSE More(r[i - 1])
        BY <1>12
    <1> HIDE DEF IsBuilt
    <1> DEFINE T == {i \in Nat : i <= StartSize => r[i] \subseteq Shaped(i)}
    <1>14. 0 \in T
        BY <1>1, <1>3, <1>13
    <1>15. ASSUME NEW i \in Nat, i \in T PROVE i + 1 \in T
        <2> SUFFICES ASSUME i + 1 <= StartSize PROVE r[i + 1] \subseteq Shaped(i + 1)
            OBVIOUS
        <2> DEFINE k == i + 1
        <2>1. k \in 1 .. StartSize /\ k \in 0 .. StartSize /\ k # 0 /\ k - 1 = i /\ i <= StartSize
            BY <1>1
        <2>2. r[i] \in SUBSET Shaped(i)
            BY <1>15, <2>1
        <2> HIDE DEF k
        <2>3. r[k] = More(r[i])
            BY <1>13, <2>1
        <2>4. r[k] \subseteq Shaped(k)
            BY <1>4, <2>1, <2>2, <2>3
        <2> QED
            BY <2>4 DEF k
    <1> HIDE DEF T
    <1>16. StartSize \in T
        BY <1>1, <1>14, <1>15, Induction
    <1> QED
        BY <1>1, <1>2, <1>16 DEF T

LEMMA InitHolds ==
    ASSUME Init
    PROVE  SInv
    <1> DEFINE c == StartSize
    <1>1. PICK g \in Shaped(c) : graph = Loaded(g)
        BY BuiltIs DEF Init
    <1>2. /\ c \in Nat \ {0} /\ MaxLevel \in Nat /\ Generations \in Nat \ {0, 1}
        BY SearchAssumption
    <1>3. Shape(graph, c, MaxLevel) /\ Numbered(graph, c)
        <2>1. Shape(g, c, MaxLevel) /\ Numbered(g, c) /\ 1 .. c \subseteq Docs
            BY SearchAssumption DEF Shaped
        <2> DEFINE r == Loaded(g)
        <2> HIDE DEF c
        <2>2. /\ Shape(Loaded(g), c, MaxLevel)
              /\ Loaded(g).nodes = g.nodes /\ Loaded(g).wild = g.wild
              /\ \A d \in Docs : IF Own(g, c, d) = {} THEN Loaded(g).idMap[d] = NoNode
                                 ELSE Loaded(g).idMap[d] \in Own(g, c, d)
              /\ Loaded(g) = [g EXCEPT !.idMap = Loaded(g).idMap]
            BY <1>2, <2>1, LoadedIs
        <2>3. r.nodes = g.nodes /\ \A d \in Docs : IF Own(g, c, d) = {} THEN r.idMap[d] = NoNode
                                                   ELSE r.idMap[d] \in Own(g, c, d)
            BY <2>2
        <2> HIDE DEF r
        <2>4. ASSUME NEW n \in 1 .. c PROVE Own(g, c, n) = {n} /\ n \in Docs
            BY <2>1 DEF Own, Numbered
        <2>5. Numbered(r, c)
            BY <2>1, <2>3, <2>4 DEF Numbered
        <2> QED
            BY <1>1, <2>2, <2>5 DEF r
    <1>4. Size = c
        BY <1>2, <1>3, GraphIs DEF Shape, Size
    <1>5. /\ capacity = c /\ growing = FALSE /\ gen = 1 /\ wrapped = FALSE
          /\ marks = [n \in 1 .. 2 * c |-> 0] /\ search = [s \in Searchers |-> Idle]
        BY DEF Init
    <1>6. Held
        BY <1>2, <1>3, <1>4 DEF Held
    <1>7. /\ marks \in Seq(0 .. Generations - 1) /\ Len(marks) = 2 * c
          /\ \A n \in 1 .. Len(marks) : marks[n] = 0
        <2> DEFINE S == 0 .. Generations - 1
                   k == 2 * c
        <2>1. 0 \in S /\ k \in Nat
            BY <1>2
        <2>2. marks = [n \in 1 .. k |-> 0]
            BY <1>5
        <2> HIDE DEF S, k
        <2>3. marks \in Seq(S) /\ Len(marks) = k /\ \A n \in 1 .. Len(marks) : marks[n] = 0
            BY <2>1, <2>2
        <2> QED
            BY <2>3 DEF S, k
    <1>8. Roomy
        <2>1. gen \in 0 .. Generations - 1
            BY <1>2, <1>5
        <2>2. Size <= capacity /\ Size <= Len(marks) /\ capacity \in Nat
            BY <1>2, <1>4, <1>5, <1>7
        <2> QED
            BY <1>5, <1>7, <2>1, <2>2 DEF Roomy
    <1>9. /\ Idle \in Searches(Size) /\ ~Idle.alone /\ Idle.clean /\ Idle.gen = 0
          /\ Idle.pc = "idle"
        BY <1>2, <1>4, IdleIs
    <1>10. \A s \in Searchers : search[s] = Idle
        BY <1>5
    <1>11. Propers
        <2>1. search \in [Searchers -> Searches(Size)]
            <3> HIDE DEF Idle
            <3> QED
                BY <1>5, <1>9
        <2>2. 0 \in 0 .. Generations - 1
            BY <1>2
        <2> QED
            BY <1>9, <1>10, <2>1, <2>2 DEF Propers, Proper
    <1>12. Young
        <2>1. 0 <= gen
            BY <1>5
        <2>2. \A n \in 1 .. Len(marks) : marks[n] <= gen
            BY <1>7, <2>1
        <2> HIDE DEF Idle
        <2>3. \A s \in Searchers : search[s].clean /\ search[s].gen <= gen
            BY <1>9, <1>10, <2>1
        <2> QED
            BY <2>2, <2>3 DEF Young
    <1>13. Apart /\ Courses
        BY <1>9, <1>10 DEF Apart, Courses
    <1> QED
        BY <1>6, <1>8, <1>11, <1>12, <1>13 DEF SInv

-----------------------------------------------------------------------------
(* The theorems.                                                           *)

LEMMA NextKeeps == SInv /\ [Next]_vars => SInv'
    <1> SUFFICES ASSUME SInv, [Next]_vars PROVE SInv'
        OBVIOUS
    <1>1. CASE \E s \in Searchers : Step(s)
        BY <1>1, OpenLayerKeeps, VisitKeeps, SkipKeeps, LeaveKeeps DEF Step
    <1>2. CASE \E s \in Searchers : \E ask \in Requests : Begin(s, ask)
        BY <1>2, BeginKeeps
    <1>3. CASE Grow
        BY <1>3, GrowKeeps
    <1>4. CASE \E p \in Points, level \in 0 .. MaxLevel : Link(p, level)
        BY <1>4, LinkKeeps
    <1>5. CASE UNCHANGED vars
        <2>1. /\ graph' = graph /\ capacity' = capacity /\ growing' = growing
              /\ marks' = marks /\ gen' = gen /\ search' = search /\ wrapped' = wrapped
            BY <1>5 DEF vars
        <2>2. Held' /\ Roomy' /\ Young' /\ Apart'
            BY <2>1 DEF SInv, Held, Roomy, Young, Apart, Size
        <2>3. Size' = Size
            BY <2>1, Unmoved
        <2>4. Propers'
            <3>1. (search \in [Searchers -> Searches(Size)])'
                BY <2>1, <2>3 DEF SInv, Propers, Searches
            <3>2. \A s \in Searchers : Proper(search[s], Size)'
                BY <2>1, <2>3, Unmoved DEF SInv, Propers
            <3>3. \A s \in Searchers : search'[s].gen \in 0 .. Generations - 1
                BY <2>1 DEF SInv, Propers
            <3> QED
                BY <3>1, <3>2, <3>3 DEF Propers
        <2>5. Courses'
            <3>1. \A s \in Searchers :
                      search'[s].alone /\ search'[s].clean => OnCourse(search[s], marks, Size)'
                BY <2>1, <2>3, Unmoved DEF SInv, Courses
            <3> QED
                BY <3>1 DEF Courses
        <2> QED
            BY <2>2, <2>4, <2>5 DEF SInv
    <1> QED
        BY <1>1, <1>2, <1>3, <1>4, <1>5 DEF Next

\* The inductive invariant: whatever the searches and the insertion do, there is
\* room for every node a search can mark, heaps stay in order, marks are no newer
\* than the counter, and a search that is alone with a generation of its own is
\* where search_layer is after as many rounds and looks.
THEOREM SearchInvariant == Spec => []SInv
    <1>1. Init => SInv
        BY InitHolds
    <1> QED
        BY <1>1, NextKeeps, PTL DEF Spec

LEMMA InvTypeOK == SInv => TypeOK
    <1> SUFFICES ASSUME SInv PROVE TypeOK
        OBVIOUS
    <1> DEFINE c == Size
               size == Len(graph.nodes) + IF growing THEN 1 ELSE 0
    <1>1. /\ c \in Nat /\ DOMAIN graph.nodes = 1 .. c /\ graph.top \in Nat
          /\ graph.top <= MaxLevel /\ graph \in GraphOf(c)
        BY HeldIs DEF SInv
    <1>2. size <= capacity /\ size <= Len(marks)
        <2>1. Len(graph.nodes) = c
            BY DEF Size
        <2>2. /\ c <= capacity /\ c <= Len(marks)
              /\ growing => c + 1 <= capacity /\ c + 1 <= Len(marks)
            BY DEF SInv, Roomy
        <2> HIDE DEF c
        <2>3. CASE growing
            <3>1. size = c + 1
                BY <2>1, <2>3
            <3> HIDE DEF size
            <3> QED
                BY <2>2, <2>3, <3>1
        <2>4. CASE ~growing
            <3>1. size = c
                BY <1>1, <2>1, <2>4
            <3> HIDE DEF size
            <3> QED
                BY <2>2, <3>1
        <2> QED
            BY <2>3, <2>4
    <1>3. marks \in [DOMAIN marks -> 0 .. Generations - 1]
        <2> DEFINE S == 0 .. Generations - 1
        <2>1. marks \in Seq(S)
            BY DEF SInv, Roomy
        <2> HIDE DEF S
        <2>2. marks \in [DOMAIN marks -> S]
            BY <2>1
        <2> QED
            BY <2>2 DEF S
    <1>4. ASSUME NEW s \in Searchers
          PROVE  LET w == search[s]
                 IN  /\ w.pc \in PCs
                     /\ w.layer \in 0 .. MaxLevel
                     /\ ToSet(w.open) \cup ToSet(w.todo) \cup ToSet(w.found)
                            \subseteq DOMAIN graph.nodes
                     /\ Len(w.found) <= Greater(EfSearch, w.ask.topK)
                     /\ \A i \in 2 .. Len(w.found) :
                            ~Nearer(graph, w.ask.q, w.found[i], w.found[i - 1])
        <2> DEFINE w == search[s]
                   most == Greater(EfSearch, w.ask.topK)
        <2>1. w \in Searches(c) /\ Proper(w, c)
            BY DEF SInv, Propers
        <2>2. MaxLevel \in Nat /\ EfSearch \in Nat
            BY SearchAssumption
        <2>3. w.pc \in PCs /\ w.found \in Seq(1 .. c)
              /\ w.open \in Seq(1 .. c) /\ w.todo \in Seq(1 .. c)
            <3> HIDE DEF w, c
            <3> QED
                BY <2>1 DEF Searches
        <2> HIDE DEF w
        <2>4. ToSet(w.open) \cup ToSet(w.todo) \cup ToSet(w.found) \subseteq DOMAIN graph.nodes
            <3> DEFINE S == 1 .. c
            <3>1. w.open \in Seq(S) /\ w.todo \in Seq(S) /\ w.found \in Seq(S)
                BY <2>3
            <3> HIDE DEF S
            <3>2. ToSet(w.open) \subseteq S /\ ToSet(w.todo) \subseteq S /\ ToSet(w.found) \subseteq S
                BY <3>1 DEF ToSet
            <3> QED
                BY <1>1, <3>2 DEF S
        <2>5. CASE w = Idle \/ w = Undefined
            <3>1. w.layer = 0 /\ w.found = <<>> /\ w.ask = NoRequest
                BY <1>1, <2>5, IdleIs
            <3>2. Len(w.found) = 0 /\ w.ask.topK = 0
                BY <3>1 DEF NoRequest
            <3>3. most >= 0
                BY <2>2, <3>2 DEF Greater
            <3> QED
                BY <2>2, <2>3, <2>4, <3>1, <3>2, <3>3 DEF w
        <2>6. CASE w \in Working(c)
            <3>1. w.layer \in 0 .. graph.top /\ Len(w.found) <= Beam(w)
                BY <2>6 DEF Working
            <3>2. /\ Beam(w) \in Nat \ {0} /\ Beam(w) <= most /\ w.ask.topK \in Nat
                  /\ Ordered(graph, w.ask.q, w.found)
                BY <1>1, <2>6, WorkingIs
            <3>3. w.layer \in 0 .. MaxLevel
                BY <1>1, <2>2, <3>1
            <3>4. Len(w.found) <= most
                <4>1. Len(w.found) \in Nat
                    BY <2>3
                <4>2. most \in Nat
                    BY <2>2, <3>2 DEF Greater
                <4> HIDE DEF most
                <4> QED
                    BY <3>1, <3>2, <4>1, <4>2
            <3>5. \A i \in 2 .. Len(w.found) :
                      ~Nearer(graph, w.ask.q, w.found[i], w.found[i - 1])
                <4> SUFFICES ASSUME NEW i \in 2 .. Len(w.found)
                             PROVE  ~Nearer(graph, w.ask.q, w.found[i], w.found[i - 1])
                    OBVIOUS
                <4>1. Len(w.found) \in Nat
                    BY <2>3
                <4>2. i \in 1 .. Len(w.found) /\ i - 1 \in 1 .. Len(w.found) /\ i - 1 < i
                    BY <4>1
                <4> QED
                    BY <3>2, <4>2 DEF Ordered
            <3> QED
                BY <2>3, <2>4, <3>3, <3>4, <3>5 DEF w
        <2> QED
            BY <2>1, <2>5, <2>6 DEF Proper
    <1>5. gen \in 0 .. Generations - 1
        BY DEF SInv, Roomy
    <1> QED
        BY <1>2, <1>3, <1>4, <1>5 DEF TypeOK

\* The type invariant: no node that a search holds is beyond the arrays, which an
\* insertion has grown for the node it will add, and a result heap is in order
\* and as long as it may be.
THEOREM TypeCorrect == Spec => []TypeOK
    BY SearchInvariant, InvTypeOK, PTL

LEMMA InvAloneExact == SInv => AloneExact
    <1> SUFFICES ASSUME SInv, NEW s \in Searchers, Returning(s), search[s].alone,
                        search[s].clean \/ ~wrapped
                 PROVE  Distinct(search[s].found) /\ Result(search[s]) = Expected(search[s])
        BY DEF AloneExact
    <1> DEFINE w == search[s]
    <1>1. w.pc = "return"
        BY DEF Returning
    <1>2. w \in Working(Size) /\ w.clean /\ OnCourse(w, marks, Size)
        BY <1>1, BusyIs
    <1>3. Size \in Nat /\ graph \in GraphOf(Size)
        BY HeldIs DEF SInv
    <1> HIDE DEF w
    <1>4. Single(w.found) /\ Result(w) = Expected(w)
        BY <1>1, <1>2 DEF OnCourse
    <1>5. /\ w.ask.q \in Points /\ w.found \in Seq(1 .. Size)
          /\ Ordered(graph, w.ask.q, w.found)
        BY <1>2, <1>3, WorkingIs
    <1>6. Cardinality(ToSet(w.found)) = Len(w.found)
        BY <1>3, <1>4, <1>5, HeapIs
    <1> QED
        BY <1>4, <1>6 DEF w, Distinct

\* A search that overlapped with no other returns what the graph gives, each
\* document once, for all marks that earlier searches, insertions and copies of
\* the array have left: what it does in steps on the shared array is what
\* search does with a set of visited nodes, layer by layer.
THEOREM AloneIsExact == Spec => []AloneExact
    BY SearchInvariant, InvAloneExact, PTL

-----------------------------------------------------------------------------
(* Searches that overlap: what is left of the course of one that others'   *)
(* marks lead astray.                                                      *)

\* The neighbours that the candidate n leads to.
Lane(w, n) ==
    IF Resolved(graph, n) = NoNode \/ w.layer > graph.nodes[Resolved(graph, n)].top THEN <<>>
    ELSE graph.nodes[Resolved(graph, n)].neighbors[w.layer]

\* What a candidate leads to are nodes.
LEMMA LaneIs ==
    ASSUME NEW c \in Nat, graph \in GraphOf(c), NEW w \in Working(c), NEW n \in 1 .. c
    PROVE  Lane(w, n) \in Seq(1 .. c)
    <1> DEFINE r == Resolved(graph, n)
    <1>1. w.layer \in Nat
        BY WorkingIs
    <1>2. r \in 0 .. c
        BY GraphIs
    <1>3. CASE r = NoNode \/ w.layer > graph.nodes[r].top
        <2>1. Lane(w, n) = <<>>
            BY <1>3 DEF Lane
        <2> QED
            BY <2>1
    <1>4. CASE ~(r = NoNode \/ w.layer > graph.nodes[r].top)
        <2> HIDE DEF r
        <2>1. r \in 1 .. c
            BY <1>2, <1>4 DEF NoNode
        <2>2. graph.nodes[r].top \in Nat
            BY <2>1, GraphIs
        <2>3. w.layer \in 0 .. graph.nodes[r].top
            BY <1>1, <1>4, <2>2
        <2>4. graph.nodes[r].neighbors[w.layer] \in Seq(1 .. c)
            BY <2>1, <2>3, ListIs
        <2>5. Lane(w, n) = graph.nodes[r].neighbors[w.layer]
            BY <1>4 DEF Lane, r
        <2> QED
            BY <2>4, <2>5
    <1> QED
        BY <1>3, <1>4

\* Searches with the same request in the same layer are led alike.
LEMMA SameLane ==
    ASSUME NEW v, NEW w, Same(v, w)
    PROVE  \A n : Lane(v, n) = Lane(w, n)
    BY DEF Same, Lane

\* The candidate that is next in round i leads where the round goes.
LEMMA WayIsLane ==
    ASSUME NEW w, NEW i
    PROVE  WayOf(w, i) = Lane(w, Nearest(graph, w.ask.q, RoundsOf(w)[i].open))
    BY DEF WayOf, Way, Barren, Ahead, Aim, Lane

\* A candidate that is taken leads to its neighbours.
LEMMA TakenLane ==
    ASSUME NEW c \in Nat, graph \in GraphOf(c), NEW w \in Working(c), w.open # <<>>
    PROVE  /\ Taken(w) \in Working(c) /\ Same(Taken(w), w)
           /\ Taken(w).pc = "visit" /\ Taken(w).gen = w.gen
           /\ Taken(w).open = Tail(w.open) /\ Taken(w).found = w.found
           /\ Taken(w).todo = Lane(w, Head(w.open))
    <1> DEFINE beam == [open |-> ToSet(w.open)]
               q == w.ask.q
    <1>1. beam.open = ToSet(w.open)
        OBVIOUS
    <1>2. Head(w.open) = Nearest(graph, q, beam.open)
        BY <1>1, HeapIs, WorkingIs
    <1> HIDE DEF beam
    <1>3. /\ Taken(w) \in Working(c) /\ Same(Taken(w), w)
          /\ Taken(w).pc = "visit" /\ Taken(w).gen = w.gen
          /\ Taken(w).open = Tail(w.open) /\ Taken(w).found = w.found
          /\ Taken(w).todo = Way(graph, q, w.layer, beam)
        BY <1>1, TakenIs
    <1>4. Way(graph, q, w.layer, beam) = Lane(w, Head(w.open))
        BY <1>2 DEF Way, Barren, Ahead, Aim, Lane
    <1> QED
        BY <1>3, <1>4

-----------------------------------------------------------------------------
(* A search that has seen at least what a beam has.                        *)

\* What n leads to was visited, or is about to be.
Spent(w, n, b) == ToSet(Lane(w, n)) \subseteq b.visited \cup ToSet(w.todo)

\* Nothing is lost when n is visited again.
Settled(w, n, b) ==
    /\ n \in b.open \/ Spent(w, n, b)
    /\ Accepts(graph, n, AllowedNow(w)) => n \in b.found

\* There is no place for n.
Hopeless(w, n) == Full(w) /\ ~Nearer(graph, w.ask.q, n, Last(w.found))

\* Search w has found what the beam b has, and has all candidates that b has, and
\* perhaps candidates again that lead nowhere new; its marks that are left are on
\* nodes that b visited.
Loose(w, m, b, c) ==
    /\ ToSet(w.found) = b.found
    /\ b.open \subseteq ToSet(w.open) /\ ToSet(w.open) \subseteq b.visited
    /\ \A n \in 1 .. c : m[n] = w.gen => n \in b.visited
    /\ \A n \in ToSet(w.open) : n \in b.open \/ Spent(w, n, b)
    /\ \A n \in b.visited : Settled(w, n, b) \/ Hopeless(w, n)

\* Repetitions have not taken a place that another node could have.
Narrow(w) == Beam(w) = 1 \/ Len(w.found) < Beam(w)

Fresh(w, m, c, i) ==
    /\ ~Ends(w, i)
    /\ \E j \in 0 .. Len(WayOf(w, i)) :
           /\ Loose(w, m, LooksOf(w, i)[1 .. j], c)
           /\ w.todo = SubSeq(WayOf(w, i), j + 1, Len(WayOf(w, i)))

Again(w, m, c, i) ==
    Loose(w, m, RoundsOf(w)[i], c) /\ ToSet(w.todo) \subseteq RoundsOf(w)[i].visited

\* w expands a candidate of a round, or one again.
Trail(w, m, c) == \E i \in 0 .. c : Fresh(w, m, c, i) \/ Again(w, m, c, i)

\* In layer 0 with a wide beam: w sees nothing that search_layer would not.
Within(w, c) ==
    w.layer = 0 /\ Beam(w) >= c =>
        /\ ToSet(w.open) \subseteq RoundsOf(w)[c].visited
        /\ ToSet(w.todo) \subseteq RoundsOf(w)[c].visited
        /\ ToSet(w.found) \subseteq RoundsOf(w)[c].found

Roaming(w, m, c) == w.ep = EntryTo(w) /\ Within(w, c) /\ (Narrow(w) => Trail(w, m, c))

Straying(w, m, c) ==
    /\ w.pc = "layer" => w.ep = EntryTo(w)
    /\ w.pc = "visit" => Roaming(w, m, c)
    /\ w.pc = "return" =>
           (Distinct(w.found) /\ w.ask.topK >= c => Result(w) = Expected(w))

\* A node that is examined joins those visited, and no candidate is lost.
Adds(g, q, ef, allowed, b, n, d) ==
    /\ d.visited = b.visited \cup {n} /\ b.open \subseteq d.open
    /\ n \in b.visited => d = b
    /\ n \notin b.visited =>
           IF Cardinality(b.found) < ef \/ Nearer(g, q, n, Farthest(g, q, b.found))
           THEN /\ d.open = b.open \cup {n}
                /\ d.found = IF Accepts(g, n, allowed)
                             THEN Trimmed(g, q, ef, b.found \cup {n}) ELSE b.found
           ELSE d.open = b.open /\ d.found = b.found

\* What search_layer does with a neighbour.
LEMMA ExamineAdds ==
    ASSUME NEW g, NEW q, NEW ef, NEW allowed, NEW V, NEW n \in V,
           NEW b \in Beams(g, V, allowed)
    PROVE  Adds(g, q, ef, allowed, b, n, Examine(g, q, ef, allowed, b, n))
    <1> DEFINE d == Examine(g, q, ef, allowed, b, n)
               wanted == Cardinality(b.found) < ef \/ Nearer(g, q, n, Farthest(g, q, b.found))
    <1> SUFFICES Adds(g, q, ef, allowed, b, n, d)
        OBVIOUS
    <1>1. CASE n \in b.visited
        <2>1. d = b
            BY <1>1 DEF Examine
        <2> HIDE DEF d
        <2>2. b.visited = b.visited \cup {n}
            BY <1>1
        <2> QED
            BY <1>1, <2>1, <2>2 DEF Adds
    <1>2. CASE n \notin b.visited /\ wanted
        <2>1. d = [visited |-> b.visited \cup {n}, open |-> b.open \cup {n},
                   found |-> IF Accepts(g, n, allowed)
                               THEN Trimmed(g, q, ef, b.found \cup {n}) ELSE b.found]
            BY <1>2 DEF Examine
        <2> HIDE DEF wanted, d
        <2>2. /\ d.visited = b.visited \cup {n} /\ d.open = b.open \cup {n}
              /\ d.found = IF Accepts(g, n, allowed)
                           THEN Trimmed(g, q, ef, b.found \cup {n}) ELSE b.found
            BY <2>1
        <2> QED
            BY <1>2, <2>2 DEF Adds, wanted
    <1>3. CASE n \notin b.visited /\ ~wanted
        <2>1. d = [b EXCEPT !.visited = @ \cup {n}]
            BY <1>3 DEF Examine
        <2> HIDE DEF wanted, d
        <2>2. d.visited = b.visited \cup {n} /\ d.open = b.open /\ d.found = b.found
            BY <2>1 DEF Beams
        <2> QED
            BY <1>3, <2>2 DEF Adds, wanted
    <1> QED
        BY <1>1, <1>2, <1>3

\* What a look at the neighbour n must do for w, now at v, to have what the beam
\* has that was b and is d.
LEMMA Carried ==
    ASSUME NEW c \in Nat, NEW w, NEW v, NEW m, NEW n, NEW b, NEW d,
           Same(v, w), v.gen = w.gen, ToSet(w.todo) \subseteq ToSet(v.todo) \cup {n},
           Loose(w, marks, b, c), \A k \in 1 .. c : m[k] = w.gen => k = n \/ marks[k] = w.gen,
           d.visited = b.visited \cup {n}, b.open \subseteq d.open,
           ToSet(v.found) = d.found, d.open \subseteq ToSet(v.open),
           ToSet(v.open) \subseteq ToSet(w.open) \cup {n},
           n \in ToSet(v.open) => n \in ToSet(w.open) \/ n \in d.open \/ Spent(w, n, b),
           \A k \in b.visited :
               \/ Settled(w, k, b) /\ (k \in b.found => k \in d.found)
               \/ Hopeless(v, k),
           n \in b.visited \/ Settled(v, n, d) \/ Hopeless(v, n)
    PROVE  Loose(v, m, d, c)
    <1>1. AllowedNow(v) = AllowedNow(w) /\ \A k : Lane(v, k) = Lane(w, k)
        BY SameBeam, SameLane
    <1>2. /\ b.open \subseteq ToSet(w.open) /\ ToSet(w.open) \subseteq b.visited
          /\ \A k \in 1 .. c : marks[k] = w.gen => k \in b.visited
          /\ \A k \in ToSet(w.open) : k \in b.open \/ Spent(w, k, b)
        BY DEF Loose
    <1>3. \A k : Spent(w, k, b) => Spent(v, k, d)
        BY <1>1 DEF Spent
    <1>4. \A k : Settled(w, k, b) /\ (k \in b.found => k \in d.found) => Settled(v, k, d)
        BY <1>1, <1>3 DEF Settled
    <1>5. ToSet(v.open) \subseteq d.visited
        BY <1>2
    <1>6. \A k \in 1 .. c : m[k] = v.gen => k \in d.visited
        BY <1>2
    <1>7. \A k \in ToSet(v.open) : k \in d.open \/ Spent(v, k, d)
        BY <1>2, <1>3
    <1>8. \A k \in d.visited : Settled(v, k, d) \/ Hopeless(v, k)
        BY <1>4
    <1> QED
        BY <1>5, <1>6, <1>7, <1>8 DEF Loose

\* The first places of a heap that has one more node than there are places.
LEMMA CutSmall ==
    ASSUME NEW c \in Nat, NEW q, NEW heap \in Seq(1 .. c), NEW k \in Nat
    PROVE  /\ Len(heap) <= k => Cut(heap, k) = heap
           /\ k = 1 /\ heap # <<>> => Cut(heap, k) = <<heap[1]>>
    <1>1. Len(heap) \in Nat
        OBVIOUS
    <1>2. ASSUME Len(heap) <= k PROVE Cut(heap, k) = heap
        <2>1. Lesser(Len(heap), k) = Len(heap)
            BY <1>1, <1>2 DEF Lesser
        <2> QED
            BY <2>1 DEF Cut
    <1>3. ASSUME k = 1, heap # <<>> PROVE Cut(heap, k) = <<heap[1]>>
        <2>1. Len(heap) >= 1
            BY <1>1, <1>3
        <2>2. Lesser(Len(heap), 1) = 1
            BY <1>1, <2>1 DEF Lesser
        <2>3. SubSeq(heap, 1, 1) = <<heap[1]>>
            <3> DEFINE s == SubSeq(heap, 1, 1)
            <3>1. heap[1] \in 1 .. c /\ \A i \in 1 .. 1 : heap[i] \in 1 .. c
                BY <1>1, <2>1
            <3>2. s \in Seq(1 .. c) /\ Len(s) = 1 /\ s[1] = heap[1]
                BY <3>1, SubSeqProperties
            <3> HIDE DEF s
            <3>3. s = <<heap[1]>>
                BY <3>1, <3>2
            <3> QED
                BY <3>3 DEF s
        <2> QED
            BY <1>3, <2>2, <2>3 DEF Cut
    <1> QED
        BY <1>2, <1>3

\* A heap has no fewer entries than nodes.
LEMMA HeapCounts ==
    ASSUME NEW c \in Nat, NEW heap \in Seq(1 .. c)
    PROVE  /\ Cardinality(ToSet(heap)) \in Nat
           /\ Cardinality(ToSet(heap)) <= Len(heap)
    <1> DEFINE k == Len(heap)
               S == ToSet(heap)
    <1>1. k \in Nat /\ heap \in [1 .. k -> S]
        BY DEF ToSet
    <1>2. \A n \in S : \E i \in 1 .. k : heap[i] = n
        BY DEF ToSet
    <1> HIDE DEF S, k
    <1>3. IsFiniteSet(1 .. k) /\ Cardinality(1 .. k) = k
        BY <1>1, FS_Interval
    <1>4. heap \in Surjection(1 .. k, S)
        BY <1>1, <1>2 DEF Surjection
    <1>5. IsFiniteSet(S) /\ Cardinality(S) <= Cardinality(1 .. k)
        BY <1>3, <1>4, FS_Surjection DEF ExistsSurjection
    <1>6. Cardinality(S) \in Nat
        BY <1>5, FS_CardinalityType
    <1> QED
        BY <1>3, <1>5, <1>6 DEF S, k

\* The results after a neighbour that counts.
LEMMA FoundNow ==
    ASSUME NEW c \in Nat, graph \in GraphOf(c), NEW w \in Working(c), w.todo # <<>>, Counts(w)
    PROVE  /\ Len(w.found) < Beam(w) =>
                  /\ Len(NowFound(w)) = Len(w.found) + 1
                  /\ ToSet(NowFound(w)) = ToSet(w.found) \cup {Head(w.todo)}
           /\ ~(Len(w.found) < Beam(w)) =>
                  /\ Len(NowFound(w)) = Beam(w) /\ Len(w.found) = Beam(w)
                  /\ Beam(w) = 1 => NowFound(w) = <<Head(w.todo)>>
    <1> DEFINE q == w.ask.q
               n == Head(w.todo)
               h == w.found
               p == Pushed(h, q, n)
               k == Beam(w)
    <1>1. /\ q \in Points /\ k \in Nat \ {0} /\ h \in Seq(1 .. c) /\ Ordered(graph, q, h)
          /\ w.todo \in Seq(1 .. c)
        BY WorkingIs
    <1>2. n \in 1 .. c /\ Len(h) <= k /\ Len(h) \in Nat
        BY <1>1, HeadIs DEF Working
    <1>3. NowFound(w) = Cut(p, k)
        BY DEF NowFound
    <1>4. ~(Len(h) < k) => Nearer(graph, q, n, Last(h))
        BY DEF Counts, Wanted
    <1> HIDE DEF n, h, q, k
    <1>5. /\ p \in Seq(1 .. c) /\ Len(p) = Len(h) + 1 /\ Ordered(graph, q, p)
          /\ ToSet(p) = ToSet(h) \cup {n}
        <2>1. /\ Pushed(h, q, n) \in Seq(1 .. c) /\ Len(Pushed(h, q, n)) = Len(h) + 1
              /\ Ordered(graph, q, Pushed(h, q, n))
              /\ ToSet(Pushed(h, q, n)) = ToSet(h) \cup {n}
              /\ Single(h) /\ n \notin ToSet(h) => Single(Pushed(h, q, n))
            BY <1>1, <1>2, PushedIs
        <2> QED
            BY <2>1
    <1> HIDE DEF p
    <1>6. Len(Cut(p, k)) = Lesser(Len(p), k)
        BY <1>1, <1>5, CutIs
    <1>7. ASSUME Len(h) < k
          PROVE  Len(Cut(p, k)) = Len(h) + 1 /\ ToSet(Cut(p, k)) = ToSet(h) \cup {n}
        <2>1. Len(p) <= k
            BY <1>1, <1>2, <1>5, <1>7
        <2>2. Cut(p, k) = p
            BY <1>1, <1>5, <2>1, CutSmall
        <2> QED
            BY <1>5, <2>2
    <1>8. ASSUME ~(Len(h) < k)
          PROVE  Len(Cut(p, k)) = k /\ Len(h) = k
        BY <1>1, <1>2, <1>5, <1>6, <1>8 DEF Lesser
    <1>9. ASSUME ~(Len(h) < k), k = 1
          PROVE  Cut(p, k) = <<n>>
        <2>1. Len(h) = 1 /\ Len(p) = 2 /\ p # <<>>
            BY <1>2, <1>5, <1>8, <1>9
        <2>2. Last(h) = h[1] /\ ToSet(h) = {h[1]}
            BY <1>1, <2>1 DEF Last, ToSet
        <2>3. p[1] \in {h[1], n} /\ (p[1] = n \/ p[2] = n)
            <3>1. ToSet(p) = {p[1], p[2]}
                BY <1>5, <2>1 DEF ToSet
            <3> QED
                BY <1>5, <2>2, <3>1
        <2>4. Nearer(graph, q, n, h[1])
            BY <1>4, <1>9, <2>2
        <2>5. ~Nearer(graph, q, p[2], p[1])
            BY <1>5, <2>1 DEF Ordered
        <2>6. p[1] = n
            BY <2>3, <2>4, <2>5
        <2> QED
            BY <1>1, <1>5, <1>9, <2>1, <2>6, CutSmall
    <1> QED
        BY <1>3, <1>7, <1>8, <1>9 DEF n, h, k

\* What a list has is its head and what its tail has.
LEMMA ListHas ==
    ASSUME NEW S, NEW list \in Seq(S), list # <<>>
    PROVE  /\ Head(list) \in ToSet(list) /\ ToSet(Tail(list)) \subseteq ToSet(list)
           /\ ToSet(list) = ToSet(Tail(list)) \cup {Head(list)}
    <1> DEFINE l == Len(list)
    <1>1. l \in Nat /\ l >= 1 /\ Len(Tail(list)) = l - 1 /\ DOMAIN list = 1 .. l
        OBVIOUS
    <1>2. \A i \in 1 .. l - 1 : Tail(list)[i] = list[i + 1]
        BY <1>1
    <1>3. Tail(list) \in Seq(S)
        OBVIOUS
    <1>4. DOMAIN Tail(list) = 1 .. l - 1
        BY <1>1, <1>3
    <1>5. Head(list) = list[1] /\ 1 \in 1 .. l
        BY <1>1
    <1>6. \A i \in 1 .. l - 1 : i + 1 \in 1 .. l
        BY <1>1
    <1>7. \A i \in 1 .. l : i = 1 \/ (i - 1 \in 1 .. l - 1 /\ (i - 1) + 1 = i)
        BY <1>1
    <1> HIDE DEF l
    <1>8. Head(list) \in ToSet(list)
        BY <1>1, <1>5 DEF ToSet
    <1>9. ToSet(Tail(list)) \subseteq ToSet(list)
        <2>1. \A i \in 1 .. l - 1 : Tail(list)[i] \in ToSet(list)
            BY <1>1, <1>2, <1>6 DEF ToSet
        <2> QED
            BY <1>4, <2>1 DEF ToSet
    <1>10. ToSet(list) \subseteq ToSet(Tail(list)) \cup {Head(list)}
        <2>1. \A i \in 1 .. l : list[i] = Head(list) \/ list[i] \in ToSet(Tail(list))
            BY <1>2, <1>4, <1>5, <1>7 DEF ToSet
        <2> QED
            BY <1>1, <2>1 DEF ToSet
    <1> QED
        BY <1>8, <1>9, <1>10

\* In the array m the marks of w are those it had, and one on its next neighbour.
OneMore(w, m, c) == \A k \in 1 .. c : m[k] = w.gen => k = Head(w.todo) \/ marks[k] = w.gen

\* What the marks and the neighbours to come are after a look.
LEMMA LookMarks ==
    ASSUME NEW c \in Nat, graph \in GraphOf(c), NEW w \in Working(c), w.todo # <<>>,
           NEW m, marks \in Seq(Nat), c <= Len(marks), m = [marks EXCEPT ![Head(w.todo)] = w.gen]
    PROVE  /\ Head(w.todo) \in 1 .. c
           /\ OneMore(w, m, c)
           /\ ToSet(w.todo) = ToSet(Tail(w.todo)) \cup {Head(w.todo)}
    <1> DEFINE t == w.todo
               n == Head(t)
    <1>1. t \in Seq(1 .. c) /\ t # <<>>
        BY WorkingIs
    <1>2. n \in 1 .. c
        BY <1>1, HeadIs
    <1>3. \A k \in 1 .. c : k \in DOMAIN marks
        OBVIOUS
    <1> HIDE DEF t
    <1>4. ToSet(t) = ToSet(Tail(t)) \cup {n}
        BY <1>1, ListHas
    <1> QED
        BY <1>2, <1>3, <1>4 DEF t, OneMore

\* A neighbour that the beam has visited changes nothing.
LEMMA LookAgain ==
    ASSUME NEW c \in Nat, graph \in GraphOf(c), NEW w \in Working(c), w.todo # <<>>,
           NEW m, marks \in Seq(Nat), c <= Len(marks), m = [marks EXCEPT ![Head(w.todo)] = w.gen],
           NEW b, Loose(w, marks, b, c), Narrow(Visited(w)), Head(w.todo) \in b.visited
    PROVE  Loose(Visited(w), m, b, c)
    <1> DEFINE n == Head(w.todo)
               v == Visited(w)
    <1>1. /\ n \in 1 .. c /\ \A k \in 1 .. c : m[k] = w.gen => k = n \/ marks[k] = w.gen
          /\ ToSet(w.todo) = ToSet(Tail(w.todo)) \cup {n}
        <2>1. /\ Head(w.todo) \in 1 .. c
              /\ OneMore(w, m, c)
              /\ ToSet(w.todo) = ToSet(Tail(w.todo)) \cup {Head(w.todo)}
            BY LookMarks
        <2> QED
            BY <2>1 DEF OneMore
    <1>2. /\ v \in Working(c) /\ Same(v, w) /\ v.gen = w.gen /\ v.todo = Tail(w.todo)
          /\ marks[n] = w.gen => v.open = w.open /\ v.found = w.found
          /\ marks[n] # w.gen => v.open = NowOpen(w) /\ v.found = NowFound(w)
        BY VisitedIs
    <1>3. /\ ToSet(w.found) = b.found
          /\ b.open \subseteq ToSet(w.open)
          /\ \A k \in b.visited : Settled(w, k, b) \/ Hopeless(w, k)
        BY DEF Loose
    <1>4. Beam(v) = Beam(w) /\ v.ask = w.ask /\ Len(w.found) <= Beam(w)
        BY <1>2, SameBeam DEF Same, Working
    <1>5. /\ w.ask.q \in Points /\ Beam(w) \in Nat \ {0}
          /\ w.found \in Seq(1 .. c) /\ Len(w.found) \in Nat
          /\ w.open \in Seq(1 .. c) /\ Ordered(graph, w.ask.q, w.open)
        BY WorkingIs
    <1> HIDE DEF n, v
    <1>6. v.found = w.found => \A k : Hopeless(w, k) => Hopeless(v, k)
        BY <1>4 DEF Hopeless, Full
    <1>7. \/ v.open = w.open
          \/ Settled(w, n, b) /\ ToSet(v.open) = ToSet(w.open) \cup {n}
        <2>1. CASE marks[n] = w.gen \/ ~Wanted(w)
            BY <1>2, <2>1 DEF NowOpen
        <2>2. CASE marks[n] # w.gen /\ Wanted(w)
            <3>1. v.open = Pushed(w.open, w.ask.q, n)
                BY <1>2, <2>2 DEF NowOpen, n
            <3>2. ToSet(v.open) = ToSet(w.open) \cup {n}
                <4> DEFINE h == w.open
                           q == w.ask.q
                <4>1. h \in Seq(1 .. c) /\ Ordered(graph, q, h) /\ q \in Points
                    BY <1>5
                <4> HIDE DEF h, q
                <4>2. ToSet(Pushed(h, q, n)) = ToSet(h) \cup {n}
                    BY <1>1, <4>1, PushedIs
                <4> QED
                    BY <3>1, <4>2 DEF h, q
            <3>3. ~Hopeless(w, n)
                BY <2>2, <1>4, <1>5 DEF Hopeless, Full, Wanted, n
            <3> QED
                BY <1>3, <3>2, <3>3 DEF n
        <2> QED
            BY <2>1, <2>2
    <1>8. \/ v.found = w.found
          \/ ~Full(w) /\ ToSet(v.found) = b.found
        <2>1. CASE marks[n] = w.gen \/ ~Counts(w)
            BY <1>2, <2>1 DEF NowFound
        <2>2. CASE marks[n] # w.gen /\ Counts(w)
            <3>1. n \in b.found
                <4>1. ~Hopeless(w, n)
                    BY <2>2, <1>4, <1>5 DEF Hopeless, Full, Counts, Wanted, n
                <4>2. Settled(w, n, b)
                    BY <1>3, <4>1 DEF n
                <4> QED
                    BY <2>2, <4>2 DEF Settled, Counts, n
            <3>2. CASE Len(w.found) < Beam(w)
                <4>1. ToSet(v.found) = ToSet(w.found) \cup {n}
                    BY <1>2, <2>2, <3>2, FoundNow DEF n
                <4>2. ~Full(w)
                    BY <1>5, <3>2 DEF Full
                <4> QED
                    BY <1>3, <3>1, <4>1, <4>2
            <3>3. CASE ~(Len(w.found) < Beam(w))
                <4>1. Len(v.found) = Beam(w) /\ Len(w.found) = Beam(w)
                    BY <1>2, <2>2, <3>3, FoundNow
                <4>2. Beam(w) = 1
                    BY <1>4, <1>5, <4>1 DEF Narrow, v
                <4>3. w.found[1] = n /\ Last(w.found) = n
                    <5>1. Len(w.found) = 1
                        BY <4>1, <4>2
                    <5>2. ToSet(w.found) = {w.found[1]}
                        BY <1>5, <5>1 DEF ToSet
                    <5> QED
                        BY <1>3, <3>1, <5>1, <5>2 DEF Last
                <4>4. Nearer(graph, w.ask.q, n, n)
                    BY <2>2, <3>3, <4>3 DEF Counts, Wanted, n
                <4> QED
                    BY <1>1, <1>5, <4>4, NearerIsOrder
            <3> QED
                BY <3>2, <3>3
        <2> QED
            BY <2>1, <2>2
    <1>9. ToSet(v.found) = b.found
        BY <1>3, <1>8
    <1>10. \A k \in b.visited : Settled(w, k, b) \/ Hopeless(v, k)
        BY <1>3, <1>6, <1>8 DEF Hopeless
    <1>11. /\ b.open \subseteq ToSet(v.open) /\ ToSet(v.open) \subseteq ToSet(w.open) \cup {n}
           /\ n \in ToSet(v.open) => n \in ToSet(w.open) \/ n \in b.open \/ Spent(w, n, b)
        BY <1>3, <1>7 DEF Settled
    <1>12. n \in b.visited /\ b.visited = b.visited \cup {n}
        BY DEF n
    <1>13. ToSet(w.todo) \subseteq ToSet(v.todo) \cup {n}
        BY <1>1, <1>2
    <1>14. Loose(v, m, b, c)
        BY <1>1, <1>2, <1>9, <1>10, <1>11, <1>12, <1>13, Carried
    <1> QED
        BY <1>14 DEF v

\* What w finds is what a beam with the same candidates found, as long as no
\* repetition has a place.
LEMMA FoundAlike ==
    ASSUME NEW c \in Nat, graph \in GraphOf(c), NEW w \in Working(c), w.todo # <<>>,
           NEW found, ToSet(w.found) = found, Head(w.todo) \notin found,
           Beam(w) = 1 \/ Len(w.found) < Beam(w)
    PROVE  /\ Wanted(w) <=>
                  \/ Cardinality(found) < Beam(w)
                  \/ Nearer(graph, w.ask.q, Head(w.todo), Farthest(graph, w.ask.q, found))
           /\ Counts(w) =>
                  ToSet(NowFound(w)) = Trimmed(graph, w.ask.q, Beam(w), found \cup {Head(w.todo)})
    <1> DEFINE n == Head(w.todo)
               q == w.ask.q
               h == w.found
               k == Beam(w)
    <1>1. /\ q \in Points /\ k \in Nat \ {0} /\ h \in Seq(1 .. c) /\ Ordered(graph, q, h)
          /\ w.todo \in Seq(1 .. c)
        BY WorkingIs
    <1>2. n \in 1 .. c /\ Len(h) <= k /\ Len(h) \in Nat
        BY <1>1, HeadIs DEF Working
    <1>3. /\ Wanted(w) <=> Len(h) < k \/ Nearer(graph, q, n, Last(h))
          /\ NowFound(w) = IF Counts(w) THEN Cut(Pushed(h, q, n), k) ELSE h
        BY DEF Wanted, NowFound
    <1>4. /\ ToSet(h) = found /\ n \notin found /\ (k = 1 \/ Len(h) < k)
          /\ Counts(w) => Wanted(w)
        BY DEF Counts
    <1> HIDE DEF n, h, q, k
    <1>5. Cardinality(found) \in Nat /\ Cardinality(found) <= Len(h)
        BY <1>1, <1>4, HeapCounts
    <1> DEFINE p == Pushed(h, q, n)
    <1>6. /\ Pushed(h, q, n) \in Seq(1 .. c) /\ Len(Pushed(h, q, n)) = Len(h) + 1
          /\ Ordered(graph, q, Pushed(h, q, n))
          /\ ToSet(Pushed(h, q, n)) = ToSet(h) \cup {n}
          /\ Single(h) /\ n \notin ToSet(h) => Single(Pushed(h, q, n))
        BY <1>1, <1>2, PushedIs
    <1>7. /\ p \in Seq(1 .. c) /\ Ordered(graph, q, p) /\ Len(p) = Len(h) + 1
          /\ ToSet(p) = found \cup {n} /\ (Single(h) => Single(p))
        BY <1>4, <1>6
    <1>8. NowFound(w) = IF Counts(w) THEN Cut(p, k) ELSE h
        BY <1>3
    <1> HIDE DEF p
    <1>9. CASE Len(h) < k
        <2>1. Cardinality(found) < k
            BY <1>1, <1>2, <1>5, <1>9
        <2>2. Len(p) <= k
            BY <1>1, <1>2, <1>7, <1>9
        <2>3. Cut(p, k) = p
            BY <1>1, <1>7, <2>2, CutSmall
        <2>4. Cardinality(ToSet(p)) \in Nat /\ Cardinality(ToSet(p)) <= Len(p)
            BY <1>7, HeapCounts
        <2>5. ~(Cardinality(ToSet(p)) > k)
            BY <1>1, <1>7, <2>2, <2>4
        <2>6. ToSet(Cut(p, k)) = Trimmed(graph, q, k, found \cup {n})
            BY <1>7, <2>3, <2>5 DEF Trimmed
        <2>7. Wanted(w) <=> Cardinality(found) < k \/ Nearer(graph, q, n, Farthest(graph, q, found))
            BY <1>3, <1>9, <2>1
        <2> QED
            BY <1>8, <2>6, <2>7 DEF n, q, k
    <1>10. CASE ~(Len(h) < k)
        <2>1. k = 1 /\ Len(h) = 1
            <3> DEFINE l == Len(h)
            <3>1. l \in Nat /\ l <= k /\ k \in Nat \ {0} /\ ~(l < k)
                BY <1>1, <1>2, <1>10
            <3>2. k = 1
                BY <1>4, <1>10
            <3> HIDE DEF l
            <3>3. l = 1
                BY <3>1, <3>2
            <3> QED
                BY <3>2, <3>3 DEF l
        <2>2. Single(h) /\ h # <<>>
            <3>1. \A i \in 1 .. Len(h) : i = 1
                BY <2>1
            <3>2. \A i, j \in 1 .. Len(h) : i = j
                BY <3>1
            <3>3. Single(h)
                BY <3>2 DEF Single
            <3>4. h # <<>>
                BY <1>1, <2>1
            <3> QED
                BY <3>3, <3>4
        <2>3. Cardinality(found) = Len(h) /\ Last(h) = Farthest(graph, q, found)
            BY <1>1, <1>4, <2>2, HeapIs
        <2>4. ToSet(Cut(p, k)) = Trimmed(graph, q, k, found \cup {n})
            <3>1. k \in Nat /\ Len(p) <= k + 1 /\ Single(p)
                BY <1>7, <2>1, <2>2
            <3>2. ToSet(Cut(p, k)) = Trimmed(graph, q, k, ToSet(p))
                BY <1>1, <1>7, <3>1, TrimIs
            <3> QED
                BY <1>7, <3>2
        <2>5. Wanted(w) <=> Cardinality(found) < k \/ Nearer(graph, q, n, Farthest(graph, q, found))
            BY <1>3, <2>1, <2>3
        <2> QED
            BY <1>8, <2>4, <2>5 DEF n, q, k
    <1> QED
        BY <1>9, <1>10

\* A search goes on to have no place for what it had none for.
LEMMA StaysHopeless ==
    ASSUME NEW c \in Nat, graph \in GraphOf(c), NEW w \in Working(c), w.todo # <<>>,
           Narrow(w), Narrow(Visited(w)), NEW k \in 1 .. c, Hopeless(w, k)
    PROVE  Hopeless(Visited(w), k)
    <1> DEFINE n == Head(w.todo)
               v == Visited(w)
               q == w.ask.q
               h == w.found
    <1>1. /\ v \in Working(c) /\ Same(v, w)
          /\ v.found = w.found \/ (Counts(w) /\ v.found = NowFound(w))
          /\ n \in 1 .. c
        <2>1. /\ Visited(w) \in Working(c) /\ Same(Visited(w), w)
              /\ Visited(w).pc = w.pc /\ Visited(w).gen = w.gen /\ Visited(w).clean = w.clean
              /\ Visited(w).todo = Tail(w.todo)
              /\ Head(w.todo) \in 1 .. c
              /\ marks[Head(w.todo)] = w.gen =>
                     Visited(w).open = w.open /\ Visited(w).found = w.found
              /\ marks[Head(w.todo)] # w.gen =>
                     Visited(w).open = NowOpen(w) /\ Visited(w).found = NowFound(w)
            BY VisitedIs
        <2> QED
            BY <2>1 DEF NowFound
    <1>2. Beam(v) = Beam(w) /\ v.ask = w.ask
        BY <1>1, SameBeam DEF Same
    <1>3. /\ q \in Points /\ Beam(w) \in Nat \ {0} /\ h \in Seq(1 .. c) /\ Len(h) \in Nat
        BY WorkingIs
    <1>4. h # <<>> /\ Len(h) >= Beam(w) /\ ~Nearer(graph, q, k, Last(h))
        BY DEF Hopeless, Full
    <1>5. CASE v.found = h
        BY <1>2, <1>4, <1>5 DEF Hopeless, Full
    <1>6. CASE Counts(w) /\ v.found = NowFound(w)
        <2>1. ~(Len(h) < Beam(w))
            BY <1>3, <1>4
        <2>2. Beam(w) = 1
            BY <2>1 DEF Narrow
        <2>3. v.found = <<n>>
            <3>1. NowFound(w) = <<Head(w.todo)>>
                BY <1>6, <2>1, <2>2, FoundNow
            <3> QED
                BY <1>6, <3>1
        <2>4. Nearer(graph, q, n, Last(h))
            BY <1>6, <2>1 DEF Counts, Wanted
        <2> HIDE DEF n, v, q, h
        <2>5. v.found # <<>> /\ Len(v.found) = 1 /\ Last(v.found) = n
            BY <2>3 DEF Last
        <2>6. Last(h) \in 1 .. c
            BY <1>3, <1>4 DEF Last
        <2>7. ~Nearer(graph, q, k, n)
            <3>1. /\ Dist(q, graph.nodes[n].at) \in Nat /\ Dist(q, graph.nodes[k].at) \in Nat
                  /\ Dist(q, graph.nodes[Last(h)].at) \in Nat
                BY <1>1, <1>3, <2>6, NearerIsOrder
            <3> QED
                BY <1>4, <2>4, <3>1 DEF Nearer
        <2> QED
            BY <1>2, <2>2, <2>5, <2>7 DEF Hopeless, Full, q, v
    <1> QED
        BY <1>1, <1>5, <1>6

\* How Visited relates to what w was.
LEMMA LookIs ==
    ASSUME NEW c \in Nat, graph \in GraphOf(c), NEW w \in Working(c), w.todo # <<>>
    PROVE  /\ Visited(w) \in Working(c) /\ Same(Visited(w), w) /\ Visited(w).gen = w.gen
           /\ Visited(w).todo = Tail(w.todo) /\ Head(w.todo) \in 1 .. c
           /\ Wanted(w) => ToSet(NowOpen(w)) = ToSet(w.open) \cup {Head(w.todo)}
           /\ ~Wanted(w) => NowOpen(w) = w.open
           /\ Len(w.found) <= Len(Visited(w).found)
           /\ Narrow(Visited(w)) => Narrow(w)
    <1> DEFINE n == Head(w.todo)
               v == Visited(w)
               q == w.ask.q
               h == w.open
    <1>1. /\ Visited(w) \in Working(c) /\ Same(Visited(w), w)
          /\ Visited(w).pc = w.pc /\ Visited(w).gen = w.gen /\ Visited(w).clean = w.clean
          /\ Visited(w).todo = Tail(w.todo)
          /\ Head(w.todo) \in 1 .. c
          /\ marks[Head(w.todo)] = w.gen =>
                 Visited(w).open = w.open /\ Visited(w).found = w.found
          /\ marks[Head(w.todo)] # w.gen =>
                 Visited(w).open = NowOpen(w) /\ Visited(w).found = NowFound(w)
        BY VisitedIs
    <1>2. /\ q \in Points /\ Beam(w) \in Nat \ {0}
          /\ h \in Seq(1 .. c) /\ Ordered(graph, q, h)
          /\ w.found \in Seq(1 .. c) /\ Len(w.found) \in Nat
        BY WorkingIs
    <1>3. Beam(v) = Beam(w)
        BY <1>1, SameBeam
    <1>4. NowOpen(w) = IF Wanted(w) THEN Pushed(h, q, n) ELSE h
        BY DEF NowOpen
    <1>51. n \in 1 .. c
        BY <1>1
    <1> HIDE DEF n, v, q, h
    <1>5. ToSet(Pushed(h, q, n)) = ToSet(h) \cup {n}
        BY <1>2, <1>51, PushedIs
    <1>6. Len(w.found) <= Len(v.found)
        <2>1. CASE v.found = w.found
            BY <1>2, <2>1
        <2>2. CASE Counts(w) /\ v.found = NowFound(w)
            <3>1. CASE Len(w.found) < Beam(w)
                <4>1. Len(NowFound(w)) = Len(w.found) + 1
                    BY <2>2, <3>1, FoundNow
                <4> QED
                    BY <1>2, <2>2, <4>1
            <3>2. CASE ~(Len(w.found) < Beam(w))
                <4>1. Len(NowFound(w)) = Beam(w) /\ Len(w.found) = Beam(w)
                    BY <2>2, <3>2, FoundNow
                <4> QED
                    BY <1>2, <2>2, <4>1
            <3> QED
                BY <3>1, <3>2
        <2>3. v.found = w.found \/ (Counts(w) /\ v.found = NowFound(w))
            BY <1>1 DEF v, NowFound
        <2> QED
            BY <2>1, <2>2, <2>3
    <1>7. Narrow(v) => Narrow(w)
        <2>1. Len(v.found) \in Nat
            BY <1>1, WorkingIs DEF v
        <2> QED
            BY <1>2, <1>3, <1>6, <2>1 DEF Narrow
    <1> QED
        BY <1>1, <1>4, <1>5, <1>6, <1>7 DEF n, v, h

\* A neighbour that the beam has not visited: w does what the beam does.
LEMMA LookNew ==
    ASSUME NEW c \in Nat, graph \in GraphOf(c), NEW w \in Working(c), w.todo # <<>>,
           NEW m, marks \in Seq(Nat), c <= Len(marks), m = [marks EXCEPT ![Head(w.todo)] = w.gen],
           NEW b \in Beams(graph, 1 .. c, AllowedNow(w)), Sound(b),
           Loose(w, marks, b, c), Narrow(Visited(w)), Head(w.todo) \notin b.visited
    PROVE  Loose(Visited(w), m, Examine(graph, w.ask.q, Beam(w), AllowedNow(w), b, Head(w.todo)), c)
    <1> DEFINE n == Head(w.todo)
               v == Visited(w)
               q == w.ask.q
               k == Beam(w)
               allowed == AllowedNow(w)
               d == Examine(graph, q, k, allowed, b, n)
    <1>1. /\ n \in 1 .. c /\ \A i \in 1 .. c : m[i] = w.gen => i = n \/ marks[i] = w.gen
          /\ ToSet(w.todo) = ToSet(Tail(w.todo)) \cup {n}
        <2>1. /\ Head(w.todo) \in 1 .. c
              /\ OneMore(w, m, c)
              /\ ToSet(w.todo) = ToSet(Tail(w.todo)) \cup {Head(w.todo)}
            BY LookMarks
        <2> QED
            BY <2>1 DEF OneMore
    <1>2. /\ v \in Working(c) /\ Same(v, w) /\ v.gen = w.gen /\ v.todo = Tail(w.todo)
          /\ Wanted(w) => ToSet(NowOpen(w)) = ToSet(w.open) \cup {n}
          /\ ~Wanted(w) => NowOpen(w) = w.open
          /\ Narrow(w)
        BY LookIs
    <1>3. /\ ToSet(w.found) = b.found /\ b.open \subseteq ToSet(w.open)
          /\ \A i \in 1 .. c : marks[i] = w.gen => i \in b.visited
          /\ \A i \in b.visited : Settled(w, i, b) \/ Hopeless(w, i)
        BY DEF Loose
    <1>4. b.found \subseteq b.visited /\ b.visited \subseteq 1 .. c
        BY DEF Sound, Beams
    <1>5. v.open = NowOpen(w) /\ v.found = NowFound(w)
        <2>1. marks[Head(w.todo)] # w.gen
            BY <1>1, <1>3
        <2> QED
            BY <2>1, VisitedIs
    <1>6. /\ Wanted(w) <=> Cardinality(b.found) < k \/ Nearer(graph, q, n, Farthest(graph, q, b.found))
          /\ Counts(w) => ToSet(NowFound(w)) = Trimmed(graph, q, k, b.found \cup {n})
        <2>1. Head(w.todo) \notin b.found /\ (Beam(w) = 1 \/ Len(w.found) < Beam(w))
            BY <1>2, <1>4 DEF Narrow
        <2> QED
            BY <1>3, <2>1, FoundAlike
    <1>7. /\ d.visited = b.visited \cup {n} /\ b.open \subseteq d.open
          /\ IF Wanted(w)
             THEN /\ d.open = b.open \cup {n}
                  /\ d.found = IF Accepts(graph, n, allowed)
                               THEN Trimmed(graph, q, k, b.found \cup {n}) ELSE b.found
             ELSE d.open = b.open /\ d.found = b.found
        <2> DEFINE near == Cardinality(b.found) < k \/ Nearer(graph, q, n, Farthest(graph, q, b.found))
        <2>1. b \in Beams(graph, 1 .. c, allowed) /\ n \notin b.visited /\ n \in 1 .. c
            BY <1>1
        <2>2. near <=> Wanted(w)
            BY <1>6
        <2> HIDE DEF q, k, allowed, n, d
        <2>3. Adds(graph, q, k, allowed, b, n, Examine(graph, q, k, allowed, b, n))
            BY ONLY <2>1, ExamineAdds
        <2>4. Adds(graph, q, k, allowed, b, n, d)
            BY <2>3 DEF d
        <2> QED
            BY <2>1, <2>2, <2>4 DEF Adds
    <1>8. /\ k \in Nat \ {0} /\ w.found \in Seq(1 .. c) /\ Len(w.found) \in Nat /\ q \in Points
          /\ Len(w.found) <= k
        BY WorkingIs DEF Working
    <1>9. Beam(v) = k /\ AllowedNow(v) = allowed /\ v.ask.q = q
        BY <1>2, SameBeam DEF Same
    <1>10. /\ Counts(w) <=> Wanted(w) /\ Accepts(graph, n, allowed)
           /\ ~Counts(w) => NowFound(w) = w.found
           /\ Wanted(w) <=> Len(w.found) < k \/ Nearer(graph, q, n, Last(w.found))
        BY DEF Counts, NowFound, Wanted
    <1>11. /\ Counts(w) /\ Len(w.found) < k => ToSet(NowFound(w)) = b.found \cup {n}
           /\ Counts(w) /\ ~(Len(w.found) < k) => k = 1 /\ NowFound(w) = <<n>>
        <2>1. ASSUME Counts(w), Len(w.found) < k
              PROVE  ToSet(NowFound(w)) = b.found \cup {n}
            BY <1>3, <2>1, FoundNow
        <2>2. ASSUME Counts(w), ~(Len(w.found) < k)
              PROVE  k = 1 /\ NowFound(w) = <<n>>
            <3>1. Beam(w) = 1
                BY <1>2, <2>2 DEF Narrow
            <3> QED
                BY <2>2, <3>1, FoundNow
        <2> QED
            BY <2>1, <2>2
    <1>12. \A i \in 1 .. c : Hopeless(w, i) => Hopeless(v, i)
        BY <1>2, StaysHopeless
    <1>13. ToSet(<<n>>) = {n} /\ Last(<<n>>) = n /\ Len(<<n>>) = 1 /\ <<n>> # <<>>
        <2> HIDE DEF n
        <2>1. ToSet(<<n>>) = {n}
            BY <1>1, OneIsHeap
        <2> QED
            BY <2>1 DEF Last
    <1>14. n \notin b.visited
        OBVIOUS
    <1> HIDE DEF n, v, q, k, allowed, d
    <1>15. ToSet(v.found) = d.found
        BY <1>3, <1>5, <1>6, <1>7, <1>10
    <1>16. /\ d.open \subseteq ToSet(v.open) /\ ToSet(v.open) \subseteq ToSet(w.open) \cup {n}
           /\ n \in ToSet(v.open) => n \in ToSet(w.open) \/ n \in d.open
        BY <1>2, <1>3, <1>5, <1>7
    <1>17. ASSUME NEW i \in b.visited
           PROVE  \/ Settled(w, i, b) /\ (i \in b.found => i \in d.found)
                  \/ Hopeless(v, i)
        <2>1. CASE Hopeless(w, i)
            BY <1>4, <1>12, <2>1
        <2>2. CASE i \in b.found /\ i \notin d.found
            <3>1. Counts(w) /\ ~(Len(w.found) < k)
                BY <1>3, <1>5, <1>10, <1>11, <1>15, <2>2
            <3>2. k = 1 /\ v.found = <<n>> /\ Nearer(graph, q, n, Last(w.found))
                BY <1>5, <1>10, <1>11, <3>1
            <3>3. Last(w.found) = i
                <4>1. Len(w.found) = 1
                    <5> DEFINE l == Len(w.found)
                    <5>1. l \in Nat /\ l <= k /\ k \in Nat /\ ~(l < k)
                        BY <1>8, <3>1
                    <5>2. k = 1
                        BY <3>2
                    <5> HIDE DEF l
                    <5>3. l = 1
                        BY <5>1, <5>2
                    <5> QED
                        BY <5>3 DEF l
                <4>2. ToSet(w.found) = {w.found[1]}
                    BY <1>8, <4>1 DEF ToSet
                <4> QED
                    BY <1>3, <2>2, <4>1, <4>2 DEF Last
            <3>4. ~Nearer(graph, q, i, n)
                BY <1>1, <1>4, <1>8, <3>2, <3>3, NearerIsOrder
            <3> QED
                BY <1>9, <1>13, <3>2, <3>4 DEF Hopeless, Full
        <2> QED
            BY <1>3, <2>1, <2>2
    <1>18. Settled(v, n, d) \/ Hopeless(v, n)
        <2>1. CASE Wanted(w)
            <3>1. n \in d.open
                BY <1>7, <2>1
            <3>2. Accepts(graph, n, allowed) => n \in d.found
                BY <1>5, <1>10, <1>11, <1>13, <1>15, <2>1
            <3> QED
                BY <1>9, <3>1, <3>2 DEF Settled
        <2>2. CASE ~Wanted(w)
            <3>1. v.found = w.found
                BY <1>5, <1>10, <2>2
            <3>2. Len(w.found) >= k /\ ~Nearer(graph, q, n, Last(w.found))
                BY <1>8, <1>10, <2>2
            <3>3. w.found # <<>>
                BY <1>8, <3>2
            <3> QED
                BY <1>9, <3>1, <3>2, <3>3 DEF Hopeless, Full
        <2> QED
            BY <2>1, <2>2
    <1>19. ToSet(w.todo) \subseteq ToSet(v.todo) \cup {n}
        BY <1>1, <1>2
    <1>20. Loose(v, m, d, c)
        BY <1>1, <1>2, <1>7, <1>14, <1>15, <1>16, <1>17, <1>18, <1>19, Carried
    <1> QED
        BY <1>20 DEF n, v, q, k, allowed, d

\* A look at a neighbour is what it is for the beam, new or not.
LEMMA LooseLook ==
    ASSUME NEW c \in Nat, graph \in GraphOf(c), NEW w \in Working(c), w.todo # <<>>,
           NEW m, marks \in Seq(Nat), c <= Len(marks), m = [marks EXCEPT ![Head(w.todo)] = w.gen],
           NEW b \in Beams(graph, 1 .. c, AllowedNow(w)), Sound(b),
           Loose(w, marks, b, c), Narrow(Visited(w))
    PROVE  Loose(Visited(w), m, Examine(graph, w.ask.q, Beam(w), AllowedNow(w), b, Head(w.todo)), c)
    <1>1. CASE Head(w.todo) \in b.visited
        <2>1. Examine(graph, w.ask.q, Beam(w), AllowedNow(w), b, Head(w.todo)) = b
            BY <1>1 DEF Examine
        <2>2. Loose(Visited(w), m, b, c)
            BY <1>1, LookAgain
        <2> QED
            BY <2>1, <2>2
    <1>2. CASE Head(w.todo) \notin b.visited
        BY <1>2, LookNew
    <1> QED
        BY <1>1, <1>2

\* What a round is made of.
LEMMA RoundIs ==
    ASSUME NEW c \in Nat, graph \in GraphOf(c), NEW w \in Working(c), NEW i \in 0 .. c
    PROVE  /\ RoundsOf(w)[i] \in Beams(graph, 1 .. c, AllowedNow(w)) /\ Sound(RoundsOf(w)[i])
           /\ ~Ends(w, i) =>
                  /\ i + 1 \in 0 .. c /\ RoundsOf(w)[i].open # {}
                  /\ WayOf(w, i) \in Seq(1 .. c)
                  /\ LooksOf(w, i)[1 .. 0] = Rest(graph, w.ask.q, RoundsOf(w)[i])
                  /\ \A j \in 0 .. Len(WayOf(w, i)) :
                         /\ LooksOf(w, i)[1 .. j] \in Beams(graph, 1 .. c, AllowedNow(w))
                         /\ Sound(LooksOf(w, i)[1 .. j])
                  /\ \A j \in 0 .. Len(WayOf(w, i)) :
                         j + 1 \in 1 .. Len(WayOf(w, i)) =>
                             LooksOf(w, i)[1 .. j + 1] =
                                 Examine(graph, w.ask.q, Beam(w), AllowedNow(w),
                                         LooksOf(w, i)[1 .. j], WayOf(w, i)[j + 1])
                  /\ RoundsOf(w)[i + 1] = LooksOf(w, i)[1 .. Len(WayOf(w, i))]
    <1> DEFINE q == w.ask.q
               b == RoundsOf(w)[i]
               look == LooksOf(w, i)
               way == WayOf(w, i)
    <1>1. b \in Beams(graph, 1 .. c, AllowedNow(w)) /\ Sound(b)
        BY WorkingCourse DEF CourseOf, Course
    <1>2. ASSUME ~Ends(w, i)
          PROVE  /\ i + 1 \in 0 .. c /\ b.open # {}
                 /\ RoundsOf(w)[i + 1] = Expand(graph, q, Beam(w), w.layer, AllowedNow(w), b)
                 /\ Leads(look, graph, q, Beam(w), w.layer, AllowedNow(w), b, c)
        BY <1>2, WorkingCourse DEF CourseOf, Course, Ends, LooksOf
    <1>3. Way(graph, q, w.layer, b) = way
        BY DEF WayOf
    <1> HIDE DEF b, look, way
    <1>4. ASSUME ~Ends(w, i)
          PROVE  /\ way \in Seq(1 .. c)
                 /\ look[1 .. 0] = Rest(graph, q, b)
                 /\ \A k \in 1 .. Len(way) :
                        look[1 .. k] =
                            Examine(graph, q, Beam(w), AllowedNow(w), look[1 .. k - 1], way[k])
                 /\ \A k \in 0 .. Len(way) :
                        look[1 .. k] \in Beams(graph, 1 .. c, AllowedNow(w)) /\ Sound(look[1 .. k])
                 /\ Expand(graph, q, Beam(w), w.layer, AllowedNow(w), b) = look[1 .. Len(way)]
        BY <1>2, <1>3, <1>4 DEF Leads
    <1>5. ASSUME ~Ends(w, i), NEW j \in 0 .. Len(way), j + 1 \in 1 .. Len(way)
          PROVE  look[1 .. j + 1] =
                     Examine(graph, q, Beam(w), AllowedNow(w), look[1 .. j], way[j + 1])
        <2>1. (j + 1) - 1 = j
            OBVIOUS
        <2> QED
            BY <1>4, <1>5, <2>1
    <1> QED
        BY <1>1, <1>2, <1>4, <1>5 DEF b, look, way

\* A look leaves a search on the trail.
LEMMA StrayLook ==
    ASSUME NEW c \in Nat, graph \in GraphOf(c), NEW w \in Working(c), w.todo # <<>>,
           NEW m, marks \in Seq(Nat), c <= Len(marks), m = [marks EXCEPT ![Head(w.todo)] = w.gen],
           Trail(w, marks, c), Narrow(Visited(w))
    PROVE  Trail(Visited(w), m, c)
    <1> DEFINE v == Visited(w)
    <1>1. Same(v, w) /\ v.todo = Tail(w.todo)
        BY LookIs
    <1>2. /\ RoundsOf(v) = RoundsOf(w)
          /\ \A i : WayOf(v, i) = WayOf(w, i) /\ LooksOf(v, i) = LooksOf(w, i)
          /\ \A i : Ends(v, i) <=> Ends(w, i)
        BY <1>1, SameRounds
    <1> SUFFICES ASSUME NEW i \in 0 .. c, Fresh(w, marks, c, i) \/ Again(w, marks, c, i)
                 PROVE  Trail(v, m, c)
        BY DEF Trail
    <1>3. CASE Fresh(w, marks, c, i)
        <2> DEFINE way == WayOf(w, i)
                   look == LooksOf(w, i)
        <2>1. ~Ends(w, i)
            BY <1>3 DEF Fresh
        <2>2. PICK j \in 0 .. Len(way) :
                  /\ Loose(w, marks, look[1 .. j], c)
                  /\ w.todo = SubSeq(way, j + 1, Len(way))
            BY <1>3 DEF Fresh
        <2>3. /\ way \in Seq(1 .. c)
              /\ look[1 .. j] \in Beams(graph, 1 .. c, AllowedNow(w)) /\ Sound(look[1 .. j])
              /\ j + 1 \in 1 .. Len(way) =>
                     look[1 .. j + 1] =
                         Examine(graph, w.ask.q, Beam(w), AllowedNow(w), look[1 .. j], way[j + 1])
            BY <2>1, RoundIs
        <2> HIDE DEF way, look, v
        <2>4. /\ j + 1 \in 1 .. Len(way) /\ Head(w.todo) = way[j + 1]
              /\ Tail(w.todo) = SubSeq(way, (j + 1) + 1, Len(way))
            <3> DEFINE t == w.todo
            <3>1. t = SubSeq(way, j + 1, Len(way)) /\ t # <<>>
                BY <2>2
            <3> HIDE DEF t
            <3>2. /\ j + 1 \in 1 .. Len(way) /\ Head(t) = way[j + 1]
                  /\ Tail(t) = SubSeq(way, (j + 1) + 1, Len(way))
                BY <2>2, <2>3, <3>1, Remainder
            <3> QED
                BY <3>2 DEF t
        <2>5. Loose(v, m, look[1 .. j + 1], c)
            <3> DEFINE b == look[1 .. j]
            <3>1. b \in Beams(graph, 1 .. c, AllowedNow(w)) /\ Sound(b) /\ Loose(w, marks, b, c)
                BY <2>2, <2>3
            <3> HIDE DEF b
            <3>2. Loose(v, m, Examine(graph, w.ask.q, Beam(w), AllowedNow(w), b, Head(w.todo)), c)
                BY <3>1, LooseLook DEF v
            <3> QED
                BY <2>3, <2>4, <3>2 DEF b
        <2>6. j + 1 \in 0 .. Len(way)
            BY <2>4
        <2>7. /\ ~Ends(v, i) /\ WayOf(v, i) = way /\ LooksOf(v, i) = look
            BY <1>2, <2>1 DEF way, look
        <2>8. v.todo = SubSeq(way, (j + 1) + 1, Len(way))
            BY <1>1, <2>4 DEF v
        <2>9. Fresh(v, m, c, i)
            BY <2>5, <2>6, <2>7, <2>8 DEF Fresh
        <2> QED
            BY <2>9 DEF Trail
    <1>4. CASE Again(w, marks, c, i)
        <2> DEFINE b == RoundsOf(w)[i]
        <2>1. b \in Beams(graph, 1 .. c, AllowedNow(w)) /\ Sound(b)
            BY RoundIs
        <2>2. Loose(w, marks, b, c) /\ ToSet(w.todo) \subseteq b.visited
            BY <1>4 DEF Again
        <2>3. ToSet(w.todo) = ToSet(Tail(w.todo)) \cup {Head(w.todo)}
            BY LookMarks
        <2> HIDE DEF b
        <2>4. Loose(v, m, b, c)
            BY <2>1, <2>2, <2>3, LookAgain
        <2>5. ToSet(v.todo) \subseteq b.visited
            BY <1>1, <2>2, <2>3
        <2>6. RoundsOf(v)[i] = b
            BY <1>2 DEF b
        <2>7. Again(v, m, c, i)
            BY <2>4, <2>5, <2>6 DEF Again
        <2> QED
            BY <2>7 DEF Trail
    <1> QED
        BY <1>3, <1>4

\* When w has seen all neighbours, it has seen at least what a round has.
LEMMA AtEnd ==
    ASSUME NEW c \in Nat, graph \in GraphOf(c), NEW w \in Working(c), w.todo = <<>>,
           NEW m, Trail(w, m, c)
    PROVE  \E i \in 0 .. c : Loose(w, m, RoundsOf(w)[i], c)
    <1> SUFFICES ASSUME NEW i \in 0 .. c, Fresh(w, m, c, i)
                 PROVE  \E k \in 0 .. c : Loose(w, m, RoundsOf(w)[k], c)
        BY DEF Trail, Again
    <1> DEFINE way == WayOf(w, i)
               look == LooksOf(w, i)
    <1>1. ~Ends(w, i)
        BY DEF Fresh
    <1>2. PICK j \in 0 .. Len(way) :
              /\ Loose(w, m, look[1 .. j], c)
              /\ w.todo = SubSeq(way, j + 1, Len(way))
        BY DEF Fresh
    <1>3. /\ way \in Seq(1 .. c) /\ i + 1 \in 0 .. c
          /\ RoundsOf(w)[i + 1] = look[1 .. Len(way)]
        BY <1>1, RoundIs
    <1> HIDE DEF way, look
    <1>4. j = Len(way)
        <2> DEFINE t == w.todo
        <2>1. t = SubSeq(way, j + 1, Len(way)) /\ t = <<>>
            BY <1>2
        <2> HIDE DEF t
        <2> QED
            BY <1>2, <1>3, <2>1, Remainder
    <1> QED
        BY <1>2, <1>3, <1>4

\* What comes after the nearest candidate.
LEMMA HeadFirst ==
    ASSUME NEW c \in Nat, graph \in GraphOf(c), NEW q \in Points, NEW heap \in Seq(1 .. c),
           Ordered(graph, q, heap), heap # <<>>
    PROVE  /\ Head(heap) \in 1 .. c /\ ToSet(heap) \subseteq 1 .. c
           /\ ToSet(heap) = ToSet(Tail(heap)) \cup {Head(heap)}
           /\ \A n \in ToSet(heap) : n = Head(heap) \/ Nearer(graph, q, Head(heap), n)
    <1> DEFINE l == Len(heap)
    <1>1. /\ l \in Nat /\ l >= 1 /\ DOMAIN heap = 1 .. l /\ Head(heap) = heap[1]
          /\ \A i \in 1 .. l : heap[i] \in 1 .. c
        OBVIOUS
    <1>2. \A i \in 1 .. l : i = 1 \/ 1 < i
        BY <1>1
    <1>3. 1 \in 1 .. l
        BY <1>1
    <1>4. \A i, j \in 1 .. l : i < j => ~Nearer(graph, q, heap[j], heap[i])
        BY DEF Ordered
    <1> HIDE DEF l
    <1>5. ToSet(heap) = ToSet(Tail(heap)) \cup {Head(heap)}
        BY ListHas
    <1>6. \A i \in 1 .. l : heap[i] = Head(heap) \/ Nearer(graph, q, Head(heap), heap[i])
        <2> SUFFICES ASSUME NEW i \in 1 .. l, i # 1
                     PROVE  heap[i] = heap[1] \/ Nearer(graph, q, heap[1], heap[i])
            BY <1>1
        <2>1. ~Nearer(graph, q, heap[i], heap[1])
            BY <1>2, <1>3, <1>4
        <2>2. heap[i] \in 1 .. c /\ heap[1] \in 1 .. c
            BY <1>1, <1>3
        <2> QED
            BY <2>1, <2>2, NearerIsOrder
    <1> QED
        BY <1>1, <1>3, <1>5, <1>6 DEF ToSet

\* When nothing is left for w that could improve it, nothing is left for the beam.
LEMMA StrayEnds ==
    ASSUME NEW c \in Nat, graph \in GraphOf(c), NEW w \in Working(c),
           NEW m, NEW i \in 0 .. c, Loose(w, m, RoundsOf(w)[i], c), Narrow(w), LayerDone(w)
    PROVE  Ends(w, i)
    <1> DEFINE b == RoundsOf(w)[i]
               q == w.ask.q
               h == w.found
    <1>1. b \in Beams(graph, 1 .. c, AllowedNow(w))
        BY RoundIs
    <1>2. /\ q \in Points /\ Beam(w) \in Nat \ {0} /\ h \in Seq(1 .. c) /\ Len(h) \in Nat
          /\ Ordered(graph, q, h) /\ Len(h) <= Beam(w)
          /\ w.open \in Seq(1 .. c) /\ Ordered(graph, q, w.open)
        BY WorkingIs DEF Working
    <1>3. ToSet(h) = b.found /\ b.open \subseteq ToSet(w.open)
        BY DEF Loose
    <1>4. LayerDone(w) <=> (w.open # <<>> => Full(w) /\ Nearer(graph, q, Last(h), Head(w.open)))
        BY DEF LayerDone
    <1>5. Ends(w, i) <=> Finished(graph, q, Beam(w), b)
        BY DEF Ends
    <1>6. Full(w) <=> h # <<>> /\ Len(h) >= Beam(w)
        BY DEF Full
    <1> SUFFICES ASSUME b.open # {} PROVE Finished(graph, q, Beam(w), b)
        BY <1>5 DEF Finished
    <1> HIDE DEF b, q, h
    <1>7. w.open # <<>>
        BY <1>3 DEF ToSet
    <1>8. Full(w) /\ Nearer(graph, q, Last(h), Head(w.open))
        BY <1>4, <1>7
    <1>9. Beam(w) = 1 /\ Len(h) = 1
        <2> DEFINE l == Len(h)
        <2>1. l \in Nat /\ l <= Beam(w) /\ Beam(w) \in Nat /\ ~(l < Beam(w))
            BY <1>2, <1>6, <1>8
        <2>2. Beam(w) = 1
            BY <2>1 DEF Narrow, h
        <2> HIDE DEF l
        <2>3. l = 1
            BY <2>1, <2>2
        <2> QED
            BY <2>2, <2>3 DEF l
    <1>10. Cardinality(b.found) = 1 /\ Last(h) = Farthest(graph, q, b.found) /\ b.found # {}
        <2>1. \A j, k \in 1 .. Len(h) : j = k
            <3>1. \A j \in 1 .. Len(h) : j = 1
                BY <1>9
            <3> QED
                BY <3>1
        <2>2. Single(h)
            BY <2>1 DEF Single
        <2>3. h # <<>>
            BY <1>6, <1>8
        <2> QED
            BY <1>2, <1>3, <1>9, <2>2, <2>3, HeapIs
    <1>11. Nearest(graph, q, b.open) \in b.open
        <2>1. b.open \in SUBSET (1 .. c)
            BY <1>1 DEF Beams
        <2> QED
            BY <1>2, <2>1, NearestIn
    <1>12. Nearer(graph, q, Last(h), Nearest(graph, q, b.open))
        <2> DEFINE n == Nearest(graph, q, b.open)
        <2>1. n \in ToSet(w.open)
            BY <1>3, <1>11
        <2> HIDE DEF n
        <2>2. /\ Head(w.open) \in 1 .. c /\ ToSet(w.open) \subseteq 1 .. c
              /\ n = Head(w.open) \/ Nearer(graph, q, Head(w.open), n)
            BY <1>2, <1>7, <2>1, HeadFirst
        <2>3. Last(h) \in 1 .. c
            <3>1. h # <<>>
                BY <1>6, <1>8
            <3> QED
                BY <1>2, <3>1, HeapIs
        <2>4. /\ Dist(q, graph.nodes[n].at) \in Nat
              /\ Dist(q, graph.nodes[Head(w.open)].at) \in Nat
              /\ Dist(q, graph.nodes[Last(h)].at) \in Nat
            BY <1>2, <2>1, <2>2, <2>3, NearerIsOrder
        <2>5. Nearer(graph, q, Last(h), n)
            BY <1>8, <2>2, <2>4 DEF Nearer
        <2> QED
            BY <2>5 DEF n
    <1> QED
        BY <1>9, <1>10, <1>12 DEF Finished

\* Without the candidate that is taken next, w has what the beam has without it.
LEMMA LooseTaken ==
    ASSUME NEW c \in Nat, graph \in GraphOf(c), NEW w \in Working(c), w.todo = <<>>,
           w.open # <<>>, NEW m, NEW b \in Beams(graph, 1 .. c, AllowedNow(w)), Loose(w, m, b, c)
    PROVE  /\ Loose(Taken(w), m, [b EXCEPT !.open = @ \ {Head(w.open)}], c)
           /\ Head(w.open) \notin b.open => ToSet(Lane(w, Head(w.open))) \subseteq b.visited
    <1> DEFINE n == Head(w.open)
               t == Taken(w)
               r == [b EXCEPT !.open = @ \ {n}]
               h == w.open
    <1>1. /\ t \in Working(c) /\ Same(t, w) /\ t.gen = w.gen
          /\ t.open = Tail(h) /\ t.found = w.found /\ t.todo = Lane(w, n)
        BY TakenLane
    <1>2. /\ w.ask.q \in Points /\ h \in Seq(1 .. c) /\ Ordered(graph, w.ask.q, h) /\ h # <<>>
        BY WorkingIs
    <1>3. ToSet(h) = ToSet(Tail(h)) \cup {Head(h)}
        <2> HIDE DEF n, t, r, h
        <2> QED
            BY <1>2, HeadFirst
    <1>4. r.visited = b.visited /\ r.open = b.open \ {n} /\ r.found = b.found
        BY DEF Beams
    <1>5. /\ ToSet(w.found) = b.found
          /\ b.open \subseteq ToSet(h) /\ ToSet(h) \subseteq b.visited
          /\ \A k \in 1 .. c : m[k] = w.gen => k \in b.visited
          /\ \A k \in ToSet(h) : k \in b.open \/ Spent(w, k, b)
          /\ \A k \in b.visited : Settled(w, k, b) \/ Hopeless(w, k)
        BY DEF Loose
    <1>6. /\ AllowedNow(t) = AllowedNow(w) /\ Beam(t) = Beam(w) /\ t.ask = w.ask
          /\ \A k : Lane(t, k) = Lane(w, k)
        BY <1>1, SameBeam, SameLane DEF Same
    <1>7. ToSet(w.todo) = {}
        BY DEF ToSet
    <1>8. Head(h) = n
        OBVIOUS
    <1> HIDE DEF n, t, r, h
    <1>9. \A k : Spent(w, k, b) => Spent(t, k, r)
        BY <1>4, <1>6, <1>7 DEF Spent
    <1>10. Spent(t, n, r)
        BY <1>1, <1>6 DEF Spent
    <1>11. \A k : Settled(w, k, b) => Settled(t, k, r)
        <2> SUFFICES ASSUME NEW k, Settled(w, k, b) PROVE Settled(t, k, r)
            OBVIOUS
        <2>1. k \in b.open => k = n \/ k \in r.open
            BY <1>4
        <2>2. k \in r.open \/ Spent(t, k, r)
            BY <1>9, <1>10, <2>1 DEF Settled
        <2> QED
            BY <1>4, <1>6, <2>2 DEF Settled
    <1>12. \A k : Hopeless(w, k) => Hopeless(t, k)
        BY <1>1, <1>6 DEF Hopeless, Full
    <1>13. /\ ToSet(t.found) = r.found
           /\ r.open \subseteq ToSet(t.open) /\ ToSet(t.open) \subseteq r.visited
        BY <1>1, <1>3, <1>4, <1>5, <1>8
    <1>14. \A k \in ToSet(t.open) : k \in r.open \/ Spent(t, k, r)
        <2> SUFFICES ASSUME NEW k \in ToSet(t.open) PROVE k \in r.open \/ Spent(t, k, r)
            OBVIOUS
        <2>1. k \in ToSet(h)
            BY <1>1, <1>3
        <2>2. k \in b.open => k = n \/ k \in r.open
            BY <1>4
        <2> QED
            BY <1>5, <1>9, <1>10, <2>1, <2>2
    <1>15. Loose(t, m, r, c)
        BY <1>1, <1>4, <1>5, <1>11, <1>12, <1>13, <1>14 DEF Loose
    <1>16. n \notin b.open => ToSet(Lane(w, n)) \subseteq b.visited
        BY <1>3, <1>5, <1>7, <1>8 DEF Spent
    <1> QED
        BY <1>15, <1>16 DEF n, t, r, h

\* The next candidate is that of the round, or one again.
LEMMA StrayNext ==
    ASSUME NEW c \in Nat, graph \in GraphOf(c), NEW w \in Working(c), w.todo = <<>>,
           ~LayerDone(w), NEW m, NEW i \in 0 .. c, Loose(w, m, RoundsOf(w)[i], c)
    PROVE  Trail(Taken(w), m, c)
    <1> DEFINE b == RoundsOf(w)[i]
               q == w.ask.q
               h == w.open
               f == w.found
               n == Head(w.open)
               t == Taken(w)
    <1>1. b \in Beams(graph, 1 .. c, AllowedNow(w)) /\ Loose(w, m, b, c)
        BY RoundIs
    <1>2. /\ h # <<>> /\ ~(Full(w) /\ Nearer(graph, q, Last(f), n))
        BY DEF LayerDone
    <1>3. /\ q \in Points /\ Beam(w) \in Nat \ {0} /\ f \in Seq(1 .. c) /\ Len(f) \in Nat
          /\ Ordered(graph, q, f) /\ h \in Seq(1 .. c) /\ Ordered(graph, q, h)
        BY WorkingIs
    <1>4. /\ Same(t, w) /\ t.todo = Lane(w, n)
        BY <1>2, TakenLane
    <1>5. /\ RoundsOf(t) = RoundsOf(w)
          /\ \A j : WayOf(t, j) = WayOf(w, j) /\ LooksOf(t, j) = LooksOf(w, j)
          /\ \A j : Ends(t, j) <=> Ends(w, j)
        BY <1>4, SameRounds
    <1>6. /\ Loose(t, m, [b EXCEPT !.open = @ \ {n}], c)
          /\ n \notin b.open => ToSet(Lane(w, n)) \subseteq b.visited
        <2> HIDE DEF b
        <2> QED
            BY <1>1, <1>2, LooseTaken
    <1>7. Head(h) = n /\ ToSet(f) = b.found /\ b.open \subseteq ToSet(h)
        BY DEF Loose
    <1>8. /\ Ends(w, i) <=> Finished(graph, q, Beam(w), b)
          /\ WayOf(w, i) = Lane(w, Nearest(graph, q, b.open))
          /\ Full(w) <=> f # <<>> /\ Len(f) >= Beam(w)
          /\ RoundsOf(w)[i] = b
        BY WayIsLane DEF Ends, Full
    <1> HIDE DEF b, q, h, f, n, t
    <1>9. CASE n \in b.open
        <2>1. n = Nearest(graph, q, b.open)
            <3>1. /\ Head(h) \in 1 .. c /\ ToSet(h) \subseteq 1 .. c
                  /\ \A k \in ToSet(h) : k = Head(h) \/ Nearer(graph, q, Head(h), k)
                BY <1>2, <1>3, HeadFirst
            <3>2. b.open \in SUBSET (1 .. c) /\ b.open # {}
                BY <1>1, <1>9 DEF Beams
            <3> DEFINE k == Nearest(graph, q, b.open)
            <3>3. k \in b.open /\ \A j \in b.open \ {k} : Nearer(graph, q, k, j)
                BY <1>3, <3>2, NearestIn
            <3> HIDE DEF k
            <3>4. k \in 1 .. c /\ n \in 1 .. c
                BY <3>2, <3>3, <1>9
            <3>5. n # k => Nearer(graph, q, k, n) /\ Nearer(graph, q, n, k)
                BY <1>7, <1>9, <3>1, <3>3
            <3>6. n = k
                BY <1>3, <3>4, <3>5, NearerIsOrder
            <3> QED
                BY <3>6 DEF k
        <2>2. ~Finished(graph, q, Beam(w), b)
            <3> SUFFICES ASSUME b.found # {}, Cardinality(b.found) >= Beam(w),
                                Nearer(graph, q, Farthest(graph, q, b.found), n)
                         PROVE  FALSE
                BY <1>9, <2>1 DEF Finished
            <3>1. f # <<>>
                BY <1>3, <1>7, HeapIs
            <3>2. Last(f) = Farthest(graph, q, b.found)
                BY <1>3, <1>7, <3>1, HeapIs
            <3>3. Cardinality(b.found) \in Nat /\ Cardinality(b.found) <= Len(f)
                BY <1>3, <1>7, HeapCounts
            <3>4. Len(f) >= Beam(w)
                BY <1>3, <3>3
            <3> QED
                BY <1>2, <1>8, <3>1, <3>2, <3>4
        <2>3. ~Ends(w, i)
            BY <1>8, <2>2
        <2>4. /\ WayOf(w, i) \in Seq(1 .. c)
              /\ LooksOf(w, i)[1 .. 0] = Rest(graph, w.ask.q, RoundsOf(w)[i])
            BY <2>3, RoundIs
        <2>5. LooksOf(w, i)[1 .. 0] = [b EXCEPT !.open = @ \ {n}]
            BY <1>8, <2>1, <2>4 DEF Rest, q
        <2> DEFINE way == WayOf(w, i)
        <2>6. way \in Seq(1 .. c) /\ t.todo = way
            BY <1>4, <1>8, <2>1, <2>4
        <2> HIDE DEF way
        <2>7. way = SubSeq(way, 0 + 1, Len(way)) /\ 0 \in 0 .. Len(way)
            BY <2>6
        <2>8. /\ 0 \in 0 .. Len(WayOf(t, i)) /\ Loose(t, m, LooksOf(t, i)[1 .. 0], c)
              /\ t.todo = SubSeq(WayOf(t, i), 0 + 1, Len(WayOf(t, i)))
            BY <1>5, <1>6, <2>5, <2>6, <2>7 DEF way
        <2>9. Fresh(t, m, c, i)
            BY <1>5, <2>3, <2>8 DEF Fresh
        <2> QED
            BY <2>9 DEF Trail, t
    <1>10. CASE n \notin b.open
        <2>1. [b EXCEPT !.open = @ \ {n}] = b
            BY <1>1, <1>10 DEF Beams
        <2>2. RoundsOf(t)[i] = b
            BY <1>5, <1>8
        <2>3. Again(t, m, c, i)
            BY <1>4, <1>6, <1>10, <2>1, <2>2 DEF Again
        <2> QED
            BY <2>3 DEF Trail, t
    <1> QED
        BY <1>9, <1>10

-----------------------------------------------------------------------------
(* With a beam as wide as the graph a search sees no more than a beam.     *)

\* What the last round of a beam as wide as the graph has: all that it can reach.
LEMMA WideLast ==
    ASSUME NEW c \in Nat, graph \in GraphOf(c), AllLive(graph, c), NEW w \in Working(c),
           w.layer = 0, Beam(w) >= c
    PROVE  /\ RoundsOf(w)[c] \in Beams(graph, 1 .. c, AllowedNow(w))
           /\ SearchLayer(graph, w.ask.q, w.ep, Beam(w), 0, AllowedNow(w)) = RoundsOf(w)[c].found
           /\ RoundsOf(w)[c].found = Accepted(graph, RoundsOf(w)[c].visited, AllowedNow(w))
           /\ w.ep \in RoundsOf(w)[c].visited
           /\ \A n \in RoundsOf(w)[c].visited : ToSet(Lane(w, n)) \subseteq RoundsOf(w)[c].visited
    <1> DEFINE q == w.ask.q
               ef == Beam(w)
               allowed == AllowedNow(w)
               ep == w.ep
               b == Rounds(graph, q, ep, ef, 0, allowed)[c]
    <1>1. q \in Points /\ ef \in Nat /\ ef >= c /\ ep \in 1 .. c
        BY WorkingIs
    <1>2. RoundsOf(w)[c] = b
        BY DEF RoundsOf
    <1> HIDE DEF q, ef, allowed, ep
    <1>3. /\ b \in Beams(graph, 1 .. c, allowed)
          /\ SearchLayer(graph, q, ep, ef, 0, allowed) = b.found
          /\ b.found = Accepted(graph, b.visited, allowed) /\ ep \in b.visited
          /\ \A n \in b.visited : ToSet(Bottom(graph, n)) \subseteq b.visited
        BY <1>1, WideRounds
    <1> HIDE DEF b
    <1>4. ASSUME NEW n \in b.visited PROVE Lane(w, n) = Bottom(graph, n)
        <2>1. n \in 1 .. c
            BY <1>3 DEF Beams
        <2>2. Resolved(graph, n) = n /\ n # NoNode /\ graph.nodes[n].top \in Nat
            BY <2>1, GraphIs DEF AllLive, NoNode
        <2>3. ~(w.layer > graph.nodes[n].top)
            BY <2>2
        <2> QED
            BY <2>2, <2>3 DEF Lane, Bottom
    <1> QED
        BY <1>2, <1>3, <1>4 DEF q, ef, allowed, ep

\* A search that opens its layer sees the entry point.
LEMMA WithinOpened ==
    ASSUME NEW c \in Nat, graph \in GraphOf(c), AllLive(graph, c), NEW w \in Working(c),
           w.todo = <<>>, NEW g \in Nat
    PROVE  Within(Opened(w, g), c)
    <1> DEFINE v == Opened(w, g)
               b == RoundsOf(w)[c]
    <1>1. /\ Same(v, w) /\ v.todo = w.todo /\ v.open = <<w.ep>>
          /\ v.found = IF Accepts(graph, w.ep, AllowedNow(w)) THEN <<w.ep>> ELSE <<>>
        BY OpenedIs
    <1>2. RoundsOf(v)[c] = b /\ Beam(v) = Beam(w) /\ v.layer = w.layer
        BY <1>1, SameRounds, SameBeam DEF Same
    <1>3. ToSet(<<w.ep>>) = {w.ep} /\ ToSet(<<>>) = {}
        <2> DEFINE n == w.ep
        <2>1. n \in 1 .. c
            BY WorkingIs
        <2> HIDE DEF n
        <2>2. ToSet(<<n>>) = {n} /\ ToSet(<<>>) = {}
            BY <2>1, OneIsHeap
        <2> QED
            BY <2>2 DEF n
    <1> SUFFICES ASSUME w.layer = 0, Beam(w) >= c
                 PROVE  /\ ToSet(v.open) \subseteq b.visited /\ ToSet(v.todo) \subseteq b.visited
                        /\ ToSet(v.found) \subseteq b.found
        BY <1>2 DEF Within
    <1>4. b.found = Accepted(graph, b.visited, AllowedNow(w)) /\ w.ep \in b.visited
        BY WideLast
    <1> HIDE DEF v, b
    <1>5. Accepts(graph, w.ep, AllowedNow(w)) => w.ep \in b.found
        BY <1>4 DEF Accepted
    <1> QED
        BY <1>1, <1>3, <1>4, <1>5

\* A look adds a node that search_layer reaches.
LEMMA WithinLook ==
    ASSUME NEW c \in Nat, graph \in GraphOf(c), AllLive(graph, c), NEW w \in Working(c),
           w.todo # <<>>, Within(w, c)
    PROVE  Within(Visited(w), c)
    <1> DEFINE v == Visited(w)
               b == RoundsOf(w)[c]
               n == Head(w.todo)
               h == w.found
               q == w.ask.q
    <1>1. /\ Same(v, w) /\ v.todo = Tail(w.todo) /\ n \in 1 .. c
          /\ Wanted(w) => ToSet(NowOpen(w)) = ToSet(w.open) \cup {n}
          /\ ~Wanted(w) => NowOpen(w) = w.open
        BY LookIs
    <1>2. /\ marks[n] = w.gen => v.open = w.open /\ v.found = w.found
          /\ marks[n] # w.gen => v.open = NowOpen(w) /\ v.found = NowFound(w)
        BY VisitedIs
    <1>3. RoundsOf(v)[c] = b /\ Beam(v) = Beam(w) /\ v.layer = w.layer
        BY <1>1, SameRounds, SameBeam DEF Same
    <1>4. /\ w.todo \in Seq(1 .. c) /\ h \in Seq(1 .. c) /\ Ordered(graph, q, h) /\ q \in Points
          /\ Beam(w) \in Nat
        BY WorkingIs
    <1>5. n \in ToSet(w.todo) /\ ToSet(Tail(w.todo)) \subseteq ToSet(w.todo)
        <2> DEFINE t == w.todo
        <2>1. t \in Seq(1 .. c) /\ t # <<>>
            BY <1>4
        <2> HIDE DEF t
        <2>2. Head(t) \in ToSet(t) /\ ToSet(Tail(t)) \subseteq ToSet(t)
            BY <2>1, ListHas
        <2> QED
            BY <2>2 DEF t
    <1>6. /\ ToSet(v.open) \subseteq ToSet(w.open) \cup {n}
          /\ v.found = h \/ (Counts(w) /\ v.found = NowFound(w))
        BY <1>1, <1>2 DEF NowFound
    <1>7. Counts(w) => NowFound(w) = Cut(Pushed(h, q, n), Beam(w)) /\ Accepts(graph, n, AllowedNow(w))
        BY DEF NowFound, Counts
    <1> SUFFICES ASSUME w.layer = 0, Beam(w) >= c
                 PROVE  /\ ToSet(v.open) \subseteq b.visited /\ ToSet(v.todo) \subseteq b.visited
                        /\ ToSet(v.found) \subseteq b.found
        BY <1>3 DEF Within
    <1>8. b.found = Accepted(graph, b.visited, AllowedNow(w))
        BY WideLast
    <1>9. /\ ToSet(w.open) \subseteq b.visited /\ ToSet(w.todo) \subseteq b.visited
          /\ ToSet(h) \subseteq b.found
        BY DEF Within
    <1> HIDE DEF v, b, n, h, q
    <1>10. ToSet(Cut(Pushed(h, q, n), Beam(w))) \subseteq ToSet(h) \cup {n}
        <2> DEFINE p == Pushed(h, q, n)
                   k == Beam(w)
        <2>1. /\ Pushed(h, q, n) \in Seq(1 .. c) /\ Len(Pushed(h, q, n)) = Len(h) + 1
              /\ Ordered(graph, q, Pushed(h, q, n))
              /\ ToSet(Pushed(h, q, n)) = ToSet(h) \cup {n}
              /\ Single(h) /\ n \notin ToSet(h) => Single(Pushed(h, q, n))
            BY <1>1, <1>4, PushedIs
        <2>2. p \in Seq(1 .. c) /\ Ordered(graph, q, p) /\ k \in Nat /\ ToSet(p) = ToSet(h) \cup {n}
            BY <1>4, <2>1
        <2> HIDE DEF p, k
        <2>3. ToSet(Cut(p, k)) = {p[i] : i \in 1 .. Lesser(Len(p), k)}
            BY <2>2, CutIs
        <2>4. Len(p) \in Nat /\ \A i \in 1 .. Lesser(Len(p), k) : i \in 1 .. Len(p)
            BY <2>2 DEF Lesser
        <2>5. ToSet(Cut(p, k)) \subseteq ToSet(p)
            BY <2>2, <2>3, <2>4 DEF ToSet
        <2> QED
            BY <2>2, <2>5 DEF p, k
    <1>11. n \in b.visited /\ ToSet(v.todo) \subseteq b.visited
        BY <1>1, <1>5, <1>9
    <1>12. Accepts(graph, n, AllowedNow(w)) => n \in b.found
        BY <1>8, <1>11 DEF Accepted
    <1> QED
        BY <1>6, <1>7, <1>9, <1>10, <1>11, <1>12

\* So does the next candidate, with all its neighbours.
LEMMA WithinTaken ==
    ASSUME NEW c \in Nat, graph \in GraphOf(c), AllLive(graph, c), NEW w \in Working(c),
           w.open # <<>>, Within(w, c)
    PROVE  Within(Taken(w), c)
    <1> DEFINE t == Taken(w)
               b == RoundsOf(w)[c]
               h == w.open
    <1>1. /\ Same(t, w) /\ t.open = Tail(h) /\ t.found = w.found /\ t.todo = Lane(w, Head(h))
        BY TakenLane
    <1>2. RoundsOf(t)[c] = b /\ Beam(t) = Beam(w) /\ t.layer = w.layer
        BY <1>1, SameRounds, SameBeam DEF Same
    <1>3. Head(h) \in ToSet(h) /\ ToSet(Tail(h)) \subseteq ToSet(h)
        <2>1. h \in Seq(1 .. c) /\ h # <<>>
            BY WorkingIs
        <2> HIDE DEF h
        <2> QED
            BY <2>1, ListHas
    <1> SUFFICES ASSUME w.layer = 0, Beam(w) >= c
                 PROVE  /\ ToSet(t.open) \subseteq b.visited /\ ToSet(t.todo) \subseteq b.visited
                        /\ ToSet(t.found) \subseteq b.found
        BY <1>2 DEF Within
    <1>4. \A n \in b.visited : ToSet(Lane(w, n)) \subseteq b.visited
        BY WideLast
    <1>5. ToSet(h) \subseteq b.visited /\ ToSet(w.found) \subseteq b.found
        BY DEF Within
    <1> HIDE DEF t, b, h
    <1> QED
        BY <1>1, <1>3, <1>4, <1>5

-----------------------------------------------------------------------------
(* What a search does behind the last neighbour of a candidate.            *)

\* Who wants as many nodes as there are gets them all.
LEMMA AllNearest ==
    ASSUME NEW c \in Nat, graph \in GraphOf(c), NEW q \in Points, NEW S \in SUBSET (1 .. c),
           NEW k \in Nat, k >= c
    PROVE  {n \in S : Cardinality({m \in S : Nearer(graph, q, m, n)}) < k} = S
    <1> SUFFICES ASSUME NEW n \in S
                 PROVE  Cardinality({m \in S : Nearer(graph, q, m, n)}) < k
        OBVIOUS
    <1> DEFINE T == {m \in S : Nearer(graph, q, m, n)}
    <1>1. n \in 1 .. c /\ T \in SUBSET (1 .. c)
        OBVIOUS
    <1>2. n \notin T
        BY <1>1, NearerIsOrder
    <1> HIDE DEF T
    <1>3. Cardinality(T) \in Nat /\ (Cardinality(T) >= c => T = 1 .. c)
        BY <1>1, Counted
    <1>4. Cardinality(T) < k
        BY <1>1, <1>2, <1>3
    <1> QED
        BY <1>4 DEF T

\* From layer to layer as search goes.
LEMMA StraysDown ==
    ASSUME NEW c \in Nat, graph \in GraphOf(c), graph.entry \in 1 .. c,
           NEW w \in Working(c), w.ep = EntryTo(w), w.layer # 0, LayerDone(w),
           NEW m, NEW i \in 0 .. c, Loose(w, m, RoundsOf(w)[i], c)
    PROVE  Closed(w).pc = "layer" /\ Closed(w).ep = EntryTo(Closed(w))
    <1> DEFINE q == w.ask.q
               v == Closed(w)
    <1>1. /\ v.pc = "layer" /\ v.ask = w.ask /\ v.layer = w.layer - 1
          /\ v.ep = Follow(graph, q, w.ep, ToSet(w.found))
        BY ClosedIs
    <1>2. Beam(w) = 1 /\ AllowedNow(w) = Docs /\ q \in Points /\ w.layer \in Nat
        BY WorkingIs
    <1>3. w.layer \in 0 .. graph.top /\ graph.top \in Nat
        BY GraphIs DEF Working
    <1>4. Ends(w, i)
        BY <1>2, StrayEnds DEF Narrow
    <1>5. SearchLayer(graph, q, w.ep, Beam(w), w.layer, AllowedNow(w)) = RoundsOf(w)[i].found
        BY <1>4, WorkingCourse DEF CourseOf, Course, Ends
    <1>6. ToSet(w.found) = RoundsOf(w)[i].found
        BY DEF Loose
    <1>7. ToSet(w.found) = SearchLayer(graph, q, w.ep, 1, w.layer, Docs)
        BY <1>2, <1>5, <1>6
    <1> HIDE DEF v, q
    <1>8. v.ep = Down(graph, q, w.ep, w.layer)
        BY <1>1, <1>7 DEF Down
    <1>9. Descend(graph, q, graph.entry, graph.top, w.layer)
              = Down(graph, q, Descend(graph, q, graph.entry, graph.top, w.layer + 1), w.layer)
        BY <1>2, <1>3, DescendStep
    <1>10. v.layer + 1 = w.layer
        BY <1>1, <1>2
    <1>11. v.ep = EntryTo(v)
        BY <1>1, <1>8, <1>9, <1>10 DEF EntryTo, q
    <1> QED
        BY <1>1, <1>11 DEF v

\* In layer 0 what is returned is missing a node only if one is in it twice.
LEMMA StraysOut ==
    ASSUME NEW c \in Nat, graph \in GraphOf(c), graph.entry \in 1 .. c, AllLive(graph, c),
           NEW w \in Working(c), w.ep = EntryTo(w), w.layer = 0, LayerDone(w), Within(w, c),
           w.todo = <<>>,
           NEW m, Narrow(w) => \E i \in 0 .. c : Loose(w, m, RoundsOf(w)[i], c)
    PROVE  /\ Closed(w).pc = "return"
           /\ Distinct(Closed(w).found) /\ w.ask.topK >= c => Result(Closed(w)) = Expected(Closed(w))
    <1> DEFINE q == w.ask.q
               k == w.ask.topK
               h == w.found
               v == Closed(w)
               b == RoundsOf(w)[c]
               ef == Greater(EfSearch, k)
    <1>1. v.pc = "return" /\ v.ask = w.ask /\ v.found = Cut(h, k)
        BY ClosedIs
    <1>2. /\ q \in Points /\ k \in Nat \ {0} /\ Beam(w) = ef /\ AllowedNow(w) = w.ask.allowed
          /\ h \in Seq(1 .. c) /\ Ordered(graph, q, h) /\ Len(h) \in Nat
        BY WorkingIs
    <1> SUFFICES ASSUME Distinct(v.found), k >= c PROVE Result(v) = Expected(v)
        BY <1>1
    <1>3. ef \in Nat /\ ef >= k /\ ef >= c
        BY <1>2, SearchAssumption DEF Greater
    <1>4. /\ SearchLayer(graph, q, w.ep, ef, 0, AllowedNow(w)) = b.found
          /\ b \in Beams(graph, 1 .. c, AllowedNow(w))
        <2>1. Beam(w) >= c
            BY <1>2, <1>3
        <2>2. /\ RoundsOf(w)[c] \in Beams(graph, 1 .. c, AllowedNow(w))
              /\ SearchLayer(graph, w.ask.q, w.ep, Beam(w), 0, AllowedNow(w)) = RoundsOf(w)[c].found
            BY <2>1, WideLast
        <2> QED
            BY <1>2, <2>2
    <1>5. w.ep = Descend(graph, q, graph.entry, graph.top, 1)
        <2>1. w.layer + 1 = 1
            OBVIOUS
        <2> QED
            BY <2>1 DEF EntryTo
    <1>6. b.found \in SUBSET (1 .. c)
        BY <1>4 DEF Beams, Accepted
    <1>7. Expected(v) = b.found
        <2>1. graph.entry # NoNode
            BY DEF NoNode
        <2>2. Expected(v) = Search(graph, q, k, EfSearch, w.ask.allowed)
            BY <1>1 DEF Expected
        <2> HIDE DEF b, q, k, v
        <2>3. Search(graph, q, k, EfSearch, w.ask.allowed) =
                  {n \in b.found : Cardinality({x \in b.found : Nearer(graph, q, x, n)}) < k}
            BY <1>2, <1>4, <1>5, <2>1 DEF Search
        <2>4. {n \in b.found : Cardinality({x \in b.found : Nearer(graph, q, x, n)}) < k} = b.found
            BY <1>2, <1>6, AllNearest
        <2> QED
            BY <2>2, <2>3, <2>4
    <1>8. ToSet(h) \subseteq b.found
        BY <1>2, <1>3 DEF Within
    <1>9. CASE Len(h) < k
        <2>1. Narrow(w)
            BY <1>2, <1>3, <1>9 DEF Narrow
        <2>2. PICK i \in 0 .. c : Loose(w, m, RoundsOf(w)[i], c)
            BY <2>1
        <2>3. Ends(w, i)
            BY <2>1, <2>2, StrayEnds
        <2>4. SearchLayer(graph, q, w.ep, Beam(w), w.layer, AllowedNow(w)) = RoundsOf(w)[i].found
            BY <2>3, WorkingCourse DEF CourseOf, Course, Ends
        <2>5. ToSet(h) = RoundsOf(w)[i].found
            BY <2>2 DEF Loose
        <2>6. ToSet(h) = b.found
            BY <1>2, <1>4, <2>4, <2>5
        <2> HIDE DEF h, k, b, v
        <2>7. Cut(h, k) = h
            BY <1>2, <1>9, CutSmall
        <2> QED
            BY <1>1, <1>7, <2>6, <2>7 DEF Result
    <1>10. CASE ~(Len(h) < k)
        <2> HIDE DEF h, k, b, v, q
        <2>1. Len(Cut(h, k)) = k /\ ToSet(Cut(h, k)) \subseteq ToSet(h)
            <3>1. /\ Len(Cut(h, k)) = Lesser(Len(h), k)
                  /\ ToSet(Cut(h, k)) = {h[j] : j \in 1 .. Lesser(Len(h), k)}
                BY <1>2, CutIs
            <3>2. Lesser(Len(h), k) = k
                BY <1>2, <1>10 DEF Lesser
            <3>3. \A j \in 1 .. k : j \in 1 .. Len(h)
                BY <1>2, <1>10
            <3>4. \A j \in 1 .. Len(h) : h[j] \in ToSet(h)
                BY <1>2 DEF ToSet
            <3> QED
                BY <3>1, <3>2, <3>3, <3>4
        <2> DEFINE S == ToSet(Cut(h, k))
        <2>2. Cardinality(S) = k
            BY <1>1, <2>1 DEF Distinct
        <2>3. S \in SUBSET (1 .. c) /\ S \subseteq b.found
            BY <1>6, <1>8, <2>1
        <2> HIDE DEF S
        <2>4. Cardinality(S) >= c
            BY <2>2
        <2>5. S = 1 .. c
            BY <2>3, <2>4, Counted
        <2>6. S = b.found
            BY <1>6, <2>3, <2>5
        <2> QED
            BY <1>1, <1>7, <2>6 DEF Result, S
    <1> QED
        BY <1>9, <1>10

\* A search goes on straying.
LEMMA Strays ==
    ASSUME NEW c \in Nat, graph \in GraphOf(c), graph.entry \in 1 .. c, AllLive(graph, c),
           NEW w \in Working(c), w.todo = <<>>, w.ep = EntryTo(w), Within(w, c),
           NEW m, Narrow(w) => \E i \in 0 .. c : Loose(w, m, RoundsOf(w)[i], c)
    PROVE  Straying(Advanced(w), m, c)
    <1>1. CASE LayerDone(w) /\ w.layer # 0
        <2>1. Advanced(w) = Closed(w)
            BY <1>1 DEF Advanced
        <2>2. Narrow(w)
            BY <1>1, WorkingIs DEF Narrow
        <2>3. PICK i \in 0 .. c : Loose(w, m, RoundsOf(w)[i], c)
            BY <2>2
        <2>4. Closed(w).pc = "layer" /\ Closed(w).ep = EntryTo(Closed(w))
            BY <1>1, <2>3, StraysDown
        <2> QED
            BY <2>1, <2>4 DEF Straying
    <1>2. CASE LayerDone(w) /\ w.layer = 0
        <2>1. Advanced(w) = Closed(w)
            BY <1>2 DEF Advanced
        <2>2. /\ Closed(w).pc = "return"
              /\ Distinct(Closed(w).found) /\ w.ask.topK >= c =>
                     Result(Closed(w)) = Expected(Closed(w))
            BY <1>2, StraysOut
        <2>3. Closed(w).ask = w.ask
            BY ClosedIs
        <2> QED
            BY <2>1, <2>2, <2>3 DEF Straying
    <1>3. CASE ~LayerDone(w)
        <2> DEFINE t == Taken(w)
        <2>1. Advanced(w) = t /\ w.open # <<>>
            BY <1>3 DEF Advanced, LayerDone
        <2>2. Same(t, w) /\ t.pc = "visit" /\ t.found = w.found
            BY <2>1, TakenLane
        <2>3. Within(t, c)
            BY <2>1, WithinTaken
        <2>4. EntryTo(t) = EntryTo(w) /\ t.ep = w.ep /\ Beam(t) = Beam(w)
            BY <2>2, SameRounds, SameBeam DEF Same
        <2>5. ASSUME Narrow(t) PROVE Trail(t, m, c)
            <3>1. Narrow(w)
                BY <2>2, <2>4, <2>5 DEF Narrow
            <3>2. PICK i \in 0 .. c : Loose(w, m, RoundsOf(w)[i], c)
                BY <3>1
            <3> QED
                BY <1>3, <3>2, StrayNext
        <2> HIDE DEF t
        <2> QED
            BY <2>1, <2>2, <2>3, <2>4, <2>5 DEF Straying, Roaming
    <1> QED
        BY <1>1, <1>2, <1>3

\* A search that opens a layer is in its first round.
LEMMA StrayOpened ==
    ASSUME NEW c \in Nat, graph \in GraphOf(c), graph.entry \in 1 .. c, AllLive(graph, c),
           NEW w \in Working(c), w.todo = <<>>, w.ep = EntryTo(w), NEW g \in Nat,
           NEW m, \A n \in 1 .. c : m[n] = g => n = w.ep
    PROVE  Straying(Advanced(Opened(w, g)), m, c)
    <1> DEFINE o == Opened(w, g)
               f == First(graph, w.ep, AllowedNow(w))
    <1>1. /\ o \in Working(c) /\ Same(o, w) /\ o.todo = <<>> /\ o.gen = g /\ o.open = <<w.ep>>
          /\ o.found = IF Accepts(graph, w.ep, AllowedNow(w)) THEN <<w.ep>> ELSE <<>>
        BY OpenedIs
    <1>2. Within(o, c)
        BY WithinOpened
    <1> HIDE DEF o
    <1>3. o.ep = w.ep /\ AllowedNow(o) = AllowedNow(w) /\ o.ep = EntryTo(o)
        BY <1>1, SameRounds, SameBeam DEF Same
    <1>4. RoundsOf(o)[0] = f
        BY <1>1, <1>3, WorkingCourse DEF CourseOf, Course
    <1>5. w.ep \in 1 .. c
        BY WorkingIs
    <1>6. ToSet(<<w.ep>>) = {w.ep} /\ ToSet(<<>>) = {}
        BY <1>5, OneIsHeap
    <1>7. /\ f.visited = {w.ep} /\ f.open = {w.ep}
          /\ f.found = IF Accepts(graph, w.ep, AllowedNow(w)) THEN {w.ep} ELSE {}
        BY DEF First
    <1> HIDE DEF f
    <1>8. ToSet(o.found) = f.found /\ ToSet(o.open) = {w.ep}
        BY <1>1, <1>6, <1>7
    <1>9. \A n \in {w.ep} : Settled(o, n, f)
        BY <1>3, <1>7 DEF Settled
    <1>10. Loose(o, m, f, c)
        BY <1>1, <1>7, <1>8, <1>9 DEF Loose
    <1>11. 0 \in 0 .. c
        OBVIOUS
    <1>12. \E i \in 0 .. c : Loose(o, m, RoundsOf(o)[i], c)
        BY <1>4, <1>10, <1>11
    <1>13. Straying(Advanced(o), m, c)
        BY <1>1, <1>2, <1>3, <1>12, Strays
    <1> QED
        BY <1>13 DEF o

\* A search that has looked at a neighbour goes on straying.
LEMMA StrayVisited ==
    ASSUME NEW c \in Nat, graph \in GraphOf(c), graph.entry \in 1 .. c, AllLive(graph, c),
           NEW w \in Working(c), w.todo # <<>>, Roaming(w, marks, c), w.pc = "visit",
           NEW m, marks \in Seq(Nat), c <= Len(marks), m = [marks EXCEPT ![Head(w.todo)] = w.gen]
    PROVE  Straying(Advanced(Visited(w)), m, c)
    <1> DEFINE v == Visited(w)
    <1>1. /\ v \in Working(c) /\ Same(v, w) /\ v.pc = "visit"
        BY VisitedIs
    <1>2. Narrow(v) => Narrow(w)
        BY LookIs
    <1>3. Within(v, c)
        BY WithinLook DEF Roaming
    <1>4. ASSUME Narrow(v) PROVE Trail(v, m, c)
        <2>1. Trail(w, marks, c)
            BY <1>2, <1>4 DEF Roaming
        <2> QED
            BY <1>4, <2>1, StrayLook
    <1> HIDE DEF v
    <1>5. v.ep = EntryTo(v)
        BY <1>1, SameRounds DEF Same, Roaming
    <1>6. CASE v.todo # <<>>
        <2>1. Advanced(v) = v
            BY <1>6 DEF Advanced
        <2> QED
            BY <1>1, <1>3, <1>4, <1>5, <2>1 DEF Straying, Roaming, v
    <1>7. CASE v.todo = <<>>
        <2>1. ASSUME Narrow(v) PROVE \E i \in 0 .. c : Loose(v, m, RoundsOf(v)[i], c)
            BY <1>1, <1>4, <1>7, <2>1, AtEnd
        <2>2. Straying(Advanced(v), m, c)
            BY <1>1, <1>3, <1>5, <1>7, <2>1, Strays
        <2> QED
            BY <2>2 DEF v
    <1> QED
        BY <1>6, <1>7

\* So does one that found no neighbours.
LEMMA StraySkipped ==
    ASSUME NEW c \in Nat, graph \in GraphOf(c), graph.entry \in 1 .. c, AllLive(graph, c),
           NEW w \in Working(c), w.todo = <<>>, NEW m, Roaming(w, m, c)
    PROVE  Straying(Advanced(w), m, c)
    <1>1. ASSUME Narrow(w) PROVE \E i \in 0 .. c : Loose(w, m, RoundsOf(w)[i], c)
        BY <1>1, AtEnd DEF Roaming
    <1> QED
        BY <1>1, Strays DEF Roaming

\* Marks that others overwrite do no harm.
LEMMA Undisturbed ==
    ASSUME NEW c, NEW w, NEW m, Straying(w, m, c),
           NEW k, w.pc = "visit" => \A n \in 1 .. c : k[n] = w.gen => m[n] = w.gen
    PROVE  Straying(w, k, c)
    <1>1. CASE w.pc = "visit"
        <2>1. \A b : Loose(w, m, b, c) => Loose(w, k, b, c)
            BY <1>1 DEF Loose
        <2>2. \A i : Fresh(w, m, c, i) \/ Again(w, m, c, i) => Fresh(w, k, c, i) \/ Again(w, k, c, i)
            BY <2>1 DEF Fresh, Again
        <2>3. Trail(w, m, c) => Trail(w, k, c)
            BY <2>2 DEF Trail
        <2> QED
            BY <1>1, <2>3 DEF Straying, Roaming
    <1>2. CASE w.pc # "visit"
        BY <1>2 DEF Straying
    <1> QED
        BY <1>1, <1>2

\* Whether a search was alone from its begin on does not matter.
LEMMA StraysAlike ==
    ASSUME NEW c, NEW m, NEW w, Straying(w, m, c),
           NEW v, v.pc = w.pc, v.ask = w.ask, v.layer = w.layer, v.ep = w.ep, v.gen = w.gen,
           v.open = w.open, v.todo = w.todo, v.found = w.found
    PROVE  Straying(v, m, c)
    <1>1. /\ Beam(v) = Beam(w) /\ AllowedNow(v) = AllowedNow(w) /\ EntryTo(v) = EntryTo(w)
          /\ Expected(v) = Expected(w) /\ Result(v) = Result(w)
          /\ \A n : Lane(v, n) = Lane(w, n)
        BY DEF Beam, AllowedNow, EntryTo, Expected, Result, Lane
    <1>2. RoundsOf(v) = RoundsOf(w)
        BY <1>1 DEF RoundsOf
    <1>3. \A i : /\ WayOf(v, i) = WayOf(w, i) /\ LooksOf(v, i) = LooksOf(w, i)
                 /\ Ends(v, i) <=> Ends(w, i)
        BY <1>1, <1>2 DEF WayOf, LooksOf, Ends
    <1>4. \A n : Hopeless(v, n) <=> Hopeless(w, n)
        BY <1>1 DEF Hopeless, Full
    <1>5. \A n, b : /\ Spent(v, n, b) <=> Spent(w, n, b)
                    /\ Settled(v, n, b) <=> Settled(w, n, b)
        BY <1>1 DEF Spent, Settled
    <1>6. \A b : Loose(v, m, b, c) <=> Loose(w, m, b, c)
        BY <1>4, <1>5 DEF Loose
    <1>7. \A i : Fresh(w, m, c, i) \/ Again(w, m, c, i) => Fresh(v, m, c, i) \/ Again(v, m, c, i)
        BY <1>2, <1>3, <1>6 DEF Fresh, Again
    <1>8. /\ Trail(w, m, c) => Trail(v, m, c)
          /\ Within(v, c) <=> Within(w, c)
          /\ Narrow(v) <=> Narrow(w)
        BY <1>1, <1>2, <1>7 DEF Trail, Within, Narrow
    <1> QED
        BY <1>1, <1>8 DEF Straying, Roaming

\* As long as the graph stays.
LEMMA StraysStill ==
    ASSUME graph' = graph
    PROVE  \A w, m, c : Straying(w, m, c)' <=> Straying(w, m, c)
    <1>1. \A w : /\ RoundsOf(w)' = RoundsOf(w) /\ EntryTo(w)' = EntryTo(w)
                 /\ Expected(w)' = Expected(w)
        BY DEF RoundsOf, EntryTo, Expected
    <1>2. \A w, i : /\ WayOf(w, i)' = WayOf(w, i) /\ LooksOf(w, i)' = LooksOf(w, i)
                    /\ Ends(w, i)' <=> Ends(w, i)
        BY <1>1 DEF WayOf, LooksOf, Ends
    <1>3. \A w, n : Lane(w, n)' = Lane(w, n) /\ (Hopeless(w, n)' <=> Hopeless(w, n))
        BY DEF Lane, Hopeless
    <1>4. \A w, n, b : /\ Spent(w, n, b)' <=> Spent(w, n, b)
                       /\ Settled(w, n, b)' <=> Settled(w, n, b)
        BY <1>3 DEF Spent, Settled
    <1>5. \A w, m, b, c : Loose(w, m, b, c)' <=> Loose(w, m, b, c)
        BY <1>3, <1>4 DEF Loose
    <1>6. \A w, m, c, i : /\ Fresh(w, m, c, i)' <=> Fresh(w, m, c, i)
                          /\ Again(w, m, c, i)' <=> Again(w, m, c, i)
        BY <1>1, <1>2, <1>5 DEF Fresh, Again
    <1>7. \A w, m, c : /\ Trail(w, m, c)' <=> Trail(w, m, c)
                       /\ Within(w, c)' <=> Within(w, c)
        BY <1>1, <1>6 DEF Trail, Within
    <1>8. \A w, m, c : Roaming(w, m, c)' <=> Roaming(w, m, c)
        BY <1>1, <1>7 DEF Roaming, Narrow
    <1> QED
        BY <1>1, <1>8 DEF Straying

-----------------------------------------------------------------------------
(* The inductive invariant of searches that overlap.                       *)

\* No two searches are in a layer with one generation, before it wraps.
Rivals ==
    \A s, t \in Searchers :
        search[s].pc = "visit" /\ search[t].pc = "visit" /\ search[s].gen = search[t].gen => s = t

Strayers == \A s \in Searchers : Straying(search[s], marks, Size)

RInv == ~wrapped => Rivals /\ Strayers

\* Every node of the graph stands for its document.
LEMMA HeldLive ==
    ASSUME Held
    PROVE  AllLive(graph, Size)
    BY DEF Held, Numbered, AllLive, Resolved

\* Searcher s goes on to v, with marks of its own.
StraysTo(s, v) ==
    /\ graph' = graph /\ search' = [search EXCEPT ![s] = v]
    /\ ~wrapped' =>
           /\ ~wrapped /\ Straying(v, marks', Size)
           /\ \A t \in Searchers : t # s /\ search[t].pc = "visit" =>
                  /\ v.pc = "visit" => v.gen # search[t].gen
                  /\ \A n \in 1 .. Size : marks'[n] = search[t].gen => marks[n] = search[t].gen

\* Where s goes on so, the others do as they did.
LEMMA StraysToKeeps ==
    ASSUME SInv, RInv, NEW s \in Searchers, NEW v, StraysTo(s, v)
    PROVE  RInv'
    <1>1. search'[s] = v /\ \A t \in Searchers : t # s => search'[t] = search[t]
        BY DEF SInv, Propers, StraysTo
    <1> SUFFICES ASSUME ~wrapped' PROVE Rivals' /\ Strayers'
        BY DEF RInv
    <1>2. /\ Rivals /\ Strayers /\ Straying(v, marks', Size)
          /\ \A t \in Searchers : t # s /\ search[t].pc = "visit" =>
                 /\ v.pc = "visit" => v.gen # search[t].gen
                 /\ \A n \in 1 .. Size : marks'[n] = search[t].gen => marks[n] = search[t].gen
        BY DEF RInv, StraysTo
    <1>3. Rivals'
        BY <1>1, <1>2 DEF Rivals
    <1>4. \A t \in Searchers : Straying(search'[t], marks', Size)
        <2> SUFFICES ASSUME NEW t \in Searchers, t # s PROVE Straying(search[t], marks', Size)
            BY <1>1, <1>2
        <2> DEFINE w == search[t]
                   k == marks'
                   c == Size
        <2>1. Straying(w, marks, c)
            BY <1>2 DEF Strayers
        <2>2. w.pc = "visit" => \A n \in 1 .. c : k[n] = w.gen => marks[n] = w.gen
            BY <1>2
        <2> HIDE DEF w, k, c
        <2>3. Straying(w, k, c)
            BY <2>1, <2>2, Undisturbed
        <2> QED
            BY <2>3 DEF w, k, c
    <1>5. Size' = Size /\ \A w, m, c : Straying(w, m, c)' <=> Straying(w, m, c)
        BY StraysStill, Unmoved DEF StraysTo
    <1>6. \A t \in Searchers : Straying(search[t], marks, Size)'
        BY <1>4, <1>5
    <1> QED
        BY <1>3, <1>6 DEF Strayers

LEMMA OpenLayerStrays ==
    ASSUME SInv, RInv, NEW s \in Searchers, OpenLayer(s)
    PROVE  RInv'
    <1> DEFINE w == search[s]
               g == (gen + 1) % Generations
               v == Advanced(Opened(w, g))
               c == Size
    <1>1. /\ w.pc = "layer" /\ wrapped' = (wrapped \/ g = 0)
          /\ marks' = [marks EXCEPT ![w.ep] = g]
          /\ search' = [search EXCEPT ![s] = v] /\ graph' = graph
        BY DEF OpenLayer, Resume
    <1>2. w \in Working(c) /\ w.todo = <<>>
        BY <1>1, BusyIs
    <1>3. /\ c \in Nat /\ graph \in GraphOf(c) /\ graph.entry \in 1 .. c /\ AllLive(graph, c)
        BY HeldIs, HeldLive DEF SInv
    <1>4. /\ gen \in 0 .. Generations - 1 /\ Generations \in Nat \ {0} /\ gen \in Nat
        BY SearchAssumption DEF SInv, Roomy
    <1>5. /\ g \in 0 .. Generations - 1 /\ g \in Nat
          /\ g # 0 => g = gen + 1
        <2>1. gen + 1 \in Nat
            BY <1>4
        <2>2. g \in 0 .. Generations - 1 /\ (gen + 1 < Generations => g = gen + 1)
            BY <1>4, <2>1, ModIs
        <2>3. CASE gen + 1 < Generations
            BY <1>4, <2>2, <2>3
        <2>4. CASE ~(gen + 1 < Generations)
            <3>1. gen + 1 = Generations
                BY <1>4, <2>4
            <3>2. g = 0
                BY <1>4, <3>1
            <3> QED
                BY <1>4, <2>2, <3>2
        <2> QED
            BY <2>3, <2>4
    <1> HIDE DEF g
    <1>6. w.ep \in 1 .. c
        BY <1>2 DEF Working
    <1>7. /\ \A k \in 1 .. c : marks'[k] = IF k = w.ep THEN g ELSE marks[k]
          /\ \A k \in 1 .. c : marks[k] \in Nat /\ k \in 1 .. Len(marks)
        <2> DEFINE at == w.ep
                   now == [marks EXCEPT ![at] = g]
        <2>1. at \in 1 .. c /\ marks' = now
            BY <1>1, <1>6
        <2> HIDE DEF at
        <2>2. /\ \A k \in 1 .. Len(marks) : now[k] = IF k = at THEN g ELSE marks[k]
              /\ marks \in Seq(Nat)
            BY <1>5, <2>1, MarkIs
        <2>3. c <= Len(marks) /\ Len(marks) \in Nat
            BY DEF SInv, Roomy
        <2>4. \A k \in 1 .. c : k \in 1 .. Len(marks)
            BY <1>3, <2>3
        <2>5. \A k \in 1 .. c : marks[k] \in Nat
            BY <2>2, <2>4
        <2> HIDE DEF now
        <2> QED
            BY <2>1, <2>2, <2>4, <2>5 DEF at
    <1>8. v.gen = g
        <2> DEFINE o == Opened(w, g)
        <2> HIDE DEF w, c
        <2>1. c \in Nat /\ w \in Working(c) /\ g \in Nat
            BY <1>2, <1>3, <1>5
        <2>2. /\ Opened(w, g) \in Working(c) /\ Same(Opened(w, g), w)
              /\ Opened(w, g).pc = w.pc /\ Opened(w, g).todo = w.todo /\ Opened(w, g).gen = g
              /\ Opened(w, g).open = <<w.ep>>
              /\ Opened(w, g).found =
                     IF Accepts(graph, w.ep, AllowedNow(w)) THEN <<w.ep>> ELSE <<>>
              /\ Opened(w, g).clean =
                     (w.clean /\ \A n \in DOMAIN graph.nodes : marks[n] # g)
            BY ONLY <2>1, OpenedIs
        <2> HIDE DEF o
        <2>3. o \in Working(c) /\ o.gen = g
            BY <2>2 DEF o
        <2>4. Advanced(o).gen = o.gen
            BY <1>3, <2>3, AdvancedIs
        <2> QED
            BY <2>3, <2>4 DEF o, v
    <1> HIDE DEF w, v, c
    <1>9. ASSUME ~wrapped'
          PROVE  /\ ~wrapped /\ Straying(v, marks', c)
                 /\ \A t \in Searchers : t # s /\ search[t].pc = "visit" =>
                        /\ v.pc = "visit" => v.gen # search[t].gen
                        /\ \A n \in 1 .. c : marks'[n] = search[t].gen => marks[n] = search[t].gen
        <2>1. ~wrapped /\ g = gen + 1
            BY <1>1, <1>5, <1>9
        <2>2. /\ \A n \in 1 .. Len(marks) : marks[n] <= gen
              /\ \A t \in Searchers : search[t].gen <= gen
            BY <2>1 DEF SInv, Young
        <2>3. \A t \in Searchers : search[t].gen # g
            <3> SUFFICES ASSUME NEW t \in Searchers PROVE search[t].gen # g
                OBVIOUS
            <3>1. search[t].gen <= gen /\ search[t].gen \in 0 .. Generations - 1
                BY <2>2 DEF SInv, Propers
            <3> QED
                BY <1>4, <2>1, <3>1
        <2>4. \A n \in 1 .. c : marks'[n] = g => n = w.ep
            <3> SUFFICES ASSUME NEW n \in 1 .. c, n # w.ep PROVE marks'[n] # g
                OBVIOUS
            <3>1. marks'[n] = marks[n] /\ marks[n] \in Nat /\ marks[n] <= gen
                BY <1>7, <2>2
            <3> QED
                BY <1>4, <2>1, <3>1
        <2>5. w.ep = EntryTo(w)
            BY <1>1, <2>1 DEF RInv, Strayers, Straying, w
        <2>6. Straying(v, marks', c)
            <3> DEFINE m == marks'
            <3>1. \A n \in 1 .. c : m[n] = g => n = w.ep
                BY <2>4
            <3> HIDE DEF m
            <3>2. Straying(Advanced(Opened(w, g)), m, c)
                BY <1>2, <1>3, <1>5, <2>5, <3>1, StrayOpened
            <3> QED
                BY <3>2 DEF m, v
        <2>7. \A t \in Searchers : \A n \in 1 .. c :
                  marks'[n] = search[t].gen => marks[n] = search[t].gen
            BY <1>7, <2>3
        <2> QED
            BY <1>8, <2>1, <2>3, <2>6, <2>7
    <1>10. StraysTo(s, v)
        BY <1>1, <1>9 DEF StraysTo, c
    <1> QED
        BY <1>10, StraysToKeeps

LEMMA VisitStrays ==
    ASSUME SInv, RInv, NEW s \in Searchers, Visit(s)
    PROVE  RInv'
    <1> DEFINE w == search[s]
               n == Head(w.todo)
               v == Advanced(Visited(w))
               c == Size
    <1>1. /\ w.pc = "visit" /\ w.todo # <<>> /\ wrapped' = wrapped
          /\ marks' = [marks EXCEPT ![n] = w.gen]
          /\ search' = [search EXCEPT ![s] = v] /\ graph' = graph
        BY DEF Visit, Resume
    <1>2. w \in Working(c) /\ w.gen \in 0 .. Generations - 1
        BY <1>1, BusyIs
    <1>3. /\ c \in Nat /\ graph \in GraphOf(c) /\ graph.entry \in 1 .. c /\ AllLive(graph, c)
        BY HeldIs, HeldLive DEF SInv
    <1>4. n \in 1 .. c /\ v.gen = w.gen
        <2> DEFINE u == Visited(w)
        <2>1. u \in Working(c) /\ u.gen = w.gen /\ n \in 1 .. c
            BY <1>1, <1>2, <1>3, VisitedIs
        <2> HIDE DEF u
        <2>2. Advanced(u).gen = u.gen
            BY <1>3, <2>1, AdvancedIs
        <2> QED
            BY <2>1, <2>2 DEF u
    <1>5. /\ \A k \in 1 .. Len(marks) : marks'[k] = IF k = n THEN w.gen ELSE marks[k]
          /\ marks \in Seq(Nat) /\ c <= Len(marks)
        BY <1>1, <1>2, <1>4, MarkIs DEF SInv, Roomy
    <1>6. \A k \in 1 .. c : k \in 1 .. Len(marks)
        <2>1. Len(marks) \in Nat
            BY <1>5
        <2> QED
            BY <1>3, <1>5, <2>1
    <1> HIDE DEF w, n, v, c
    <1>7. ASSUME ~wrapped'
          PROVE  /\ ~wrapped /\ Straying(v, marks', c)
                 /\ \A t \in Searchers : t # s /\ search[t].pc = "visit" =>
                        /\ v.pc = "visit" => v.gen # search[t].gen
                        /\ \A k \in 1 .. c : marks'[k] = search[t].gen => marks[k] = search[t].gen
        <2>1. ~wrapped /\ Rivals /\ Straying(w, marks, c)
            BY <1>1, <1>7 DEF RInv, Strayers, w, c
        <2>2. Roaming(w, marks, c)
            BY <1>1, <2>1 DEF Straying
        <2>3. Straying(v, marks', c)
            <3> DEFINE m == marks'
            <3>1. m = [marks EXCEPT ![Head(w.todo)] = w.gen]
                BY <1>1 DEF n
            <3> HIDE DEF m
            <3>2. Straying(Advanced(Visited(w)), m, c)
                BY <1>1, <1>2, <1>3, <1>5, <2>2, <3>1, StrayVisited
            <3> QED
                BY <3>2 DEF m, v
        <2>4. \A t \in Searchers : t # s /\ search[t].pc = "visit" => search[t].gen # w.gen
            BY <1>1, <2>1 DEF Rivals, w
        <2> QED
            BY <1>4, <1>5, <1>6, <2>1, <2>3, <2>4
    <1>8. StraysTo(s, v)
        BY <1>1, <1>7 DEF StraysTo, c
    <1> QED
        BY <1>8, StraysToKeeps

LEMMA SkipStrays ==
    ASSUME SInv, RInv, NEW s \in Searchers, Skip(s)
    PROVE  RInv'
    <1> DEFINE w == search[s]
               v == Advanced(w)
               c == Size
    <1>1. /\ w.pc = "visit" /\ w.todo = <<>> /\ wrapped' = wrapped /\ marks' = marks
          /\ search' = [search EXCEPT ![s] = v] /\ graph' = graph
        BY DEF Skip
    <1>2. w \in Working(c)
        BY <1>1, BusyIs
    <1>3. /\ c \in Nat /\ graph \in GraphOf(c) /\ graph.entry \in 1 .. c /\ AllLive(graph, c)
        BY HeldIs, HeldLive DEF SInv
    <1>4. v.gen = w.gen
        BY <1>2, <1>3, AdvancedIs
    <1> HIDE DEF w, v, c
    <1>5. ASSUME ~wrapped'
          PROVE  /\ ~wrapped /\ Straying(v, marks, c)
                 /\ \A t \in Searchers : t # s /\ search[t].pc = "visit" => v.gen # search[t].gen
        <2>1. ~wrapped /\ Rivals /\ Straying(w, marks, c)
            BY <1>1, <1>5 DEF RInv, Strayers, w, c
        <2>2. Roaming(w, marks, c)
            BY <1>1, <2>1 DEF Straying
        <2>3. Straying(v, marks, c)
            BY <1>1, <1>2, <1>3, <2>2, StraySkipped DEF v
        <2>4. \A t \in Searchers : t # s /\ search[t].pc = "visit" => search[t].gen # w.gen
            BY <1>1, <2>1 DEF Rivals, w
        <2> QED
            BY <1>4, <2>1, <2>3, <2>4
    <1>6. StraysTo(s, v)
        BY <1>1, <1>5 DEF StraysTo, c
    <1> QED
        BY <1>6, StraysToKeeps

LEMMA LeaveStrays ==
    ASSUME SInv, RInv, NEW s \in Searchers, Leave(s)
    PROVE  RInv'
    <1>1. /\ search' = [search EXCEPT ![s] = Idle]
          /\ graph' = graph /\ marks' = marks /\ wrapped' = wrapped
        BY DEF Leave
    <1>2. Idle.pc = "idle"
        BY HeldIs, IdleIs DEF SInv
    <1>3. StraysTo(s, Idle)
        <2> HIDE DEF Idle
        <2> QED
            BY <1>1, <1>2 DEF StraysTo, Straying
    <1> QED
        BY <1>3, StraysToKeeps

\* The search that begins is in the top layer; the others are alone no more.
LEMMA BeginStrays ==
    ASSUME SInv, RInv, NEW s \in Searchers, NEW ask \in Requests, Begin(s, ask)
    PROVE  RInv'
    <1> DEFINE c == Size
               v == [Idle EXCEPT !.pc = "layer", !.ask = ask, !.layer = graph.top,
                                 !.ep = graph.entry, !.alone = (Active = {})]
               Left(t) == [search[t] EXCEPT !.alone = FALSE]
    <1>1. /\ search' = [t \in Searchers |-> IF t = s THEN v ELSE Left(t)]
          /\ graph' = graph /\ marks' = marks /\ wrapped' = wrapped
        BY DEF Begin
    <1>2. /\ c \in Nat /\ graph \in GraphOf(c) /\ graph.entry \in 1 .. c /\ graph.top \in Nat
          /\ ask.q \in Points
        BY HeldIs, SearchAssumption DEF SInv
    <1>3. v.pc = "layer" /\ v.ask = ask /\ v.layer = graph.top /\ v.ep = graph.entry
        BY DEF Idle
    <1>4. ASSUME NEW t \in Searchers
          PROVE  /\ Left(t).pc = search[t].pc /\ Left(t).ask = search[t].ask
                 /\ Left(t).layer = search[t].layer /\ Left(t).ep = search[t].ep
                 /\ Left(t).gen = search[t].gen /\ Left(t).open = search[t].open
                 /\ Left(t).todo = search[t].todo /\ Left(t).found = search[t].found
        <2> DEFINE w == search[t]
                   l == [w EXCEPT !.alone = FALSE]
        <2>1. w \in Searches(c)
            BY DEF SInv, Propers
        <2> HIDE DEF w
        <2>2. /\ l.pc = w.pc /\ l.ask = w.ask /\ l.layer = w.layer /\ l.ep = w.ep
              /\ l.gen = w.gen /\ l.open = w.open /\ l.todo = w.todo /\ l.found = w.found
            BY <2>1 DEF Searches
        <2> QED
            BY <2>2 DEF w
    <1> HIDE DEF v, Left
    <1>5. Straying(v, marks, c)
        <2>1. graph.top \in 0 .. graph.top
            BY <1>2
        <2>2. Descend(graph, ask.q, graph.entry, graph.top, graph.top + 1) = graph.entry
            BY <1>2, <2>1, DescendStep
        <2> QED
            BY <1>3, <2>2 DEF Straying, EntryTo
    <1> HIDE DEF c
    <1> SUFFICES ASSUME ~wrapped PROVE Rivals' /\ Strayers'
        BY <1>1 DEF RInv
    <1>6. Rivals /\ Strayers
        BY DEF RInv
    <1>7. Rivals'
        BY <1>1, <1>3, <1>4, <1>6 DEF Rivals
    <1>8. \A t \in Searchers : Straying(search'[t], marks, c)
        <2> SUFFICES ASSUME NEW t \in Searchers, t # s PROVE Straying(Left(t), marks, c)
            BY <1>1, <1>5
        <2> DEFINE w == search[t]
                   l == Left(t)
        <2>1. Straying(w, marks, c)
            BY <1>6 DEF Strayers, c
        <2>2. /\ l.pc = w.pc /\ l.ask = w.ask /\ l.layer = w.layer /\ l.ep = w.ep
              /\ l.gen = w.gen /\ l.open = w.open /\ l.todo = w.todo /\ l.found = w.found
            BY <1>4
        <2> HIDE DEF w, l
        <2>3. Straying(l, marks, c)
            BY <2>1, <2>2, StraysAlike
        <2> QED
            BY <2>3 DEF l
    <1>9. Size' = c /\ \A w, m, d : Straying(w, m, d)' <=> Straying(w, m, d)
        BY <1>1, StraysStill, Unmoved DEF c
    <1>10. \A t \in Searchers : Straying(search[t], marks, Size)'
        BY <1>1, <1>8, <1>9
    <1> QED
        BY <1>7, <1>10 DEF Strayers

\* Whoever searches while the arrays move has no results to speak of.
LEMMA GrowStrays ==
    ASSUME SInv, RInv, Grow
    PROVE  RInv'
    <1> DEFINE c == Size
               moved == c >= capacity \/ c >= Len(marks)
    <1>1. /\ c >= Len(marks) \/ marks' = marks
          /\ search' = [s \in Searchers |->
                 IF moved /\ s \in Active THEN Undefined ELSE search[s]]
          /\ graph' = graph /\ wrapped' = wrapped
        BY DEF Grow, Size, Undefined
    <1>2. Undefined.pc = "undefined"
        BY HeldIs, IdleIs DEF SInv
    <1> HIDE DEF moved
    <1> SUFFICES ASSUME ~wrapped PROVE Rivals' /\ Strayers'
        BY <1>1 DEF RInv
    <1>3. Rivals /\ Strayers
        BY DEF RInv
    <1>4. Rivals'
        BY <1>1, <1>2, <1>3 DEF Rivals
    <1>5. \A s \in Searchers : Straying(search'[s], marks', c)
        <2> SUFFICES ASSUME NEW s \in Searchers PROVE Straying(search'[s], marks', c)
            OBVIOUS
        <2>1. CASE moved /\ s \in Active
            <3>1. search'[s].pc = "undefined"
                BY <1>1, <1>2, <2>1
            <3> QED
                BY <3>1 DEF Straying
        <2>2. CASE s \notin Active
            <3>1. search'[s].pc = "idle"
                BY <1>1, <2>2 DEF Active
            <3> QED
                BY <3>1 DEF Straying
        <2>3. CASE ~moved
            <3>1. search'[s] = search[s] /\ marks' = marks
                BY <1>1, <2>3 DEF moved
            <3> QED
                BY <1>3, <3>1 DEF Strayers
        <2> QED
            BY <2>1, <2>2, <2>3
    <1>6. Size' = c /\ \A w, m, d : Straying(w, m, d)' <=> Straying(w, m, d)
        BY <1>1, StraysStill, Unmoved
    <1>7. \A s \in Searchers : Straying(search[s], marks, Size)'
        BY <1>5, <1>6
    <1> QED
        BY <1>4, <1>7 DEF Strayers

\* Nobody searches during an insertion.
LEMMA LinkStrays ==
    ASSUME NEW p \in Points, NEW level \in 0 .. MaxLevel, Link(p, level)
    PROVE  RInv'
    <1>1. \A s \in Searchers : search'[s].pc = "idle"
        BY DEF Link, Active
    <1> QED
        BY <1>1 DEF RInv, Rivals, Strayers, Straying

\* Every step preserves it.
LEMMA NextStrays == SInv /\ RInv /\ [Next]_vars => RInv'
    <1> SUFFICES ASSUME SInv, RInv, [Next]_vars PROVE RInv'
        OBVIOUS
    <1>1. CASE \E s \in Searchers : Step(s)
        BY <1>1, OpenLayerStrays, VisitStrays, SkipStrays, LeaveStrays DEF Step
    <1>2. CASE \E s \in Searchers : \E ask \in Requests : Begin(s, ask)
        BY <1>2, BeginStrays
    <1>3. CASE Grow
        BY <1>3, GrowStrays
    <1>4. CASE \E p \in Points, level \in 0 .. MaxLevel : Link(p, level)
        BY <1>4, LinkStrays
    <1>5. CASE UNCHANGED vars
        <2>1. graph' = graph /\ marks' = marks /\ search' = search /\ wrapped' = wrapped
            BY <1>5 DEF vars
        <2>2. Size' = Size /\ \A w, m, c : Straying(w, m, c)' <=> Straying(w, m, c)
            BY <2>1, StraysStill, Unmoved
        <2>3. Strayers => Strayers'
            <3>1. Strayers => \A s \in Searchers : Straying(search[s], marks, Size)'
                BY <2>1, <2>2 DEF Strayers
            <3> QED
                BY <3>1 DEF Strayers
        <2>4. Rivals => Rivals'
            BY <2>1 DEF Rivals
        <2> QED
            BY <2>1, <2>3, <2>4 DEF RInv
    <1> QED
        BY <1>1, <1>2, <1>3, <1>4, <1>5 DEF Next

\* Searches that overlap never share a generation before it wraps; each goes on
\* from what search_layer has after some round or look, with its marks on nodes
\* that search_layer has visited by then, as long as a beam wider than one has
\* room.
THEOREM OverlapInvariant == Spec => []RInv
    <1>1. Init => RInv
        <2> SUFFICES ASSUME Init PROVE RInv
            OBVIOUS
        <2>1. SInv
            BY InitHolds
        <2>2. \A s \in Searchers : search[s] = Idle
            BY DEF Init
        <2>3. Idle.pc = "idle"
            BY <2>1, HeldIs, IdleIs DEF SInv
        <2> HIDE DEF Idle
        <2> QED
            BY <2>2, <2>3 DEF RInv, Rivals, Strayers, Straying
    <1> QED
        BY <1>1, SearchInvariant, NextStrays, PTL DEF Spec

LEMMA InvOnlyRepeatsHide == RInv => OnlyRepeatsHide
    BY DEF RInv, Strayers, Straying, OnlyRepeatsHide, Returning, Size

\* Searches that overlap overwrite each other's marks and visit nodes again:
\* before the generations have started again, a document that one of them does
\* not return has lost its place to a repetition of another, if the beam is as
\* wide as the graph.
THEOREM OnlyRepetitionsHide == Spec => []OnlyRepeatsHide
    BY OverlapInvariant, InvOnlyRepeatsHide, PTL

=============================================================================
