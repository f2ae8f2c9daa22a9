--------------------------- MODULE HnswGraphProofs ---------------------------
(* Proofs about HnswGraph: what search_layer can return, and what insert   *)
(* does to the lists of a graph, for every graph the index can hold.       *)
EXTENDS HnswGraph, FiniteSetTheorems, WellFoundedInduction, TLAPS

-----------------------------------------------------------------------------
(* Induction over the natural numbers, about sets.                         *)

LEMMA LeastNat ==
    ASSUME NEW T, T \subseteq Nat, T # {}
    PROVE  \E n \in T : \A m \in T : n <= m
    <1>1. IsWellFoundedOn(OpToRel(<, Nat), Nat)
        BY NatLessThanWellFounded
    <1>2. PICK n \in T : \A m \in T : <<m, n>> \notin OpToRel(<, Nat)
        BY <1>1, WFMin, Zenon
    <1>3. \A m \in T : ~(m < n)
        BY <1>2 DEF OpToRel
    <1>4. n \in Nat /\ \A m \in T : m \in Nat
        OBVIOUS
    <1> QED
        BY <1>3, <1>4

LEMMA Induction ==
    ASSUME NEW S, 0 \in S, \A n \in Nat : n \in S => n + 1 \in S
    PROVE  Nat \subseteq S
    <1> SUFFICES ASSUME Nat \ S # {} PROVE FALSE
        OBVIOUS
    <1>1. PICK n \in Nat \ S : \A m \in Nat \ S : n <= m
        BY LeastNat
    <1>2. n # 0 /\ n - 1 \in Nat /\ (n - 1) + 1 = n /\ ~(n <= n - 1)
        OBVIOUS
    <1>3. n - 1 \in S
        BY <1>1, <1>2
    <1> QED
        BY <1>2, <1>3

-----------------------------------------------------------------------------
(* Recursive functions over 0 .. n, and folds: F gives the step, S a set   *)
(* that it does not leave.                                                 *)

Keeps(S, n, F) == \A a \in S : \A i \in 1 .. n : F[a][i] \in S

LEMMA RecursionExists ==
    ASSUME NEW S, NEW base \in S, NEW n \in Nat, NEW F, Keeps(S, n, F)
    PROVE  \E h \in [0 .. n -> S] : h[0] = base /\ \A i \in 1 .. n : h[i] = F[h[i - 1]][i]
    <1> DEFINE Up(k) == \E h \in [0 .. k -> S] :
                            h[0] = base /\ \A i \in 1 .. k : h[i] = F[h[i - 1]][i]
               T == {k \in Nat : k <= n => Up(k)}
    <1>1. 0 \in T
        <2>1. [i \in 0 .. 0 |-> base] \in [0 .. 0 -> S] /\ [i \in 0 .. 0 |-> base][0] = base
            OBVIOUS
        <2>2. 1 .. 0 = {}
            OBVIOUS
        <2>3. Up(0)
            BY <2>1, <2>2
        <2> QED
            BY <2>3
    <1>2. ASSUME NEW k \in Nat, k \in T
          PROVE  k + 1 \in T
        <2> SUFFICES ASSUME k + 1 <= n PROVE Up(k + 1)
            OBVIOUS
        <2>1. PICK h \in [0 .. k -> S] : h[0] = base /\ \A i \in 1 .. k : h[i] = F[h[i - 1]][i]
            BY <1>2
        <2> DEFINE last == F[h[k]][k + 1]
                   g == [i \in 0 .. k + 1 |-> IF i = k + 1 THEN last ELSE h[i]]
        <2>2. last \in S
            BY DEF Keeps
        <2> HIDE DEF last
        <2>3. g \in [0 .. k + 1 -> S] /\ g[0] = base
            BY <2>1, <2>2
        <2>4. ASSUME NEW i \in 1 .. k + 1
              PROVE  g[i] = F[g[i - 1]][i]
            <3>1. CASE i = k + 1
                BY <3>1 DEF last
            <3>2. CASE i # k + 1
                BY <2>1, <3>2
            <3> QED
                BY <3>1, <3>2
        <2> HIDE DEF g
        <2> QED
            BY <2>3, <2>4
    <1> HIDE DEF T
    <1>3. n \in T
        BY <1>1, <1>2, Induction
    <1> QED
        BY <1>3 DEF T

LEMMA RecursionStays ==
    ASSUME NEW S, NEW n \in Nat, NEW h, h[0] \in S,
           \A i \in 1 .. n : h[i - 1] \in S => h[i] \in S
    PROVE  \A i \in 0 .. n : h[i] \in S
    <1> DEFINE T == {k \in Nat : k <= n => h[k] \in S}
    <1>1. 0 \in T
        OBVIOUS
    <1>2. ASSUME NEW k \in Nat, k \in T
          PROVE  k + 1 \in T
        <2> SUFFICES ASSUME k + 1 <= n PROVE h[k + 1] \in S
            OBVIOUS
        <2>1. k + 1 \in 1 .. n /\ (k + 1) - 1 = k /\ k <= n
            OBVIOUS
        <2> QED
            BY <1>2, <2>1
    <1> HIDE DEF T
    <1>3. Nat \subseteq T
        BY <1>1, <1>2, Induction
    <1> QED
        BY <1>3 DEF T

\* The same from high + 1 down to low.
KeepsDown(S, low, high, F) == \A a \in S : \A l \in low .. high : F[a][l] \in S

IsDown(h, S, base, low, high, F) ==
    /\ h \in [low .. high + 1 -> S]
    /\ h[high + 1] = base
    /\ \A l \in low .. high : h[l] = F[h[l + 1]][l]

LEMMA DescentExists ==
    ASSUME NEW S, NEW base \in S, NEW low \in Nat, NEW high \in Nat, low <= high, NEW F,
           KeepsDown(S, low, high, F)
    PROVE  \E h : IsDown(h, S, base, low, high, F)
    <1> DEFINE n == high + 1 - low
               G == [a \in S |-> [i \in 1 .. n |-> F[a][high + 1 - i]]]
    <1>1. n \in Nat
        OBVIOUS
    <1>2. \A i \in 1 .. n : high + 1 - i \in low .. high
        OBVIOUS
    <1>3. \A a \in S, i \in 1 .. n : G[a][i] = F[a][high + 1 - i]
        OBVIOUS
    <1> HIDE DEF G
    <1>4. Keeps(S, n, G)
        BY <1>2, <1>3 DEF Keeps, KeepsDown
    <1>5. PICK g \in [0 .. n -> S] : g[0] = base /\ \A i \in 1 .. n : g[i] = G[g[i - 1]][i]
        BY <1>1, <1>4, RecursionExists
    <1> DEFINE h == [l \in low .. high + 1 |-> g[high + 1 - l]]
    <1>6. \A l \in low .. high + 1 : high + 1 - l \in 0 .. n
        OBVIOUS
    <1>7. h \in [low .. high + 1 -> S] /\ h[high + 1] = base
        <2>1. high + 1 \in low .. high + 1 /\ high + 1 - (high + 1) = 0
            OBVIOUS
        <2> QED
            BY <1>5, <1>6, <2>1
    <1>8. ASSUME NEW l \in low .. high
          PROVE  h[l] = F[h[l + 1]][l]
        <2>1. /\ high + 1 - l \in 1 .. n /\ (high + 1 - l) - 1 = high + 1 - (l + 1)
              /\ high + 1 - (high + 1 - l) = l
              /\ l \in low .. high + 1 /\ l + 1 \in low .. high + 1
            OBVIOUS
        <2>2. g[high + 1 - l] = G[g[high + 1 - (l + 1)]][high + 1 - l]
            BY <1>5, <2>1
        <2>3. g[high + 1 - (l + 1)] \in S
            BY <1>5, <1>6, <2>1
        <2> QED
            BY <1>3, <2>1, <2>2, <2>3
    <1> HIDE DEF h
    <1>9. IsDown(h, S, base, low, high, F)
        BY <1>7, <1>8 DEF IsDown
    <1> QED
        BY <1>9

LEMMA DescentStays ==
    ASSUME NEW P, NEW low \in Nat, NEW high \in Nat, low <= high, NEW h,
           h[high + 1] \in P[high + 1],
           \A l \in low .. high : h[l + 1] \in P[l + 1] => h[l] \in P[l]
    PROVE  \A l \in low .. high + 1 : h[l] \in P[l]
    <1> DEFINE T == {k \in Nat : k <= high + 1 - low => h[high + 1 - k] \in P[high + 1 - k]}
    <1>1. 0 \in T
        <2>1. high + 1 - 0 = high + 1
            OBVIOUS
        <2> QED
            BY <2>1
    <1>2. ASSUME NEW k \in Nat, k \in T
          PROVE  k + 1 \in T
        <2> SUFFICES ASSUME k + 1 <= high + 1 - low
                     PROVE  h[high + 1 - (k + 1)] \in P[high + 1 - (k + 1)]
            OBVIOUS
        <2>1. /\ high + 1 - (k + 1) \in low .. high /\ (high + 1 - (k + 1)) + 1 = high + 1 - k
              /\ k <= high + 1 - low
            OBVIOUS
        <2> QED
            BY <1>2, <2>1
    <1> HIDE DEF T
    <1>3. Nat \subseteq T
        BY <1>1, <1>2, Induction
    <1> SUFFICES ASSUME NEW l \in low .. high + 1 PROVE h[l] \in P[l]
        OBVIOUS
    <1>4. high + 1 - l \in Nat /\ high + 1 - l <= high + 1 - low /\ high + 1 - (high + 1 - l) = l
        OBVIOUS
    <1> QED
        BY <1>3, <1>4 DEF T

\* What FoldLeft computes, on the sets of places of a sequence of length n.
IsFold(it, S, base, n, F) ==
    /\ it \in [SUBSET (1 .. n) -> S]
    /\ it[{}] = base
    /\ \A s \in SUBSET (1 .. n) : s # {} => it[s] = F[it[s \ {Max(s)}]][Max(s)]

LEMMA MaxOf ==
    ASSUME NEW k \in Nat, NEW s, s \subseteq 1 .. k, k \in s
    PROVE  Max(s) = k
    <1>1. \A y \in s : y \in Nat /\ k >= y
        OBVIOUS
    <1>2. Max(s) \in s /\ \A y \in s : Max(s) >= y
        BY <1>1 DEF Max
    <1>3. Max(s) >= k /\ k >= Max(s) /\ Max(s) \in Nat
        BY <1>1, <1>2
    <1> QED
        BY <1>3

LEMMA MaxIn ==
    ASSUME NEW n \in Nat, NEW s, s \subseteq 1 .. n, s # {}
    PROVE  Max(s) \in s
    <1> DEFINE T == {n - x : x \in s}
    <1>0. \A x \in s : x \in Nat /\ n - x \in Nat
        OBVIOUS
    <1>1. T \subseteq Nat /\ T # {}
        BY <1>0
    <1>2. PICK t \in T : \A u \in T : t <= u
        BY <1>1, LeastNat
    <1>3. PICK x \in s : t = n - x
        OBVIOUS
    <1>4. \A y \in s : x >= y
        <2> SUFFICES ASSUME NEW y \in s PROVE x >= y
            OBVIOUS
        <2>1. n - x <= n - y
            BY <1>2, <1>3
        <2> QED
            BY <1>0, <2>1
    <1> QED
        BY <1>4 DEF Max

LEMMA FoldExists ==
    ASSUME NEW S, NEW base \in S, NEW n \in Nat, NEW F, Keeps(S, n, F)
    PROVE  \E it : IsFold(it, S, base, n, F)
    <1> DEFINE T == {k \in Nat : k <= n => \E it : IsFold(it, S, base, k, F)}
    <1>1. 0 \in T
        <2>1. 1 .. 0 = {} /\ SUBSET {} = {{}}
            OBVIOUS
        <2>2. IsFold([s \in SUBSET (1 .. 0) |-> base], S, base, 0, F)
            BY <2>1 DEF IsFold
        <2> QED
            BY <2>2
    <1>2. ASSUME NEW k \in Nat, k \in T
          PROVE  k + 1 \in T
        <2> SUFFICES ASSUME k + 1 <= n PROVE \E it : IsFold(it, S, base, k + 1, F)
            OBVIOUS
        <2>1. PICK it : IsFold(it, S, base, k, F)
            BY <1>2
        <2> DEFINE new == [s \in SUBSET (1 .. k + 1) |->
                              IF k + 1 \in s THEN F[it[s \ {k + 1}]][k + 1] ELSE it[s]]
        <2>2. \A s \in SUBSET (1 .. k + 1) :
                  /\ k + 1 \notin s => s \in SUBSET (1 .. k)
                  /\ s \ {k + 1} \in SUBSET (1 .. k)
            OBVIOUS
        <2>3. k + 1 \in 1 .. n
            OBVIOUS
        <2>4. new \in [SUBSET (1 .. k + 1) -> S]
            <3> SUFFICES ASSUME NEW s \in SUBSET (1 .. k + 1)
                         PROVE  (IF k + 1 \in s THEN F[it[s \ {k + 1}]][k + 1] ELSE it[s]) \in S
                OBVIOUS
            <3>1. CASE k + 1 \in s
                <4>1. it[s \ {k + 1}] \in S
                    BY <2>1, <2>2 DEF IsFold
                <4> QED
                    BY <2>3, <3>1, <4>1 DEF Keeps
            <3>2. CASE k + 1 \notin s
                BY <2>1, <2>2, <3>2 DEF IsFold
            <3> QED
                BY <3>1, <3>2
        <2>5. \A s \in SUBSET (1 .. k + 1) :
                  new[s] = IF k + 1 \in s THEN F[it[s \ {k + 1}]][k + 1] ELSE it[s]
            OBVIOUS
        <2> HIDE DEF new
        <2>6. new[{}] = base
            <3>1. {} \in SUBSET (1 .. k + 1) /\ k + 1 \notin {}
                OBVIOUS
            <3> QED
                BY <2>1, <2>5, <3>1 DEF IsFold
        <2>7. \A s \in SUBSET (1 .. k) : new[s] = it[s]
            <3>1. \A s \in SUBSET (1 .. k) : s \in SUBSET (1 .. k + 1) /\ k + 1 \notin s
                OBVIOUS
            <3> QED
                BY <2>5, <3>1
        <2>8. ASSUME NEW s \in SUBSET (1 .. k + 1), s # {}
              PROVE  new[s] = F[new[s \ {Max(s)}]][Max(s)]
            <3>1. CASE k + 1 \in s
                <4>1. Max(s) = k + 1
                    <5>1. k + 1 \in Nat /\ s \subseteq 1 .. k + 1
                        OBVIOUS
                    <5> QED
                        BY <3>1, <5>1, MaxOf
                <4> QED
                    BY <2>2, <2>5, <2>7, <3>1, <4>1
            <3>2. CASE k + 1 \notin s
                <4>1. s \in SUBSET (1 .. k) /\ s \ {Max(s)} \in SUBSET (1 .. k)
                    BY <2>2, <3>2
                <4>2. it[s] = F[it[s \ {Max(s)}]][Max(s)]
                    BY <2>1, <2>8, <4>1 DEF IsFold
                <4> QED
                    BY <2>7, <4>1, <4>2
            <3> QED
                BY <3>1, <3>2
        <2>9. IsFold(new, S, base, k + 1, F)
            BY <2>4, <2>6, <2>8 DEF IsFold
        <2> QED
            BY <2>9
    <1> HIDE DEF T
    <1>3. n \in T
        BY <1>1, <1>2, Induction
    <1> QED
        BY <1>3 DEF T

LEMMA Prefix ==
    ASSUME NEW n \in Nat, NEW k \in 1 .. n
    PROVE  k \in Nat /\ k - 1 \in Nat /\ 1 .. k \in SUBSET (1 .. n) /\ 1 .. k # {}
    OBVIOUS

LEMMA FoldStays ==
    ASSUME NEW P, NEW n \in Nat, NEW it, it[{}] \in P[0],
           \A k \in 1 .. n : it[(1 .. k) \ {Max(1 .. k)}] \in P[k - 1] => it[1 .. k] \in P[k]
    PROVE  it[1 .. n] \in P[n]
    <1> DEFINE T == {k \in Nat : k <= n => it[1 .. k] \in P[k]}
    <1>1. 0 \in T
        <2>1. 1 .. 0 = {}
            OBVIOUS
        <2> QED
            BY <2>1
    <1>2. ASSUME NEW k \in Nat, k \in T
          PROVE  k + 1 \in T
        <2> SUFFICES ASSUME k + 1 <= n PROVE it[1 .. k + 1] \in P[k + 1]
            OBVIOUS
        <2>1. k + 1 \in 1 .. n /\ (1 .. k + 1) \ {k + 1} = 1 .. k /\ (k + 1) - 1 = k /\ k <= n
            OBVIOUS
        <2>2. Max(1 .. k + 1) = k + 1
            BY MaxOf
        <2>3. it[1 .. k] \in P[k]
            BY <1>2, <2>1
        <2> QED
            BY <2>1, <2>2, <2>3
    <1> HIDE DEF T
    <1>3. n \in T
        BY <1>1, <1>2, Induction
    <1> QED
        BY <1>3 DEF T

-----------------------------------------------------------------------------
(* Graphs of c nodes, no two at one place.                                 *)

Lists(c) == UNION {[0 .. t -> Seq(1 .. c)] : t \in Nat}

NodeOf(c) ==
    {node \in [doc : Docs, at : Points, top : Nat, deleted : BOOLEAN, neighbors : Lists(c)] :
        node.neighbors \in [0 .. node.top -> Seq(1 .. c)]}

GraphOf(c) ==
    {g \in [nodes : Seq(NodeOf(c)), idMap : [Docs -> 0 .. c], entry : 0 .. c,
            top : Nat, wild : BOOLEAN] :
        /\ Len(g.nodes) = c
        /\ \A m, n \in 1 .. c : g.nodes[m].at = g.nodes[n].at => m = n}

LEMMA GraphIs ==
    ASSUME NEW c \in Nat, NEW g \in GraphOf(c)
    PROVE  /\ g.nodes \in Seq(NodeOf(c)) /\ Len(g.nodes) = c /\ DOMAIN g.nodes = 1 .. c
           /\ g.idMap \in [Docs -> 0 .. c] /\ g.entry \in 0 .. c /\ g.top \in Nat
           /\ g.wild \in BOOLEAN
           /\ \A m, n \in 1 .. c : g.nodes[m].at = g.nodes[n].at => m = n
           /\ \A n \in 1 .. c :
                  /\ g.nodes[n] \in NodeOf(c)
                  /\ g.nodes[n].doc \in Docs /\ g.nodes[n].at \in Points
                  /\ g.nodes[n].top \in Nat /\ g.nodes[n].deleted \in BOOLEAN
                  /\ g.nodes[n].neighbors \in [0 .. g.nodes[n].top -> Seq(1 .. c)]
                  /\ Resolved(g, n) \in 0 .. c
    <1>1. /\ g.nodes \in Seq(NodeOf(c)) /\ Len(g.nodes) = c /\ DOMAIN g.nodes = 1 .. c
          /\ g.idMap \in [Docs -> 0 .. c] /\ g.entry \in 0 .. c /\ g.top \in Nat
          /\ g.wild \in BOOLEAN
          /\ \A m, n \in 1 .. c : g.nodes[m].at = g.nodes[n].at => m = n
        BY DEF GraphOf
    <1>2. ASSUME NEW n \in 1 .. c
          PROVE  /\ g.nodes[n] \in NodeOf(c)
                 /\ g.nodes[n].doc \in Docs /\ g.nodes[n].at \in Points
                 /\ g.nodes[n].top \in Nat /\ g.nodes[n].deleted \in BOOLEAN
                 /\ g.nodes[n].neighbors \in [0 .. g.nodes[n].top -> Seq(1 .. c)]
                 /\ Resolved(g, n) \in 0 .. c
        <2>1. g.nodes[n] \in NodeOf(c)
            BY <1>1
        <2>2. /\ g.nodes[n].doc \in Docs /\ g.nodes[n].at \in Points
              /\ g.nodes[n].top \in Nat /\ g.nodes[n].deleted \in BOOLEAN
              /\ g.nodes[n].neighbors \in [0 .. g.nodes[n].top -> Seq(1 .. c)]
            BY <2>1 DEF NodeOf
        <2> QED
            BY <1>1, <2>1, <2>2 DEF Resolved
    <1> QED
        BY <1>1, <1>2

LEMMA ListIs ==
    ASSUME NEW c \in Nat, NEW g \in GraphOf(c), NEW n \in 1 .. c,
           NEW l \in 0 .. g.nodes[n].top
    PROVE  /\ g.nodes[n].neighbors[l] \in Seq(1 .. c) /\ l \in Nat
           /\ ToSet(g.nodes[n].neighbors[l]) \subseteq 1 .. c
    <1> DEFINE lists == g.nodes[n].neighbors
               list == lists[l]
               top == g.nodes[n].top
    <1>1. lists \in [0 .. top -> Seq(1 .. c)] /\ l \in 0 .. top /\ top \in Nat
        BY GraphIs
    <1> HIDE DEF lists, top
    <1>2. list \in Seq(1 .. c)
        BY <1>1
    <1>3. l \in Nat
        BY <1>1
    <1> HIDE DEF list
    <1>4. ToSet(list) \subseteq 1 .. c
        BY <1>2 DEF ToSet
    <1> QED
        BY <1>2, <1>3, <1>4 DEF list, lists

LEMMA NearerIsOrder ==
    ASSUME NEW c \in Nat, NEW g \in GraphOf(c), NEW q \in Points
    PROVE  /\ \A n \in 1 .. c : Dist(q, g.nodes[n].at) \in Nat
           /\ \A m, n \in 1 .. c :
                  m # n => Dist(q, g.nodes[m].at) # Dist(q, g.nodes[n].at)
           /\ \A m, n \in 1 .. c : m # n => Nearer(g, q, m, n) \/ Nearer(g, q, n, m)
           /\ \A m, n \in 1 .. c : ~(Nearer(g, q, m, n) /\ Nearer(g, q, n, m))
    <1>1. ASSUME NEW p \in Points, NEW r \in Points
          PROVE  Dist(p, r) \in Nat
        <2>1. p \in Nat /\ r \in Nat
            BY GraphAssumption
        <2> QED
            BY <2>1 DEF Dist
    <1>2. \A n \in 1 .. c : g.nodes[n].at \in Points
        BY GraphIs
    <1>3. \A n \in 1 .. c : Dist(q, g.nodes[n].at) \in Nat
        BY <1>1, <1>2
    <1>4. ASSUME NEW m \in 1 .. c, NEW n \in 1 .. c, m # n
          PROVE  Dist(q, g.nodes[m].at) # Dist(q, g.nodes[n].at)
        <2>1. g.nodes[m].at # g.nodes[n].at
            BY <1>4, GraphIs
        <2> QED
            BY <1>2, <2>1, PointsAssumption
    <1> QED
        BY <1>3, <1>4 DEF Nearer

LEMMA NearestIn ==
    ASSUME NEW c \in Nat, NEW g \in GraphOf(c), NEW q \in Points,
           NEW S \in SUBSET (1 .. c), S # {}
    PROVE  /\ Nearest(g, q, S) \in S
           /\ \A m \in S \ {Nearest(g, q, S)} : Nearer(g, q, Nearest(g, q, S), m)
    <1> DEFINE D(n) == Dist(q, g.nodes[n].at)
               T == {D(n) : n \in S}
    <1>1. \A n \in S : D(n) \in Nat
        BY NearerIsOrder
    <1>2. T \subseteq Nat /\ T # {}
        BY <1>1
    <1>3. PICK t \in T : \A u \in T : t <= u
        BY <1>2, LeastNat
    <1>4. PICK n \in S : t = D(n)
        OBVIOUS
    <1>5. ASSUME NEW m \in S \ {n}
          PROVE  Nearer(g, q, n, m)
        <2>1. D(n) <= D(m) /\ D(n) \in Nat /\ D(m) \in Nat
            BY <1>1, <1>3, <1>4
        <2>2. D(n) # D(m)
            BY NearerIsOrder
        <2> QED
            BY <2>1, <2>2 DEF Nearer
    <1> QED
        BY <1>5 DEF Nearest

LEMMA FiniteNodes ==
    ASSUME NEW c \in Nat, NEW S \in SUBSET (1 .. c)
    PROVE  IsFiniteSet(S) /\ Cardinality(S) \in Nat
    <1>1. IsFiniteSet(1 .. c)
        BY FS_Interval
    <1>2. IsFiniteSet(S)
        BY <1>1, FS_Subset
    <1> QED
        BY <1>2, FS_CardinalityType

\* The k nearest nodes of a set.
LEMMA NearestMany ==
    ASSUME NEW c \in Nat, NEW g \in GraphOf(c), NEW q \in Points,
           NEW S \in SUBSET (1 .. c), NEW k \in 0 .. Cardinality(S)
    PROVE  \E T \in SUBSET S :
               Cardinality(T) = k /\ \A m \in T, n \in S \ T : Nearer(g, q, m, n)
    <1> DEFINE Near(j) == \E T \in SUBSET S :
                   Cardinality(T) = j /\ \A m \in T, n \in S \ T : Nearer(g, q, m, n)
               J == {j \in Nat : j <= Cardinality(S) => Near(j)}
    <1>1. 0 \in J
        <2>1. Cardinality({}) = 0 /\ {} \in SUBSET S
            BY FS_EmptySet
        <2> QED
            BY <2>1
    <1>2. ASSUME NEW j \in Nat, j \in J
          PROVE  j + 1 \in J
        <2> SUFFICES ASSUME j + 1 <= Cardinality(S) PROVE Near(j + 1)
            OBVIOUS
        <2>1. Cardinality(S) \in Nat /\ IsFiniteSet(S)
            BY FiniteNodes
        <2>2. j <= Cardinality(S)
            BY <2>1
        <2>3. PICK T \in SUBSET S :
                  Cardinality(T) = j /\ \A m \in T, n \in S \ T : Nearer(g, q, m, n)
            BY <1>2, <2>2
        <2>4. S \ T # {}
            <3>1. T # S
                BY <2>1, <2>3
            <3> QED
                BY <3>1
        <2>5. S \ T \in SUBSET (1 .. c) /\ T \in SUBSET (1 .. c)
            OBVIOUS
        <2> DEFINE x == Nearest(g, q, S \ T)
        <2>6. x \in S \ T /\ \A n \in (S \ T) \ {x} : Nearer(g, q, x, n)
            BY <2>4, <2>5, NearestIn
        <2> HIDE DEF x
        <2>7. Cardinality(T \cup {x}) = j + 1
            <3>1. IsFiniteSet(T)
                BY <2>5, FiniteNodes
            <3> QED
                BY <2>3, <2>6, <3>1, FS_AddElement
        <2>8. T \cup {x} \in SUBSET S
            BY <2>6
        <2>9. \A m \in T \cup {x}, n \in S \ (T \cup {x}) : Nearer(g, q, m, n)
            BY <2>3, <2>6
        <2> QED
            BY <2>7, <2>8, <2>9
    <1> HIDE DEF J
    <1>3. k \in J
        <2>1. k \in Nat
            BY FiniteNodes
        <2> QED
            BY <1>1, <1>2, <2>1, Induction
    <1>4. k <= Cardinality(S)
        BY FiniteNodes
    <1> QED
        BY <1>3, <1>4 DEF J

LEMMA SortedIn ==
    ASSUME NEW c \in Nat, NEW g \in GraphOf(c), NEW q \in Points, NEW S \in SUBSET (1 .. c)
    PROVE  Sorted(g, q, S) \in Seq(S)
    <1>1. IsFiniteSet(S) /\ Cardinality(S) \in Nat
        BY FiniteNodes
    <1>2. ASSUME NEW i \in 1 .. Cardinality(S)
          PROVE  \E n \in S : Cardinality({m \in S : Nearer(g, q, m, n)}) = i - 1
        <2>1. i - 1 \in 0 .. Cardinality(S)
            BY <1>1
        <2>2. PICK T \in SUBSET S :
                  Cardinality(T) = i - 1 /\ \A m \in T, n \in S \ T : Nearer(g, q, m, n)
            BY <2>1, NearestMany
        <2>3. T # S
            BY <1>1, <2>2
        <2>4. S \ T \in SUBSET (1 .. c) /\ S \ T # {}
            BY <2>3
        <2> DEFINE x == Nearest(g, q, S \ T)
        <2>5. x \in S \ T /\ \A n \in (S \ T) \ {x} : Nearer(g, q, x, n)
            BY <2>4, NearestIn
        <2> HIDE DEF x
        <2>6. {m \in S : Nearer(g, q, m, x)} = T
            <3>1. \A m \in (S \ T) \ {x} : ~Nearer(g, q, m, x)
                BY <2>5, NearerIsOrder
            <3>2. ~Nearer(g, q, x, x)
                BY <2>5, NearerIsOrder
            <3> QED
                BY <2>2, <2>5, <3>1, <3>2
        <2> QED
            BY <2>2, <2>5, <2>6
    <1> DEFINE At(i) == CHOOSE n \in S : Cardinality({m \in S : Nearer(g, q, m, n)}) = i - 1
    <1>3. \A i \in 1 .. Cardinality(S) : At(i) \in S
        BY <1>2
    <1> HIDE DEF At
    <1>4. [i \in 1 .. Cardinality(S) |-> At(i)] \in Seq(S)
        BY <1>1, <1>3
    <1> QED
        BY <1>4 DEF Sorted, At

-----------------------------------------------------------------------------
(* search_layer stays within a set V of nodes that is closed under its     *)
(* steps, and returns only those that it accepts.                          *)

Confined(g, layer, V) ==
    \A n \in V : Resolved(g, n) # NoNode =>
        /\ Resolved(g, n) \in V
        /\ layer <= g.nodes[Resolved(g, n)].top =>
               ToSet(g.nodes[Resolved(g, n)].neighbors[layer]) \subseteq V

Accepted(g, V, allowed) == {n \in V : Accepts(g, n, allowed)}

Beams(g, V, allowed) ==
    [visited : SUBSET V, open : SUBSET V, found : SUBSET Accepted(g, V, allowed)]

LEMMA ExamineIn ==
    ASSUME NEW g, NEW q, NEW ef, NEW allowed, NEW V, NEW n \in V,
           NEW beam \in Beams(g, V, allowed)
    PROVE  Examine(g, q, ef, allowed, beam, n) \in Beams(g, V, allowed)
    <1> DEFINE A == Accepted(g, V, allowed)
    <1>1. /\ beam.visited \in SUBSET V /\ beam.open \in SUBSET V /\ beam.found \in SUBSET A
          /\ beam = [visited |-> beam.visited, open |-> beam.open, found |-> beam.found]
        BY DEF Beams
    <1>2. Accepts(g, n, allowed) => Trimmed(g, q, ef, beam.found \cup {n}) \in SUBSET A
        BY <1>1 DEF Trimmed, Accepted
    <1> HIDE DEF A
    <1> DEFINE found == IF Accepts(g, n, allowed)
                          THEN Trimmed(g, q, ef, beam.found \cup {n}) ELSE beam.found
    <1>3. found \in SUBSET A
        BY <1>1, <1>2
    <1> HIDE DEF found
    <1>4. [visited |-> beam.visited \cup {n}, open |-> beam.open \cup {n}, found |-> found]
              \in Beams(g, V, allowed)
        BY <1>1, <1>3 DEF Beams, A
    <1>5. [beam EXCEPT !.visited = @ \cup {n}] \in Beams(g, V, allowed)
        BY <1>1 DEF Beams, A
    <1> QED
        BY <1>4, <1>5 DEF Examine, found

IsExpansion(it, g, q, ef, allowed, rest, list) ==
    it = [s \in SUBSET DOMAIN list |->
             IF s = {} THEN rest
             ELSE Examine(g, q, ef, allowed, it[s \ {Max(s)}], list[Max(s)])]

Expansion(g, q, ef, allowed, rest, list) ==
    (CHOOSE it : IsExpansion(it, g, q, ef, allowed, rest, list))[DOMAIN list]

\* P says what the beam is like behind each number of neighbours.
ExaminesKeep(P, g, q, ef, allowed, V, list) ==
    \A i \in 1 .. Len(list) : \A beam \in P[i - 1] \cap Beams(g, V, allowed) :
        Examine(g, q, ef, allowed, beam, list[i]) \in P[i]

Examined(g, q, ef, allowed, rest, list) ==
    CHOOSE it : IsExpansion(it, g, q, ef, allowed, rest, list)

\* it runs through the neighbours: its value on 1 .. k is the beam behind k of them.
Runs(it, g, q, ef, allowed, rest, list) ==
    /\ it[{}] = rest
    /\ \A k \in 1 .. Len(list) :
           it[1 .. k] = Examine(g, q, ef, allowed, it[(1 .. k) \ {k}], list[k])
    /\ Expansion(g, q, ef, allowed, rest, list) = it[1 .. Len(list)]

LEMMA ExaminedIs ==
    ASSUME NEW g, NEW q, NEW ef, NEW allowed, NEW V, NEW list \in Seq(V),
           NEW rest \in Beams(g, V, allowed)
    PROVE  Runs(Examined(g, q, ef, allowed, rest, list), g, q, ef, allowed, rest, list)
    <1> DEFINE n == Len(list)
               S == Beams(g, V, allowed)
               F == [beam \in S |-> [i \in 1 .. n |-> Examine(g, q, ef, allowed, beam, list[i])]]
    <1>1. n \in Nat /\ DOMAIN list = 1 .. n /\ \A i \in 1 .. n : list[i] \in V
        OBVIOUS
    <1>2. \A beam \in S, i \in 1 .. n : Examine(g, q, ef, allowed, beam, list[i]) \in S
        BY <1>1, ExamineIn
    <1> HIDE DEF S, n
    <1>3. \A beam \in S, i \in 1 .. n : F[beam][i] = Examine(g, q, ef, allowed, beam, list[i])
        OBVIOUS
    <1> HIDE DEF F
    <1>4. Keeps(S, n, F)
        BY <1>2, <1>3 DEF Keeps
    <1>5. rest \in S
        BY DEF S
    <1>6. PICK fold : IsFold(fold, S, rest, n, F)
        BY <1>1, <1>4, <1>5, FoldExists
    <1>7. \A s \in SUBSET (1 .. n) : s # {} =>
              /\ Max(s) \in 1 .. n /\ s \ {Max(s)} \in SUBSET (1 .. n)
              /\ fold[s \ {Max(s)}] \in S
        <2> SUFFICES ASSUME NEW s \in SUBSET (1 .. n), s # {}
                     PROVE  Max(s) \in 1 .. n /\ fold[s \ {Max(s)}] \in S
            OBVIOUS
        <2>1. Max(s) \in s
            BY <1>1, MaxIn
        <2>2. s \ {Max(s)} \in SUBSET (1 .. n)
            OBVIOUS
        <2> QED
            BY <1>6, <2>1, <2>2 DEF IsFold
    <1>8. IsExpansion(fold, g, q, ef, allowed, rest, list)
        <2>1. fold = [s \in SUBSET (1 .. n) |-> fold[s]]
            BY <1>6 DEF IsFold
        <2>2. \A s \in SUBSET (1 .. n) :
                  fold[s] = IF s = {} THEN rest
                            ELSE Examine(g, q, ef, allowed, fold[s \ {Max(s)}], list[Max(s)])
            BY <1>3, <1>6, <1>7 DEF IsFold
        <2> QED
            BY <1>1, <2>1, <2>2 DEF IsExpansion
    <1> DEFINE it == Examined(g, q, ef, allowed, rest, list)
    <1>9. IsExpansion(it, g, q, ef, allowed, rest, list)
        BY <1>8 DEF Examined
    <1>10. Expansion(g, q, ef, allowed, rest, list) = it[1 .. n]
        BY <1>1 DEF Expansion, Examined
    <1> HIDE DEF it
    <1>11. it[{}] = rest
        <2>1. {} \in SUBSET (1 .. n)
            OBVIOUS
        <2> QED
            BY <1>1, <1>9, <2>1 DEF IsExpansion
    <1>12. ASSUME NEW k \in 1 .. n
           PROVE  it[1 .. k] = Examine(g, q, ef, allowed, it[(1 .. k) \ {k}], list[k])
        <2>1. k \in Nat /\ k - 1 \in Nat /\ 1 .. k \in SUBSET (1 .. n) /\ 1 .. k # {}
            BY <1>1, Prefix
        <2>2. Max(1 .. k) = k
            BY <2>1, MaxOf
        <2> QED
            BY <1>1, <1>9, <2>1, <2>2 DEF IsExpansion
    <1> QED
        BY <1>10, <1>11, <1>12 DEF it, n, Runs

LEMMA ExaminedStays ==
    ASSUME NEW g, NEW q, NEW ef, NEW allowed, NEW V, NEW list \in Seq(V),
           NEW rest \in Beams(g, V, allowed), NEW P, rest \in P[0],
           ExaminesKeep(P, g, q, ef, allowed, V, list)
    PROVE  Expansion(g, q, ef, allowed, rest, list)
               \in P[Len(list)] \cap Beams(g, V, allowed)
    <1> DEFINE n == Len(list)
               S == Beams(g, V, allowed)
               it == Examined(g, q, ef, allowed, rest, list)
               Q == [k \in Nat |-> P[k] \cap S]
    <1>1. n \in Nat /\ \A i \in 1 .. n : list[i] \in V
        OBVIOUS
    <1>2. \A beam \in S, i \in 1 .. n : Examine(g, q, ef, allowed, beam, list[i]) \in S
        BY <1>1, ExamineIn
    <1>3. \A k \in 1 .. n : \A b \in P[k - 1] \cap S : Examine(g, q, ef, allowed, b, list[k]) \in P[k]
        BY DEF ExaminesKeep
    <1>4. /\ it[{}] = rest
          /\ \A k \in 1 .. n : it[1 .. k] = Examine(g, q, ef, allowed, it[(1 .. k) \ {k}], list[k])
          /\ Expansion(g, q, ef, allowed, rest, list) = it[1 .. n]
        <2>1. Runs(it, g, q, ef, allowed, rest, list)
            BY ExaminedIs
        <2> HIDE DEF it
        <2> QED
            BY <2>1 DEF Runs
    <1>5. rest \in S
        OBVIOUS
    <1> HIDE DEF S, n, it
    <1>6. it[{}] \in Q[0]
        BY <1>4, <1>5
    <1>7. ASSUME NEW k \in 1 .. n, it[(1 .. k) \ {Max(1 .. k)}] \in Q[k - 1]
          PROVE  it[1 .. k] \in Q[k]
        <2> DEFINE last == it[(1 .. k) \ {k}]
        <2>1. k \in Nat /\ k - 1 \in Nat
            BY <1>1, Prefix
        <2>2. Max(1 .. k) = k
            BY <2>1, MaxOf
        <2>3. it[1 .. k] = Examine(g, q, ef, allowed, last, list[k])
            BY <1>4
        <2>4. last \in S /\ last \in P[k - 1]
            BY <1>7, <2>1, <2>2
        <2> HIDE DEF last
        <2>5. it[1 .. k] \in S
            BY <1>2, <2>3, <2>4
        <2>6. it[1 .. k] \in P[k]
            BY <1>3, <2>3, <2>4
        <2> QED
            BY <2>1, <2>5, <2>6
    <1> HIDE DEF Q
    <1>8. it[1 .. n] \in Q[n]
        BY <1>1, <1>6, <1>7, FoldStays
    <1> QED
        BY <1>1, <1>4, <1>8 DEF Q, S, n

\* What expanding the nearest candidate leads to: its node, the neighbours that are
\* examined, and what the beam is before them.
Aim(g, q, beam) == Resolved(g, Nearest(g, q, beam.open))

Barren(g, q, layer, beam) ==
    Aim(g, q, beam) = NoNode \/ layer > g.nodes[Aim(g, q, beam)].top

Ahead(g, q, layer, beam) == g.nodes[Aim(g, q, beam)].neighbors[layer]

Rest(g, q, beam) == [beam EXCEPT !.open = @ \ {Nearest(g, q, beam.open)}]

LEMMA RestIn ==
    ASSUME NEW c \in Nat, NEW g \in GraphOf(c), NEW q \in Points, NEW allowed,
           NEW V \in SUBSET (1 .. c), NEW beam \in Beams(g, V, allowed), beam.open # {}
    PROVE  /\ Nearest(g, q, beam.open) \in beam.open /\ Nearest(g, q, beam.open) \in V
           /\ Rest(g, q, beam) \in Beams(g, V, allowed)
    <1>1. beam.open \in SUBSET V /\ beam.open \in SUBSET (1 .. c)
        BY DEF Beams
    <1>2. Nearest(g, q, beam.open) \in V /\ Nearest(g, q, beam.open) \in beam.open
        BY <1>1, NearestIn
    <1>3. Rest(g, q, beam) \in Beams(g, V, allowed)
        BY <1>1 DEF Beams, Rest
    <1> QED
        BY <1>2, <1>3

LEMMA AheadIn ==
    ASSUME NEW c \in Nat, NEW g \in GraphOf(c), NEW q \in Points, NEW layer \in Nat,
           NEW allowed, NEW V \in SUBSET (1 .. c), Confined(g, layer, V),
           NEW beam \in Beams(g, V, allowed), beam.open # {}, ~Barren(g, q, layer, beam)
    PROVE  /\ Aim(g, q, beam) \in V /\ Ahead(g, q, layer, beam) \in Seq(V)
           /\ layer \in 0 .. g.nodes[Aim(g, q, beam)].top
    <1> DEFINE best == Nearest(g, q, beam.open)
               node == Aim(g, q, beam)
               list == Ahead(g, q, layer, beam)
    <1>1. best \in V
        BY RestIn
    <1>2. /\ node = Resolved(g, best) /\ list = g.nodes[node].neighbors[layer]
          /\ ~(node = NoNode \/ layer > g.nodes[node].top)
        BY DEF Aim, Ahead, Barren
    <1> HIDE DEF best, node, list
    <1>3. node \in V /\ node \in 1 .. c /\ g.nodes[node].top \in Nat
        BY <1>1, <1>2, GraphIs DEF Confined
    <1>4. layer <= g.nodes[node].top /\ layer \in 0 .. g.nodes[node].top
        BY <1>2, <1>3
    <1>5. ToSet(list) \subseteq V
        BY <1>1, <1>2, <1>4 DEF Confined
    <1>6. list \in Seq(1 .. c)
        BY <1>2, <1>3, <1>4, ListIs
    <1>7. list \in Seq(V)
        <2>1. \A i \in 1 .. Len(list) : list[i] \in V
            BY <1>5, <1>6 DEF ToSet
        <2> QED
            BY <1>6, <2>1
    <1> QED
        BY <1>3, <1>4, <1>7 DEF node, list

LEMMA ExpandIs ==
    ASSUME NEW g, NEW q, NEW ef, NEW layer, NEW allowed, NEW beam
    PROVE  Expand(g, q, ef, layer, allowed, beam) =
               IF Barren(g, q, layer, beam) THEN Rest(g, q, beam)
               ELSE Expansion(g, q, ef, allowed, Rest(g, q, beam), Ahead(g, q, layer, beam))
    BY DEF Expand, Barren, Rest, Ahead, Aim, FoldLeft, MapThenFoldSet, IsExpansion, Expansion

LEMMA ExpandIn ==
    ASSUME NEW c \in Nat, NEW g \in GraphOf(c), NEW q \in Points, NEW ef, NEW layer \in Nat,
           NEW allowed, NEW V \in SUBSET (1 .. c), Confined(g, layer, V),
           NEW beam \in Beams(g, V, allowed), beam.open # {}
    PROVE  Expand(g, q, ef, layer, allowed, beam) \in Beams(g, V, allowed)
    <1> DEFINE rest == Rest(g, q, beam)
               list == Ahead(g, q, layer, beam)
    <1>1. rest \in Beams(g, V, allowed)
        BY RestIn
    <1>2. CASE Barren(g, q, layer, beam)
        BY <1>1, <1>2, ExpandIs
    <1>3. CASE ~Barren(g, q, layer, beam)
        <2>1. list \in Seq(V)
            BY <1>3, AheadIn
        <2>4. Expand(g, q, ef, layer, allowed, beam) = Expansion(g, q, ef, allowed, rest, list)
            BY <1>3, ExpandIs
        <2> HIDE DEF list, rest
        <2> DEFINE P == [i \in Nat |-> Beams(g, V, allowed)]
        <2>2. rest \in P[0] /\ ExaminesKeep(P, g, q, ef, allowed, V, list)
            <3>1. \A i \in 1 .. Len(list) : list[i] \in V
                BY <2>1
            <3> QED
                BY <1>1, <3>1, ExamineIn DEF ExaminesKeep
        <2> HIDE DEF P
        <2>3. Expansion(g, q, ef, allowed, rest, list)
                  \in P[Len(list)] \cap Beams(g, V, allowed)
            BY <1>1, <2>1, <2>2, ExaminedStays
        <2> QED
            BY <2>3, <2>4
    <1> QED
        BY <1>2, <1>3

First(g, ep, allowed) ==
    [visited |-> {ep}, open |-> {ep}, found |-> IF Accepts(g, ep, allowed) THEN {ep} ELSE {}]

Round(g, q, ef, layer, allowed, beam) ==
    IF Finished(g, q, ef, beam) THEN beam ELSE Expand(g, q, ef, layer, allowed, beam)

\* P says what the beam is like behind each number of rounds.
RoundsKeep(P, g, q, ef, layer, allowed, V, c) ==
    \A i \in 1 .. c : \A beam \in P[i - 1] \cap Beams(g, V, allowed) :
        Round(g, q, ef, layer, allowed, beam) \in P[i]

\* The beam behind each number of rounds.
Rounds(g, q, ep, ef, layer, allowed) ==
    CHOOSE h : h = [i \in 0 .. Len(g.nodes) |->
                       IF i = 0 THEN First(g, ep, allowed)
                       ELSE Round(g, q, ef, layer, allowed, h[i - 1])]

\* r goes through the rounds of a search among V, from the entry point ep.
Goes(r, g, q, ep, ef, layer, allowed, V, c) ==
    /\ r[0] = First(g, ep, allowed)
    /\ \A i \in 1 .. c : r[i] = Round(g, q, ef, layer, allowed, r[i - 1])
    /\ \A i \in 0 .. c : r[i] \in Beams(g, V, allowed)
    /\ SearchLayer(g, q, ep, ef, layer, allowed) = r[c].found

LEMMA RoundsAre ==
    ASSUME NEW c \in Nat, NEW g \in GraphOf(c), NEW q \in Points, NEW ef, NEW layer \in Nat,
           NEW allowed, NEW V \in SUBSET (1 .. c), Confined(g, layer, V), NEW ep \in V
    PROVE  Goes(Rounds(g, q, ep, ef, layer, allowed), g, q, ep, ef, layer, allowed, V, c)
    <1> DEFINE S == Beams(g, V, allowed)
               first == First(g, ep, allowed)
               Next(beam) == Round(g, q, ef, layer, allowed, beam)
               IsRounds(h) == h = [i \in 0 .. c |-> IF i = 0 THEN first ELSE Next(h[i - 1])]
               F == [beam \in S |-> [i \in 1 .. c |-> Next(beam)]]
               r == Rounds(g, q, ep, ef, layer, allowed)
    <1>1. first \in S
        BY DEF Beams, Accepted, First
    <1>2. ASSUME NEW beam \in S
          PROVE  Next(beam) \in S
        <2>1. CASE Finished(g, q, ef, beam)
            BY <2>1 DEF Round
        <2>2. CASE ~Finished(g, q, ef, beam)
            <3>1. beam.open # {}
                BY <2>2 DEF Finished
            <3>2. Expand(g, q, ef, layer, allowed, beam) \in S
                BY <3>1, ExpandIn
            <3> QED
                BY <2>2, <3>2 DEF Round
        <2> QED
            BY <2>1, <2>2
    <1>3. Len(g.nodes) = c
        BY GraphIs
    <1>4. r = CHOOSE h : IsRounds(h)
        BY <1>3 DEF Rounds
    <1>5. SearchLayer(g, q, ep, ef, layer, allowed) = r[c].found
        BY <1>3, <1>4 DEF SearchLayer, First, Round
    <1> HIDE DEF S, first, Next, r
    <1>6. \A beam \in S, i \in 1 .. c : F[beam][i] = Next(beam)
        OBVIOUS
    <1> HIDE DEF F
    <1>7. Keeps(S, c, F)
        BY <1>2, <1>6 DEF Keeps
    <1>8. PICK h \in [0 .. c -> S] : h[0] = first /\ \A i \in 1 .. c : h[i] = F[h[i - 1]][i]
        BY <1>1, <1>7, RecursionExists, SMTT(20)
    <1>9. IsRounds(h)
        <2>1. h = [i \in 0 .. c |-> h[i]]
            BY <1>8
        <2>2. \A i \in 0 .. c : h[i] = IF i = 0 THEN first ELSE Next(h[i - 1])
            <3> SUFFICES ASSUME NEW i \in 0 .. c
                         PROVE  h[i] = IF i = 0 THEN first ELSE Next(h[i - 1])
                OBVIOUS
            <3>1. CASE i = 0
                BY <1>8, <3>1
            <3>2. CASE i # 0
                <4>1. i \in 1 .. c /\ i - 1 \in 0 .. c
                    BY <3>2
                <4>2. h[i] = F[h[i - 1]][i] /\ h[i - 1] \in S
                    BY <1>8, <4>1
                <4> QED
                    BY <1>6, <3>2, <4>1, <4>2
            <3> QED
                BY <3>1, <3>2
        <2> QED
            BY <2>1, <2>2
    <1>10. IsRounds(r)
        BY <1>4, <1>9
    <1>11. r[0] = first /\ \A i \in 1 .. c : r[i] = Next(r[i - 1])
        <2>1. \A i \in 0 .. c : r[i] = IF i = 0 THEN first ELSE Next(r[i - 1])
            BY <1>10
        <2> HIDE DEF IsRounds
        <2> QED
            BY <2>1
    <1>12. \A i \in 0 .. c : r[i] \in S
        <2>1. \A i \in 1 .. c : r[i - 1] \in S => r[i] \in S
            BY <1>2, <1>11
        <2> QED
            BY <1>1, <1>11, <2>1, RecursionStays
    <1> QED
        BY <1>5, <1>11, <1>12 DEF first, Next, S, r, Goes

LEMMA SearchLayerStays ==
    ASSUME NEW c \in Nat, NEW g \in GraphOf(c), NEW q \in Points, NEW ef, NEW layer \in Nat,
           NEW allowed, NEW V \in SUBSET (1 .. c), Confined(g, layer, V), NEW ep \in V,
           NEW P, First(g, ep, allowed) \in P[0], RoundsKeep(P, g, q, ef, layer, allowed, V, c)
    PROVE  SearchLayer(g, q, ep, ef, layer, allowed)
               \in {beam.found : beam \in P[c] \cap Beams(g, V, allowed)}
    <1> DEFINE r == Rounds(g, q, ep, ef, layer, allowed)
               T == {i \in Nat : i <= c => r[i] \in P[i]}
    <1>1. /\ r[0] = First(g, ep, allowed)
          /\ \A i \in 1 .. c : r[i] = Round(g, q, ef, layer, allowed, r[i - 1])
          /\ \A i \in 0 .. c : r[i] \in Beams(g, V, allowed)
          /\ SearchLayer(g, q, ep, ef, layer, allowed) = r[c].found
        <2>1. Goes(r, g, q, ep, ef, layer, allowed, V, c)
            BY RoundsAre
        <2> HIDE DEF r
        <2> QED
            BY <2>1 DEF Goes
    <1> HIDE DEF r
    <1>2. 0 \in T
        BY <1>1
    <1>3. ASSUME NEW i \in Nat, i \in T
          PROVE  i + 1 \in T
        <2> SUFFICES ASSUME i + 1 <= c PROVE r[i + 1] \in P[i + 1]
            OBVIOUS
        <2>1. i + 1 \in 1 .. c /\ (i + 1) - 1 = i /\ i <= c /\ i \in 0 .. c
            OBVIOUS
        <2>2. r[i] \in P[i] \cap Beams(g, V, allowed)
            BY <1>1, <1>3, <2>1
        <2>3. r[i + 1] = Round(g, q, ef, layer, allowed, r[i])
            BY <1>1, <2>1
        <2> QED
            BY <2>1, <2>2, <2>3 DEF RoundsKeep
    <1> HIDE DEF T
    <1>4. c \in T
        BY <1>2, <1>3, Induction
    <1> QED
        BY <1>1, <1>4 DEF T

LEMMA SearchLayerIn ==
    ASSUME NEW c \in Nat, NEW g \in GraphOf(c), NEW q \in Points, NEW ef, NEW layer \in Nat,
           NEW allowed, NEW V \in SUBSET (1 .. c), Confined(g, layer, V), NEW ep \in V
    PROVE  SearchLayer(g, q, ep, ef, layer, allowed) \in SUBSET Accepted(g, V, allowed)
    <1> DEFINE P == [i \in Nat |-> {First(g, ep, allowed)} \cup
                        {Round(g, q, ef, layer, allowed, beam) : beam \in Beams(g, V, allowed)}]
    <1>1. First(g, ep, allowed) \in P[0] /\ RoundsKeep(P, g, q, ef, layer, allowed, V, c)
        BY DEF RoundsKeep
    <1> HIDE DEF P
    <1>2. SearchLayer(g, q, ep, ef, layer, allowed)
              \in {beam.found : beam \in P[c] \cap Beams(g, V, allowed)}
        BY <1>1, SearchLayerStays
    <1> QED
        BY <1>2 DEF Beams

-----------------------------------------------------------------------------
(* The coarse descent: V holds, for each layer, nodes that a search of the *)
(* layer does not leave.                                                   *)

\* Resolving a node, and going down, stays in the tower.
Tower(g, c, V) ==
    \A l \in Nat :
        /\ V[l] \in SUBSET (1 .. c)
        /\ V[l + 1] \subseteq V[l]
        /\ \A n \in V[l] : Resolved(g, n) # NoNode => Resolved(g, n) \in V[l]

LinksIn(g, c, V) ==
    \A n \in 1 .. c : \A l \in 0 .. g.nodes[n].top : ToSet(g.nodes[n].neighbors[l]) \subseteq V[l]

All(c) == [l \in Nat |-> 1 .. c]

LEMMA AllIsTower ==
    ASSUME NEW c \in Nat, NEW g \in GraphOf(c)
    PROVE  Tower(g, c, All(c)) /\ LinksIn(g, c, All(c))
    <1>1. \A n \in 1 .. c : Resolved(g, n) # NoNode => Resolved(g, n) \in 1 .. c
        BY GraphIs DEF NoNode
    <1>2. \A n \in 1 .. c : \A l \in 0 .. g.nodes[n].top :
              ToSet(g.nodes[n].neighbors[l]) \subseteq 1 .. c /\ l \in Nat
        BY ListIs
    <1>3. \A l \in Nat : All(c)[l] = 1 .. c /\ All(c)[l + 1] = 1 .. c
        BY DEF All
    <1>4. Tower(g, c, All(c))
        BY <1>1, <1>3 DEF Tower
    <1>5. LinksIn(g, c, All(c))
        BY <1>2, <1>3 DEF LinksIn
    <1> QED
        BY <1>4, <1>5

LEMMA TowerConfines ==
    ASSUME NEW c \in Nat, NEW g \in GraphOf(c), NEW V, Tower(g, c, V), LinksIn(g, c, V),
           NEW l \in Nat
    PROVE  V[l] \in SUBSET (1 .. c) /\ Confined(g, l, V[l])
    <1>1. V[l] \in SUBSET (1 .. c)
        BY DEF Tower
    <1> SUFFICES ASSUME NEW n \in V[l], Resolved(g, n) # NoNode
                 PROVE  /\ Resolved(g, n) \in V[l]
                        /\ l <= g.nodes[Resolved(g, n)].top =>
                               ToSet(g.nodes[Resolved(g, n)].neighbors[l]) \subseteq V[l]
        BY <1>1 DEF Confined
    <1>2. Resolved(g, n) \in V[l]
        BY DEF Tower
    <1>3. Resolved(g, n) \in 1 .. c /\ g.nodes[Resolved(g, n)].top \in Nat
        BY <1>1, <1>2, GraphIs
    <1>4. l <= g.nodes[Resolved(g, n)].top => l \in 0 .. g.nodes[Resolved(g, n)].top
        BY <1>3
    <1> QED
        BY <1>2, <1>3, <1>4 DEF LinksIn

LEMMA FollowIn ==
    ASSUME NEW c \in Nat, NEW g \in GraphOf(c), NEW q \in Points, NEW V, Tower(g, c, V),
           NEW l \in Nat, NEW ep \in V[l], NEW found \in SUBSET V[l]
    PROVE  Follow(g, q, ep, found) \in V[l]
    <1>1. CASE found = {} \/ Resolved(g, Nearest(g, q, found)) = NoNode
        BY <1>1 DEF Follow
    <1>2. CASE ~(found = {} \/ Resolved(g, Nearest(g, q, found)) = NoNode)
        <2>1. found \in SUBSET (1 .. c)
            BY DEF Tower
        <2>2. Nearest(g, q, found) \in V[l]
            BY <1>2, <2>1, NearestIn
        <2> QED
            BY <1>2, <2>2 DEF Follow, Tower
    <1> QED
        BY <1>1, <1>2

LEMMA FollowedIn ==
    ASSUME NEW c \in Nat, NEW g \in GraphOf(c), NEW q \in Points, NEW V, Tower(g, c, V),
           LinksIn(g, c, V), NEW l \in Nat, NEW ep \in V[l], NEW ef, NEW allowed
    PROVE  /\ SearchLayer(g, q, ep, ef, l, allowed) \in SUBSET V[l]
           /\ SearchLayer(g, q, ep, ef, l, allowed) \in SUBSET Accepted(g, V[l], allowed)
           /\ Follow(g, q, ep, SearchLayer(g, q, ep, ef, l, allowed)) \in V[l]
    <1>1. V[l] \in SUBSET (1 .. c) /\ Confined(g, l, V[l])
        BY TowerConfines
    <1>2. SearchLayer(g, q, ep, ef, l, allowed) \in SUBSET Accepted(g, V[l], allowed)
        BY <1>1, SearchLayerIn
    <1>3. SearchLayer(g, q, ep, ef, l, allowed) \in SUBSET V[l]
        BY <1>2 DEF Accepted
    <1> QED
        BY <1>2, <1>3, FollowIn

\* The coarse descent, layer by layer.
Down(g, q, above, l) == Follow(g, q, above, SearchLayer(g, q, above, 1, l, Docs))

Descent(g, q, ep, high, low) ==
    CHOOSE h : h = [l \in low .. high + 1 |-> IF l = high + 1 THEN ep
                                              ELSE Down(g, q, h[l + 1], l)]

Descends(at, g, q, ep, high, low, c) ==
    /\ at[high + 1] = ep
    /\ \A l \in low .. high : at[l] = Down(g, q, at[l + 1], l)
    /\ Descend(g, q, ep, high, low) = at[low]

LEMMA DownIn ==
    ASSUME NEW c \in Nat, NEW g \in GraphOf(c), NEW q \in Points, NEW n \in 1 .. c, NEW l \in Nat
    PROVE  Down(g, q, n, l) \in 1 .. c
    <1>1. Tower(g, c, All(c)) /\ LinksIn(g, c, All(c))
        BY AllIsTower
    <1>2. All(c)[l] = 1 .. c
        BY DEF All
    <1>3. n \in All(c)[l]
        BY <1>2
    <1>4. Down(g, q, n, l) \in All(c)[l]
        BY <1>1, <1>3, FollowedIn DEF Down
    <1> QED
        BY <1>2, <1>4

LEMMA DescentIs ==
    ASSUME NEW c \in Nat, NEW g \in GraphOf(c), NEW q \in Points, NEW high \in Nat,
           NEW low \in Nat, low <= high, NEW ep \in 1 .. c
    PROVE  Descends(Descent(g, q, ep, high, low), g, q, ep, high, low, c)
    <1> DEFINE Step(above, l) == Down(g, q, above, l)
               IsDescent(h) == h = [l \in low .. high + 1 |->
                                       IF l = high + 1 THEN ep ELSE Step(h[l + 1], l)]
               F == [n \in 1 .. c |-> [l \in low .. high |-> Step(n, l)]]
               r == CHOOSE h : IsDescent(h)
    <1>1. Descend(g, q, ep, high, low) = r[low]
        BY DEF Descend, Down
    <1>2. Descent(g, q, ep, high, low) = r
        BY DEF Descent
    <1>3. \A l \in Nat : \A n \in 1 .. c : Step(n, l) \in 1 .. c
        BY DownIn
    <1> HIDE DEF Step, r
    <1>4. \A n \in 1 .. c, l \in low .. high : F[n][l] = Step(n, l) /\ l \in Nat
        <2>1. \A l \in low .. high : l \in Nat
            OBVIOUS
        <2>2. ASSUME NEW n \in 1 .. c, NEW l \in low .. high PROVE F[n][l] = Step(n, l)
            <3>1. F[n] = [k \in low .. high |-> Step(n, k)]
                BY ONLY n \in 1 .. c, Zenon
            <3> QED
                BY ONLY <3>1, l \in low .. high, Zenon
        <2> QED
            BY <2>1, <2>2
    <1> HIDE DEF F
    <1>5. \A n \in 1 .. c : \A l \in low .. high : F[n][l] \in 1 .. c
        BY <1>3, <1>4
    <1>6. PICK h \in [low .. high + 1 -> 1 .. c] :
              h[high + 1] = ep /\ \A l \in low .. high : h[l] = F[h[l + 1]][l]
        <2> HIDE DEF IsDescent
        <2> DEFINE S == 1 .. c
        <2>1. low <= high /\ ep \in S /\ KeepsDown(S, low, high, F)
            BY <1>5 DEF KeepsDown
        <2> HIDE DEF S
        <2>2. \E h : IsDown(h, S, ep, low, high, F)
            BY <2>1, DescentExists
        <2> QED
            BY <2>2 DEF S, IsDown
    <1>7. IsDescent(h)
        <2>1. h = [l \in low .. high + 1 |-> h[l]]
            BY <1>6
        <2>2. \A l \in low .. high + 1 : h[l] = IF l = high + 1 THEN ep ELSE Step(h[l + 1], l)
            <3> SUFFICES ASSUME NEW l \in low .. high + 1, l # high + 1
                         PROVE  h[l] = Step(h[l + 1], l)
                BY <1>6
            <3>1. l \in low .. high /\ l + 1 \in low .. high + 1
                OBVIOUS
            <3> QED
                BY <1>4, <1>6, <3>1
        <2> QED
            BY <2>1, <2>2
    <1>8. IsDescent(r)
        BY <1>7 DEF r
    <1>9. r[high + 1] = ep
        <2>1. high + 1 \in low .. high + 1
            OBVIOUS
        <2> QED
            BY <1>8, <2>1
    <1>10. ASSUME NEW l \in low .. high PROVE r[l] = Step(r[l + 1], l)
        <2>1. l # high + 1 /\ l \in low .. high + 1
            OBVIOUS
        <2> QED
            BY <1>8, <2>1
    <1> HIDE DEF IsDescent
    <1> QED
        BY <1>1, <1>2, <1>9, <1>10 DEF Descends, Step

LEMMA DescendIn ==
    ASSUME NEW c \in Nat, NEW g \in GraphOf(c), NEW q \in Points, NEW V, Tower(g, c, V),
           LinksIn(g, c, V), NEW high \in Nat, NEW low \in Nat, NEW ep \in V[high]
    PROVE  Descend(g, q, ep, high, low) \in V[Lesser(low, high)]
    <1>1. CASE low > high
        BY <1>1 DEF Descend, Lesser
    <1>2. CASE low <= high
        <2> DEFINE r == Descent(g, q, ep, high, low)
                   P == [l \in Nat |-> IF l = high + 1 THEN {ep} ELSE V[l]]
        <2>1. ep \in 1 .. c
            BY DEF Tower
        <2>2. Descends(r, g, q, ep, high, low, c)
            BY <1>2, <2>1, DescentIs
        <2> HIDE DEF r
        <2>3. ASSUME NEW l \in low .. high, r[l + 1] \in P[l + 1]
              PROVE  r[l] \in P[l]
            <3>1. /\ l \in Nat /\ l # high + 1 /\ l + 1 = high + 1 => l = high
                OBVIOUS
            <3>2. r[l + 1] \in V[l]
                <4>1. CASE l = high
                    BY <2>3, <4>1
                <4>2. CASE l # high
                    BY <2>3, <3>1, <4>2 DEF Tower
                <4> QED
                    BY <4>1, <4>2
            <3>3. r[l] = Down(g, q, r[l + 1], l)
                BY <2>2 DEF Descends
            <3>4. Down(g, q, r[l + 1], l) \in V[l]
                BY <3>1, <3>2, FollowedIn DEF Down
            <3> QED
                BY <3>1, <3>3, <3>4
        <2>4. r[high + 1] \in P[high + 1]
            BY <2>2 DEF Descends
        <2> HIDE DEF P
        <2>5. \A l \in low .. high + 1 : r[l] \in P[l]
            BY <1>2, <2>3, <2>4, DescentStays
        <2>6. r[low] \in V[low]
            <3>1. low \in low .. high + 1 /\ low # high + 1
                BY <1>2
            <3> QED
                BY <2>5, <3>1 DEF P
        <2> QED
            BY <1>2, <2>2, <2>6 DEF Descends, Lesser
    <1> QED
        BY <1>1, <1>2

-----------------------------------------------------------------------------
(* Selecting neighbours, and setting one list of a graph.                  *)

Resolves(g, V) == \A n \in V : Resolved(g, n) # NoNode => Resolved(g, n) \in V

Short(V, max) == {list \in Seq(V) : Len(list) <= max}

PickOne(g, q, max, kept, n) ==
    LET node == Resolved(g, n)
    IN  IF Len(kept) >= max \/ node = NoNode THEN kept
        ELSE IF \A i \in DOMAIN kept :
                    Dist(g.nodes[node].at, g.nodes[kept[i]].at) >= Dist(q, g.nodes[n].at)
        THEN Append(kept, node) ELSE kept

LEMMA PickIn ==
    ASSUME NEW g, NEW q, NEW V, Resolves(g, V), NEW max \in Nat,
           NEW kept \in Short(V, max), NEW n \in V
    PROVE  PickOne(g, q, max, kept, n) \in Short(V, max)
    <1>1. kept \in Seq(V) /\ Len(kept) \in Nat /\ Len(kept) <= max
        BY DEF Short
    <1>2. CASE Len(kept) >= max \/ Resolved(g, n) = NoNode
        BY <1>2 DEF PickOne
    <1>3. CASE ~(Len(kept) >= max \/ Resolved(g, n) = NoNode)
        <2>1. Resolved(g, n) \in V /\ Len(kept) + 1 <= max
            BY <1>1, <1>3 DEF Resolves
        <2>2. Append(kept, Resolved(g, n)) \in Short(V, max)
            BY <1>1, <2>1 DEF Short
        <2> QED
            BY <2>2 DEF PickOne
    <1> QED
        BY <1>2, <1>3

IsPicking(it, g, q, max, list) ==
    it = [s \in SUBSET DOMAIN list |->
             IF s = {} THEN <<>>
             ELSE PickOne(g, q, max, it[s \ {Max(s)}], list[Max(s)])]

Picking(g, q, max, list) == (CHOOSE it : IsPicking(it, g, q, max, list))[DOMAIN list]

\* P says what is kept behind each number of candidates.
PicksKeep(P, g, q, V, max, list) ==
    \A i \in 1 .. Len(list) : \A kept \in P[i - 1] \cap Short(V, max) :
        PickOne(g, q, max, kept, list[i]) \in P[i]

LEMMA PickedStays ==
    ASSUME NEW g, NEW q, NEW V, Resolves(g, V), NEW max \in Nat, NEW list \in Seq(V),
           NEW P, <<>> \in P[0], PicksKeep(P, g, q, V, max, list)
    PROVE  Picking(g, q, max, list)
               \in P[Len(list)] \cap Short(V, max)
    <1> DEFINE n == Len(list)
               S == Short(V, max)
               F == [kept \in S |-> [i \in 1 .. n |-> PickOne(g, q, max, kept, list[i])]]
    <1>1. n \in Nat /\ DOMAIN list = 1 .. n /\ \A i \in 1 .. n : list[i] \in V
        OBVIOUS
    <1>2. \A kept \in S, i \in 1 .. n : PickOne(g, q, max, kept, list[i]) \in S
        BY <1>1, PickIn
    <1>5. <<>> \in S
        BY DEF Short
    <1>12. \A k \in 1 .. n : \A b \in P[k - 1] \cap S : PickOne(g, q, max, b, list[k]) \in P[k]
        BY DEF PicksKeep
    <1> HIDE DEF S, n
    <1>3. \A kept \in S, i \in 1 .. n : F[kept][i] = PickOne(g, q, max, kept, list[i])
        OBVIOUS
    <1> HIDE DEF F
    <1>4. Keeps(S, n, F)
        BY <1>2, <1>3 DEF Keeps
    <1>6. PICK fold : IsFold(fold, S, <<>>, n, F)
        BY <1>1, <1>4, <1>5, FoldExists
    <1>7. \A s \in SUBSET (1 .. n) : s # {} =>
              /\ Max(s) \in 1 .. n /\ s \ {Max(s)} \in SUBSET (1 .. n)
              /\ fold[s \ {Max(s)}] \in S
        <2> SUFFICES ASSUME NEW s \in SUBSET (1 .. n), s # {}
                     PROVE  Max(s) \in 1 .. n /\ fold[s \ {Max(s)}] \in S
            OBVIOUS
        <2>1. Max(s) \in s
            BY <1>1, MaxIn
        <2>2. s \ {Max(s)} \in SUBSET (1 .. n)
            OBVIOUS
        <2> QED
            BY <1>6, <2>1, <2>2 DEF IsFold
    <1>8. IsPicking(fold, g, q, max, list)
        <2>1. fold = [s \in SUBSET (1 .. n) |-> fold[s]]
            BY <1>6 DEF IsFold
        <2>2. \A s \in SUBSET (1 .. n) :
                  fold[s] = IF s = {} THEN <<>>
                            ELSE PickOne(g, q, max, fold[s \ {Max(s)}], list[Max(s)])
            BY <1>3, <1>6, <1>7 DEF IsFold
        <2> QED
            BY <1>1, <2>1, <2>2 DEF IsPicking
    <1> DEFINE it == CHOOSE it : IsPicking(it, g, q, max, list)
    <1>9. IsPicking(it, g, q, max, list)
        BY <1>8
    <1> HIDE DEF it
    <1> DEFINE Q == [k \in Nat |-> P[k] \cap S]
    <1>10. it[{}] \in Q[0]
        <2>1. {} \in SUBSET (1 .. n)
            OBVIOUS
        <2>2. it[{}] = <<>>
            BY <1>1, <1>9, <2>1 DEF IsPicking
        <2> QED
            BY <1>5, <2>2
    <1>11. ASSUME NEW k \in 1 .. n, it[(1 .. k) \ {Max(1 .. k)}] \in Q[k - 1]
           PROVE  it[1 .. k] \in Q[k]
        <2> DEFINE last == it[(1 .. k) \ {Max(1 .. k)}]
        <2>1. k \in Nat /\ k - 1 \in Nat /\ 1 .. k \in SUBSET (1 .. n) /\ 1 .. k # {}
            BY <1>1, Prefix
        <2>2. Max(1 .. k) = k
            BY <2>1, MaxOf
        <2>3. it[1 .. k] = PickOne(g, q, max, last, list[k])
            BY <1>1, <1>9, <2>1, <2>2 DEF IsPicking
        <2>4. last \in S /\ last \in P[k - 1]
            BY <1>11, <2>1
        <2> HIDE DEF last
        <2>5. it[1 .. k] \in S
            BY <1>2, <2>3, <2>4
        <2>6. it[1 .. k] \in P[k]
            BY <1>12, <2>3, <2>4
        <2> QED
            BY <2>1, <2>5, <2>6
    <1> HIDE DEF Q
    <1>13. it[1 .. n] \in Q[n]
        BY <1>1, <1>10, <1>11, FoldStays
    <1> QED
        BY <1>1, <1>13 DEF it, Q, S, n, Picking

LEMMA SelectIn ==
    ASSUME NEW c \in Nat, NEW g \in GraphOf(c), NEW q \in Points, NEW V \in SUBSET (1 .. c),
           Resolves(g, V), NEW candidates \in SUBSET V, NEW max \in Nat
    PROVE  SelectNeighbors(g, q, candidates, max) \in Short(V, max)
    <1> DEFINE list == Sorted(g, q, candidates)
    <1>1. list \in Seq(V)
        <2>1. candidates \in SUBSET (1 .. c)
            OBVIOUS
        <2>2. list \in Seq(candidates)
            BY <2>1, SortedIn
        <2> HIDE DEF list
        <2>3. \A i \in 1 .. Len(list) : list[i] \in candidates
            BY <2>2
        <2>4. \A i \in 1 .. Len(list) : list[i] \in V
            BY <2>3
        <2> QED
            BY <2>2, <2>4
    <1>2. SelectNeighbors(g, q, candidates, max) =
              Picking(g, q, max, list)
        BY DEF SelectNeighbors, FoldLeft, MapThenFoldSet, IsPicking, Picking, PickOne
    <1> HIDE DEF list
    <1> DEFINE P == [i \in Nat |-> Short(V, max)]
    <1>3. <<>> \in P[0] /\ PicksKeep(P, g, q, V, max, list)
        <2>1. \A i \in 1 .. Len(list) : list[i] \in V
            BY <1>1
        <2>2. <<>> \in Short(V, max)
            BY DEF Short
        <2> QED
            BY <2>1, <2>2, PickIn DEF PicksKeep
    <1> HIDE DEF P
    <1>4. Picking(g, q, max, list)
              \in P[Len(list)] \cap Short(V, max)
        BY <1>1, <1>3, PickedStays
    <1> QED
        BY <1>2, <1>4

\* What connecting nodes leaves alone.
Frame(g, h, c) ==
    /\ h.idMap = g.idMap /\ h.entry = g.entry /\ h.top = g.top
    /\ \A n \in 1 .. c :
           /\ h.nodes[n].doc = g.nodes[n].doc /\ h.nodes[n].at = g.nodes[n].at
           /\ h.nodes[n].top = g.nodes[n].top /\ h.nodes[n].deleted = g.nodes[n].deleted

\* Only the list of node n in layer l differs.
SameBut(g, h, c, n, l) ==
    \A m \in 1 .. c : \A k \in 0 .. g.nodes[m].top :
        m # n \/ k # l => h.nodes[m].neighbors[k] = g.nodes[m].neighbors[k]

SetList(g, n, l, list) == [g EXCEPT !.nodes[n].neighbors[l] = list]

LEMMA SetListIn ==
    ASSUME NEW c \in Nat, NEW g \in GraphOf(c), NEW n \in 1 .. c,
           NEW l \in 0 .. g.nodes[n].top, NEW list \in Seq(1 .. c)
    PROVE  LET h == SetList(g, n, l, list)
           IN  /\ h \in GraphOf(c) /\ Frame(g, h, c) /\ SameBut(g, h, c, n, l)
               /\ h.wild = g.wild /\ h.nodes[n].neighbors[l] = list
    <1> DEFINE old == g.nodes[n]
               lists == [old.neighbors EXCEPT ![l] = list]
               node == [old EXCEPT !.neighbors = lists]
               h == SetList(g, n, l, list)
    <1>1. /\ g.nodes \in Seq(NodeOf(c)) /\ Len(g.nodes) = c /\ DOMAIN g.nodes = 1 .. c
          /\ old \in NodeOf(c) /\ old.neighbors \in [0 .. old.top -> Seq(1 .. c)]
          /\ old.top \in Nat
        BY GraphIs
    <1>2. lists \in [0 .. old.top -> Seq(1 .. c)] /\ lists[l] = list
        BY <1>1
    <1>3. \A k \in 0 .. old.top : k # l => lists[k] = old.neighbors[k]
        BY <1>1
    <1> HIDE DEF lists
    <1>4. node \in NodeOf(c) /\ node.neighbors = lists
        <2>1. lists \in Lists(c)
            BY <1>1, <1>2 DEF Lists
        <2> QED
            BY <1>1, <1>2, <2>1 DEF NodeOf
    <1>5. node.doc = old.doc /\ node.at = old.at /\ node.top = old.top /\ node.deleted = old.deleted
        BY <1>1 DEF NodeOf
    <1>6. h.nodes = [g.nodes EXCEPT ![n] = node]
        BY DEF SetList, GraphOf, lists
    <1>7. /\ h.idMap = g.idMap /\ h.entry = g.entry /\ h.top = g.top /\ h.wild = g.wild
          /\ h \in [nodes : {h.nodes}, idMap : {g.idMap}, entry : {g.entry},
                    top : {g.top}, wild : {g.wild}]
        BY DEF SetList, GraphOf
    <1> HIDE DEF node, h
    <1>8. h.nodes \in Seq(NodeOf(c)) /\ Len(h.nodes) = c
        BY <1>1, <1>4, <1>6
    <1>9. h.nodes[n] = node /\ \A m \in 1 .. c : m # n => h.nodes[m] = g.nodes[m]
        BY <1>1, <1>6
    <1>10. Frame(g, h, c)
        BY <1>5, <1>7, <1>9 DEF Frame
    <1>11. h \in GraphOf(c)
        <2>1. /\ g.idMap \in [Docs -> 0 .. c] /\ g.entry \in 0 .. c /\ g.top \in Nat
              /\ g.wild \in BOOLEAN
              /\ \A m, k \in 1 .. c : g.nodes[m].at = g.nodes[k].at => m = k
            BY GraphIs
        <2>2. \A m, k \in 1 .. c : h.nodes[m].at = h.nodes[k].at => m = k
            BY <1>10, <2>1 DEF Frame
        <2>3. h \in [nodes : Seq(NodeOf(c)), idMap : [Docs -> 0 .. c], entry : 0 .. c,
                     top : Nat, wild : BOOLEAN]
            BY <1>7, <1>8, <2>1
        <2> QED
            BY <1>8, <2>2, <2>3 DEF GraphOf
    <1>12. SameBut(g, h, c, n, l)
        BY <1>3, <1>4, <1>9 DEF SameBut
    <1>13. h.nodes[n].neighbors[l] = list
        BY <1>2, <1>4, <1>9
    <1> QED
        BY <1>7, <1>10, <1>11, <1>12, <1>13 DEF h

-----------------------------------------------------------------------------
(* Connecting two nodes.  V is a tower of g; h is what became of g.        *)

Bounded(h, c) ==
    \A n \in 1 .. c : \A l \in 0 .. h.nodes[n].top :
        Len(h.nodes[n].neighbors[l]) <= Capacity(l)

\* Graphs with the frame of g whose lists keep to V.
Kin(g, c, V) == {h \in GraphOf(c) : Frame(g, h, c) /\ LinksIn(h, c, V)}

LEMMA CapacityIsNat == ASSUME NEW l \in Nat PROVE Capacity(l) \in Nat
    BY GraphAssumption DEF Capacity, M0

LEMMA FrameResolves ==
    ASSUME NEW c \in Nat, NEW g, NEW h, Frame(g, h, c), NEW n \in 1 .. c
    PROVE  Resolved(h, n) = Resolved(g, n)
    BY DEF Frame, Resolved

LEMMA FrameTower ==
    ASSUME NEW c \in Nat, NEW g, NEW h, Frame(g, h, c), NEW V, Tower(g, c, V)
    PROVE  /\ Tower(h, c, V)
           /\ \A l \in Nat : V[l] \in SUBSET (1 .. c) /\ Resolves(h, V[l])
    <1>1. ASSUME NEW l \in Nat
          PROVE  V[l] \in SUBSET (1 .. c) /\ Resolves(h, V[l])
        <2>1. V[l] \in SUBSET (1 .. c)
            BY DEF Tower
        <2>2. \A n \in V[l] : Resolved(h, n) = Resolved(g, n)
            BY <2>1, FrameResolves
        <2> QED
            BY <2>1, <2>2 DEF Tower, Resolves
    <1> QED
        BY <1>1 DEF Tower, Resolves

LEMMA Retyped ==
    ASSUME NEW A, NEW B, NEW list \in Seq(A), \A i \in 1 .. Len(list) : list[i] \in B
    PROVE  list \in Seq(B)
    OBVIOUS

LEMMA Appended ==
    ASSUME NEW A, NEW list \in Seq(A), NEW a \in A
    PROVE  Append(list, a) \in Seq(A)
    OBVIOUS

LEMMA SetListKin ==
    ASSUME NEW c \in Nat, NEW g \in GraphOf(c), NEW V, Tower(g, c, V),
           NEW h \in Kin(g, c, V), NEW n \in 1 .. c, NEW l \in 0 .. g.nodes[n].top,
           NEW list \in Seq(V[l])
    PROVE  /\ SetList(h, n, l, list) \in Kin(g, c, V)
           /\ SameBut(h, SetList(h, n, l, list), c, n, l)
           /\ SetList(h, n, l, list).wild = h.wild
           /\ SetList(h, n, l, list).nodes[n].neighbors[l] = list
    <1> DEFINE r == SetList(h, n, l, list)
    <1>1. h \in GraphOf(c) /\ Frame(g, h, c) /\ LinksIn(h, c, V)
        BY DEF Kin
    <1>2. l \in 0 .. h.nodes[n].top /\ l \in Nat
        BY <1>1 DEF Frame
    <1>3. list \in Seq(1 .. c)
        <2>1. V[l] \in SUBSET (1 .. c)
            BY <1>2 DEF Tower
        <2>2. \A i \in 1 .. Len(list) : list[i] \in V[l]
            OBVIOUS
        <2>3. \A i \in 1 .. Len(list) : list[i] \in 1 .. c
            BY <2>1, <2>2
        <2> QED
            BY <2>3
    <1>4. /\ r \in GraphOf(c) /\ Frame(h, r, c) /\ SameBut(h, r, c, n, l)
          /\ r.wild = h.wild /\ r.nodes[n].neighbors[l] = list
        BY <1>1, <1>2, <1>3, SetListIn
    <1> HIDE DEF r
    <1>5. Frame(g, r, c)
        BY <1>1, <1>4 DEF Frame
    <1>6. LinksIn(r, c, V)
        <2> SUFFICES ASSUME NEW m \in 1 .. c, NEW k \in 0 .. r.nodes[m].top
                     PROVE  ToSet(r.nodes[m].neighbors[k]) \subseteq V[k]
            BY DEF LinksIn
        <2>1. k \in 0 .. h.nodes[m].top
            BY <1>4 DEF Frame
        <2>2. CASE m = n /\ k = l
            <3>1. ToSet(list) \subseteq V[l]
                BY DEF ToSet
            <3> QED
                BY <1>4, <2>2, <3>1
        <2>3. CASE m # n \/ k # l
            <3>1. r.nodes[m].neighbors[k] = h.nodes[m].neighbors[k]
                BY <1>4, <2>1, <2>3 DEF SameBut
            <3> QED
                BY <1>1, <2>1, <3>1 DEF LinksIn
        <2> QED
            BY <2>2, <2>3
    <1> QED
        BY <1>4, <1>5, <1>6 DEF Kin, r

LEMMA ListIn ==
    ASSUME NEW c \in Nat, NEW g \in GraphOf(c), NEW V, Tower(g, c, V),
           NEW h \in Kin(g, c, V), NEW n \in 1 .. c, NEW l \in 0 .. g.nodes[n].top
    PROVE  h.nodes[n].neighbors[l] \in Seq(V[l]) /\ V[l] \in SUBSET (1 .. c)
    <1> DEFINE list == h.nodes[n].neighbors[l]
    <1>1. h \in GraphOf(c) /\ Frame(g, h, c) /\ LinksIn(h, c, V)
        BY DEF Kin
    <1>2. l \in 0 .. h.nodes[n].top /\ l \in Nat
        BY <1>1 DEF Frame
    <1>3. list \in Seq(1 .. c)
        <2>1. h.nodes[n].neighbors \in [0 .. h.nodes[n].top -> Seq(1 .. c)]
            BY <1>1, GraphIs
        <2> QED
            BY <1>2, <2>1
    <1>4. ToSet(list) \subseteq V[l]
        BY <1>1, <1>2 DEF LinksIn
    <1> HIDE DEF list
    <1>5. \A i \in 1 .. Len(list) : list[i] \in V[l]
        BY <1>3, <1>4 DEF ToSet
    <1>6. list \in Seq(V[l])
        BY <1>3, <1>5, Retyped
    <1>7. V[l] \in SUBSET (1 .. c)
        BY <1>2 DEF Tower
    <1> QED
        BY <1>6, <1>7 DEF list

LEMMA WithNeighborKin ==
    ASSUME NEW c \in Nat, NEW g \in GraphOf(c), NEW V, Tower(g, c, V),
           NEW h \in Kin(g, c, V), NEW n \in 1 .. c, NEW l \in 0 .. g.nodes[n].top,
           NEW m \in V[l]
    PROVE  /\ WithNeighbor(h, n, m, l) \in Kin(g, c, V)
           /\ SameBut(h, WithNeighbor(h, n, m, l), c, n, l)
           /\ WithNeighbor(h, n, m, l).wild = h.wild
    <1> DEFINE list == h.nodes[n].neighbors[l]
    <1>1. CASE Contains(list, m)
        BY <1>1 DEF WithNeighbor, SameBut
    <1>2. CASE ~Contains(list, m)
        <2>1. list \in Seq(V[l])
            BY ListIn
        <2>2. Append(list, m) \in Seq(V[l])
            BY <2>1, Appended
        <2>3. WithNeighbor(h, n, m, l) = SetList(h, n, l, Append(list, m))
            BY <1>2 DEF WithNeighbor, SetList
        <2> HIDE DEF list
        <2> DEFINE more == Append(list, m)
        <2>4. more \in Seq(V[l])
            BY <2>2
        <2>5. WithNeighbor(h, n, m, l) = SetList(h, n, l, more)
            BY <2>3
        <2> HIDE DEF more
        <2>6. /\ SetList(h, n, l, more) \in Kin(g, c, V)
              /\ SameBut(h, SetList(h, n, l, more), c, n, l)
              /\ SetList(h, n, l, more).wild = h.wild
            BY <2>4, SetListKin
        <2> QED
            BY <2>5, <2>6
    <1> QED
        BY <1>1, <1>2

LEMMA PrunedKin ==
    ASSUME NEW c \in Nat, NEW g \in GraphOf(c), NEW V, Tower(g, c, V),
           NEW h \in Kin(g, c, V), NEW n \in 1 .. c, NEW l \in 0 .. g.nodes[n].top,
           NEW max \in Nat
    PROVE  /\ Pruned(h, n, l, max) \in Kin(g, c, V)
           /\ SameBut(h, Pruned(h, n, l, max), c, n, l)
           /\ Pruned(h, n, l, max).wild = h.wild
           /\ Len(Pruned(h, n, l, max).nodes[n].neighbors[l]) <= max
    <1> DEFINE list == h.nodes[n].neighbors[l]
               q == h.nodes[n].at
               few == SelectNeighbors(h, q, ToSet(list), max)
    <1>1. CASE Len(list) <= max
        BY <1>1 DEF Pruned, SameBut
    <1>2. CASE ~(Len(list) <= max)
        <2>1. list \in Seq(V[l]) /\ V[l] \in SUBSET (1 .. c)
            BY ListIn
        <2>2. ToSet(list) \in SUBSET V[l]
            BY <2>1 DEF ToSet
        <2>3. h \in GraphOf(c) /\ q \in Points /\ Resolves(h, V[l])
            <3>1. h \in GraphOf(c) /\ Frame(g, h, c)
                BY DEF Kin
            <3>2. l \in Nat
                OBVIOUS
            <3> QED
                BY <3>1, <3>2, GraphIs, FrameTower
        <2>4. Pruned(h, n, l, max) = SetList(h, n, l, few)
            BY <1>2 DEF Pruned, SetList
        <2> HIDE DEF list, q
        <2>5. few \in Short(V[l], max)
            BY <2>1, <2>2, <2>3, SelectIn
        <2> HIDE DEF few
        <2>6. few \in Seq(V[l]) /\ Len(few) <= max
            BY <2>5 DEF Short
        <2>7. /\ SetList(h, n, l, few) \in Kin(g, c, V)
              /\ SameBut(h, SetList(h, n, l, few), c, n, l)
              /\ SetList(h, n, l, few).wild = h.wild
              /\ SetList(h, n, l, few).nodes[n].neighbors[l] = few
            BY <2>6, SetListKin
        <2> QED
            BY <2>4, <2>6, <2>7
    <1> QED
        BY <1>1, <1>2

-----------------------------------------------------------------------------
(* What an insertion makes of the lists.  When the nodes of V[l] all reach *)
(* up to layer l, no list that does not exist is accessed.                 *)

Strict(g, V) == \A l \in Nat : \A n \in V[l] : l <= g.nodes[n].top

Good(g, c, V) ==
    {h \in Kin(g, c, V) : Bounded(h, c) /\ (Strict(g, V) /\ ~g.wild => ~h.wild)}

LEMMA ConnectGood ==
    ASSUME NEW c \in Nat, NEW g \in GraphOf(c), NEW V, Tower(g, c, V),
           NEW h \in Good(g, c, V), NEW a \in 1 .. c, NEW l \in 0 .. g.nodes[a].top,
           a \in V[l], NEW b \in V[l]
    PROVE  Connect(h, a, b, l, Capacity(l)) \in Good(g, c, V)
    <1> DEFINE max == Capacity(l)
    <1>1. /\ h \in Kin(g, c, V) /\ h \in GraphOf(c) /\ Frame(g, h, c) /\ LinksIn(h, c, V)
          /\ Bounded(h, c) /\ (Strict(g, V) /\ ~g.wild => ~h.wild)
        BY DEF Good, Kin
    <1>2. l \in Nat /\ b \in 1 .. c /\ max \in Nat
        BY CapacityIsNat DEF Tower
    <1>3. CASE h.wild \/ l > h.nodes[b].top
        <2> DEFINE r == [h EXCEPT !.wild = TRUE]
        <2>1. /\ r.nodes = h.nodes /\ r.idMap = h.idMap /\ r.entry = h.entry /\ r.top = h.top
              /\ r \in GraphOf(c)
            BY <1>1 DEF GraphOf
        <2>2. Connect(h, a, b, l, max) = r
            BY <1>3 DEF Connect
        <2> HIDE DEF r
        <2>3. Frame(g, r, c) /\ LinksIn(r, c, V) /\ Bounded(r, c)
            BY <1>1, <2>1 DEF Frame, LinksIn, Bounded
        <2>4. ~(Strict(g, V) /\ ~g.wild)
            <3>1. g.nodes[b].top = h.nodes[b].top /\ g.nodes[b].top \in Nat
                BY <1>1, <1>2, GraphIs DEF Frame
            <3> QED
                BY <1>1, <1>2, <1>3, <3>1 DEF Strict
        <2> QED
            BY <2>1, <2>2, <2>3, <2>4 DEF Good, Kin
    <1>4. CASE ~(h.wild \/ l > h.nodes[b].top)
        <2> DEFINE one    == WithNeighbor(h, a, b, l)
                   joined == WithNeighbor(one, b, a, l)
                   left   == Pruned(joined, a, l, max)
                   r      == Pruned(left, b, l, max)
        <2>1. Connect(h, a, b, l, max) = r
            BY <1>4 DEF Connect
        <2>2. l \in 0 .. g.nodes[b].top
            <3>1. g.nodes[b].top = h.nodes[b].top /\ g.nodes[b].top \in Nat
                BY <1>1, <1>2, GraphIs DEF Frame
            <3> QED
                BY <1>2, <1>4, <3>1
        <2>3. one \in Kin(g, c, V) /\ SameBut(h, one, c, a, l) /\ one.wild = h.wild
            BY <1>1, WithNeighborKin
        <2> HIDE DEF one
        <2>4. joined \in Kin(g, c, V) /\ SameBut(one, joined, c, b, l) /\ joined.wild = one.wild
            BY <1>2, <2>2, <2>3, WithNeighborKin
        <2> HIDE DEF joined, max
        <2>5. /\ left \in Kin(g, c, V) /\ SameBut(joined, left, c, a, l)
              /\ left.wild = joined.wild /\ Len(left.nodes[a].neighbors[l]) <= max
            BY <1>2, <2>4, PrunedKin
        <2> HIDE DEF left
        <2>6. /\ r \in Kin(g, c, V) /\ SameBut(left, r, c, b, l)
              /\ r.wild = left.wild /\ Len(r.nodes[b].neighbors[l]) <= max
            BY <1>2, <2>2, <2>5, PrunedKin
        <2> HIDE DEF r
        <2>7. Bounded(r, c)
            <3> SUFFICES ASSUME NEW m \in 1 .. c, NEW k \in 0 .. r.nodes[m].top
                         PROVE  Len(r.nodes[m].neighbors[k]) <= Capacity(k)
                BY DEF Bounded
            <3>1. /\ k \in 0 .. left.nodes[m].top /\ k \in 0 .. joined.nodes[m].top
                  /\ k \in 0 .. one.nodes[m].top /\ k \in 0 .. h.nodes[m].top
                <4>1. /\ Frame(g, r, c) /\ Frame(g, left, c) /\ Frame(g, joined, c)
                      /\ Frame(g, one, c) /\ Frame(g, h, c)
                    BY <1>1, <2>3, <2>4, <2>5, <2>6 DEF Kin
                <4> QED
                    BY <4>1 DEF Frame
            <3>2. CASE m = b /\ k = l
                BY <2>6, <3>2 DEF max
            <3>3. CASE ~(m = b /\ k = l)
                <4>1. r.nodes[m].neighbors[k] = left.nodes[m].neighbors[k]
                    BY <2>6, <3>1, <3>3 DEF SameBut
                <4>2. CASE m = a /\ k = l
                    BY <2>5, <4>1, <4>2 DEF max
                <4>3. CASE ~(m = a /\ k = l)
                    <5>1. left.nodes[m].neighbors[k] = joined.nodes[m].neighbors[k]
                        BY <2>5, <3>1, <4>3 DEF SameBut
                    <5>2. joined.nodes[m].neighbors[k] = one.nodes[m].neighbors[k]
                        BY <2>4, <3>1, <3>3 DEF SameBut
                    <5>3. one.nodes[m].neighbors[k] = h.nodes[m].neighbors[k]
                        BY <2>3, <3>1, <4>3 DEF SameBut
                    <5> QED
                        BY <1>1, <3>1, <4>1, <5>1, <5>2, <5>3 DEF Bounded
                <4> QED
                    BY <4>2, <4>3
            <3> QED
                BY <3>2, <3>3
        <2>8. Strict(g, V) /\ ~g.wild => ~r.wild
            BY <1>1, <2>3, <2>4, <2>5, <2>6
        <2> QED
            BY <2>1, <2>6, <2>7, <2>8 DEF Good, max
    <1> QED
        BY <1>3, <1>4

IsJoining(it, g, a, l, list) ==
    it = [s \in SUBSET DOMAIN list |->
             IF s = {} THEN g
             ELSE Connect(it[s \ {Max(s)}], a, list[Max(s)], l, Capacity(l))]

Joining(g, a, l, list) == (CHOOSE it : IsJoining(it, g, a, l, list))[DOMAIN list]

\* P says what the graph is like behind each number of neighbours.
JoinsKeep(P, g, c, V, a, l, list) ==
    \A i \in 1 .. Len(list) : \A k \in P[i - 1] \cap Good(g, c, V) :
        Connect(k, a, list[i], l, Capacity(l)) \in P[i]

LEMMA JoinedStays ==
    ASSUME NEW c \in Nat, NEW g \in GraphOf(c), NEW V, Tower(g, c, V),
           NEW h \in Good(g, c, V), NEW a \in 1 .. c, NEW l \in 0 .. g.nodes[a].top,
           a \in V[l], NEW R, R = V[l], NEW list \in Seq(R), NEW P, h \in P[0],
           JoinsKeep(P, g, c, V, a, l, list)
    PROVE  Joining(h, a, l, list)
               \in P[Len(list)] \cap Good(g, c, V)
    <1> DEFINE n == Len(list)
               S == Good(g, c, V)
               F == [k \in S |-> [i \in 1 .. n |-> Connect(k, a, list[i], l, Capacity(l))]]
    <1>1. n \in Nat /\ DOMAIN list = 1 .. n /\ \A i \in 1 .. n : list[i] \in R
        OBVIOUS
    <1>2. \A k \in S, i \in 1 .. n : Connect(k, a, list[i], l, Capacity(l)) \in S
        BY <1>1, ConnectGood
    <1>5. h \in S
        OBVIOUS
    <1>12. \A k \in 1 .. n : \A b \in P[k - 1] \cap S : Connect(b, a, list[k], l, Capacity(l)) \in P[k]
        BY DEF JoinsKeep
    <1> HIDE DEF S, n
    <1>3. \A k \in S, i \in 1 .. n : F[k][i] = Connect(k, a, list[i], l, Capacity(l))
        OBVIOUS
    <1> HIDE DEF F
    <1>4. Keeps(S, n, F)
        BY <1>2, <1>3 DEF Keeps
    <1>6. PICK fold : IsFold(fold, S, h, n, F)
        BY <1>1, <1>4, <1>5, FoldExists
    <1>7. \A s \in SUBSET (1 .. n) : s # {} =>
              /\ Max(s) \in 1 .. n /\ s \ {Max(s)} \in SUBSET (1 .. n)
              /\ fold[s \ {Max(s)}] \in S
        <2> SUFFICES ASSUME NEW s \in SUBSET (1 .. n), s # {}
                     PROVE  Max(s) \in 1 .. n /\ fold[s \ {Max(s)}] \in S
            OBVIOUS
        <2>1. Max(s) \in s
            BY <1>1, MaxIn
        <2>2. s \ {Max(s)} \in SUBSET (1 .. n)
            OBVIOUS
        <2> QED
            BY <1>6, <2>1, <2>2 DEF IsFold
    <1>8. IsJoining(fold, h, a, l, list)
        <2>1. fold = [s \in SUBSET (1 .. n) |-> fold[s]]
            BY <1>6 DEF IsFold
        <2>2. \A s \in SUBSET (1 .. n) :
                  fold[s] = IF s = {} THEN h
                            ELSE Connect(fold[s \ {Max(s)}], a, list[Max(s)], l, Capacity(l))
            BY <1>3, <1>6, <1>7 DEF IsFold
        <2> QED
            BY <1>1, <2>1, <2>2 DEF IsJoining
    <1> DEFINE it == CHOOSE it : IsJoining(it, h, a, l, list)
    <1>9. IsJoining(it, h, a, l, list)
        BY <1>8
    <1> HIDE DEF it
    <1> DEFINE Q == [k \in Nat |-> P[k] \cap S]
    <1>10. it[{}] \in Q[0]
        <2>1. {} \in SUBSET (1 .. n)
            OBVIOUS
        <2>2. it[{}] = h
            BY <1>1, <1>9, <2>1 DEF IsJoining
        <2> QED
            BY <1>5, <2>2
    <1>11. ASSUME NEW k \in 1 .. n, it[(1 .. k) \ {Max(1 .. k)}] \in Q[k - 1]
           PROVE  it[1 .. k] \in Q[k]
        <2> DEFINE last == it[(1 .. k) \ {Max(1 .. k)}]
        <2>1. k \in Nat /\ k - 1 \in Nat /\ 1 .. k \in SUBSET (1 .. n) /\ 1 .. k # {}
            BY <1>1, Prefix
        <2>2. Max(1 .. k) = k
            BY <2>1, MaxOf
        <2>3. it[1 .. k] = Connect(last, a, list[k], l, Capacity(l))
            BY <1>1, <1>9, <2>1, <2>2 DEF IsJoining
        <2>4. last \in S /\ last \in P[k - 1]
            BY <1>11, <2>1
        <2> HIDE DEF last
        <2>5. it[1 .. k] \in S
            BY <1>2, <2>3, <2>4
        <2>6. it[1 .. k] \in P[k]
            BY <1>12, <2>3, <2>4
        <2> QED
            BY <2>1, <2>5, <2>6
    <1> HIDE DEF Q
    <1>13. it[1 .. n] \in Q[n]
        BY <1>1, <1>10, <1>11, FoldStays
    <1> QED
        BY <1>1, <1>13 DEF it, Q, S, n, Joining

\* What linking one layer leads to: the nodes that are found, those the new node is
\* connected with, and where the next layer starts.
FoundFrom(g, a, ep, l) == SearchLayer(g, g.nodes[a].at, ep, EfConstruction, l, Docs)

FewFrom(g, a, ep, l) == SelectNeighbors(g, g.nodes[a].at, FoundFrom(g, a, ep, l), Capacity(l))

NextFrom(g, a, ep, l) == Follow(g, g.nodes[a].at, ep, FoundFrom(g, a, ep, l))

LEMMA LinkLayerIs ==
    ASSUME NEW c \in Nat, NEW g \in GraphOf(c), NEW V, Tower(g, c, V),
           NEW h \in Good(g, c, V), NEW a \in 1 .. c, NEW l \in 0 .. g.nodes[a].top,
           NEW ep \in V[l], NEW built, built.graph = h, built.ep = ep
    PROVE  /\ h \in GraphOf(c) /\ h.nodes[a].at \in Points
           /\ l \in Nat /\ Capacity(l) \in Nat
           /\ FoundFrom(h, a, ep, l) \in SUBSET V[l]
           /\ FewFrom(h, a, ep, l) \in Seq(V[l])
           /\ NextFrom(h, a, ep, l) \in V[l]
           /\ LinkLayer(built, a, l) = [graph |-> Joining(h, a, l, FewFrom(h, a, ep, l)),
                                        ep    |-> NextFrom(h, a, ep, l)]
    <1> DEFINE q == h.nodes[a].at
               found == FoundFrom(h, a, ep, l)
               few == FewFrom(h, a, ep, l)
               next == NextFrom(h, a, ep, l)
    <1>1. h \in GraphOf(c) /\ Frame(g, h, c) /\ LinksIn(h, c, V)
        BY DEF Good, Kin
    <1>2. q \in Points /\ l \in Nat /\ Capacity(l) \in Nat
        <2>1. q \in Points /\ g.nodes[a].top \in Nat
            BY <1>1, GraphIs
        <2>2. l \in Nat
            BY <2>1
        <2> QED
            BY <2>1, <2>2, CapacityIsNat
    <1>3. Tower(h, c, V) /\ V[l] \in SUBSET (1 .. c) /\ Resolves(h, V[l])
        BY <1>1, <1>2, FrameTower
    <1>4. LinkLayer(built, a, l) = [graph |-> Joining(h, a, l, few), ep |-> next]
        BY DEF LinkLayer, FoldLeft, MapThenFoldSet, IsJoining, Joining,
               FoundFrom, FewFrom, NextFrom
    <1>8. /\ found = SearchLayer(h, q, ep, EfConstruction, l, Docs)
          /\ few = SelectNeighbors(h, q, found, Capacity(l)) /\ next = Follow(h, q, ep, found)
        BY DEF FoundFrom, FewFrom, NextFrom
    <1> HIDE DEF q, found, few, next
    <1>5. found \in SUBSET V[l] /\ next \in V[l]
        BY <1>1, <1>2, <1>3, <1>8, FollowedIn
    <1>6. few \in Short(V[l], Capacity(l))
        BY <1>1, <1>2, <1>3, <1>5, <1>8, SelectIn
    <1>7. few \in Seq(V[l])
        BY <1>6 DEF Short
    <1> QED
        BY <1>1, <1>2, <1>4, <1>5, <1>7 DEF q, found, few, next

LEMMA LinkLayerGood ==
    ASSUME NEW c \in Nat, NEW g \in GraphOf(c), NEW V, Tower(g, c, V),
           NEW h \in Good(g, c, V), NEW a \in 1 .. c, NEW l \in 0 .. g.nodes[a].top,
           a \in V[l], NEW ep \in V[l], NEW built, built.graph = h, built.ep = ep
    PROVE  /\ LinkLayer(built, a, l).graph \in Good(g, c, V)
           /\ LinkLayer(built, a, l).ep \in V[l]
           /\ LinkLayer(built, a, l) \in [graph : Good(g, c, V), ep : V[l]]
    <1> DEFINE few == FewFrom(h, a, ep, l)
               next == NextFrom(h, a, ep, l)
               R == V[l]
    <1>1. /\ few \in Seq(V[l]) /\ next \in V[l] /\ l \in Nat
          /\ LinkLayer(built, a, l) = [graph |-> Joining(h, a, l, few), ep |-> next]
        BY LinkLayerIs
    <1> HIDE DEF few, next
    <1> DEFINE P == [i \in Nat |-> Good(g, c, V)]
    <1>2. h \in P[0] /\ JoinsKeep(P, g, c, V, a, l, few)
        <2>1. \A i \in 1 .. Len(few) : few[i] \in V[l]
            BY <1>1
        <2> QED
            BY <2>1, ConnectGood DEF JoinsKeep
    <1> HIDE DEF P, R
    <1>3. R = V[l] /\ few \in Seq(R)
        BY <1>1 DEF R
    <1>4. Joining(h, a, l, few) \in P[Len(few)] \cap Good(g, c, V)
        BY <1>1, <1>2, <1>3, JoinedStays
    <1> QED
        BY <1>1, <1>4

\* P says what has been built when a layer is done.
LinksKeep(P, new, high) ==
    \A l \in 0 .. high : \A b \in P[l + 1] : LinkLayer(b, new, l) \in P[l]

LEMMA LinkedStays ==
    ASSUME NEW c \in Nat, NEW g \in GraphOf(c), Bounded(g, c), NEW new \in 1 .. c,
           NEW high \in Nat, high <= g.nodes[new].top, NEW ep \in 1 .. c,
           NEW P, [graph |-> g, ep |-> ep] \in P[high + 1], LinksKeep(P, new, high)
    PROVE  Linked(g, new, ep, high) \in {b.graph : b \in P[0]}
    <1> DEFINE first == [graph |-> g, ep |-> ep]
               IsLinking(h) == h = [l \in 0 .. high + 1 |->
                                       IF l = high + 1 THEN first ELSE LinkLayer(h[l + 1], new, l)]
               S == [graph : Good(g, c, All(c)), ep : 1 .. c]
               F == [b \in S |-> [l \in 0 .. high |-> LinkLayer(b, new, l)]]
    <1>1. Linked(g, new, ep, high) = (CHOOSE h : IsLinking(h))[0].graph
        BY DEF Linked
    <1>2. \A l \in 0 .. high : l \in Nat /\ l \in 0 .. g.nodes[new].top
        <2>1. g.nodes[new].top \in Nat
            BY GraphIs
        <2> QED
            BY <2>1
    <1>3. Tower(g, c, All(c)) /\ LinksIn(g, c, All(c)) /\ \A l \in Nat : All(c)[l] = 1 .. c
        BY AllIsTower DEF All
    <1>4. g \in Good(g, c, All(c))
        BY <1>3 DEF Good, Kin, Frame
    <1>5. first \in P[high + 1]
        OBVIOUS
    <1>6. first \in S
        BY <1>4
    <1>7. \A b \in S : \A l \in 0 .. high : LinkLayer(b, new, l) \in S
        <2> SUFFICES ASSUME NEW b \in S, NEW l \in 0 .. high
                     PROVE  LinkLayer(b, new, l) \in S
            OBVIOUS
        <2> DEFINE A == All(c)
                   h == b.graph
                   e == b.ep
        <2>1. Tower(g, c, A) /\ A[l] = 1 .. c /\ l \in 0 .. g.nodes[new].top
            BY <1>2, <1>3
        <2>2. h \in Good(g, c, A) /\ e \in A[l] /\ new \in A[l]
            BY <2>1
        <2> HIDE DEF A, h, e
        <2>3. b.graph = h /\ b.ep = e
            BY DEF h, e
        <2>4. LinkLayer(b, new, l) \in [graph : Good(g, c, A), ep : A[l]]
            BY <2>1, <2>2, <2>3, LinkLayerGood
        <2> QED
            BY <2>1, <2>4 DEF A
    <1>8. \A b \in S : \A l \in 0 .. high : F[b][l] = LinkLayer(b, new, l)
        OBVIOUS
    <1> HIDE DEF S, F, first, IsLinking
    <1>9. KeepsDown(S, 0, high, F)
        BY <1>7, <1>8 DEF KeepsDown
    <1>10. PICK h : IsDown(h, S, first, 0, high, F)
        BY <1>6, <1>9, DescentExists
    <1>11. IsLinking(h)
        <2>1. h \in [0 .. high + 1 -> S] /\ h[high + 1] = first
            BY <1>10 DEF IsDown
        <2>2. h = [l \in 0 .. high + 1 |-> h[l]]
            BY <2>1
        <2>3. \A l \in 0 .. high + 1 :
                  h[l] = IF l = high + 1 THEN first ELSE LinkLayer(h[l + 1], new, l)
            <3> SUFFICES ASSUME NEW l \in 0 .. high + 1, l # high + 1
                         PROVE  h[l] = LinkLayer(h[l + 1], new, l)
                BY <2>1
            <3>1. l \in 0 .. high /\ l + 1 \in 0 .. high + 1
                OBVIOUS
            <3>2. h[l] = F[h[l + 1]][l] /\ h[l + 1] \in S
                BY <1>10, <2>1, <3>1 DEF IsDown
            <3> QED
                BY <1>8, <3>1, <3>2
        <2> QED
            BY <2>2, <2>3 DEF IsLinking
    <1> DEFINE r == CHOOSE h2 : IsLinking(h2)
    <1>12. IsLinking(r)
        BY <1>11
    <1> HIDE DEF r
    <1>13. r[high + 1] \in P[high + 1]
        <2>1. high + 1 \in 0 .. high + 1
            OBVIOUS
        <2> QED
            BY <1>5, <1>12, <2>1 DEF IsLinking
    <1>14. ASSUME NEW l \in 0 .. high, r[l + 1] \in P[l + 1]
           PROVE  r[l] \in P[l]
        <2>1. l # high + 1 /\ l \in 0 .. high + 1
            OBVIOUS
        <2>2. r[l] = LinkLayer(r[l + 1], new, l)
            BY <1>12, <2>1 DEF IsLinking
        <2> QED
            BY <1>14, <2>2 DEF LinksKeep
    <1>15. \A l \in 0 .. high + 1 : r[l] \in P[l]
        <2>1. 0 \in Nat /\ 0 <= high
            OBVIOUS
        <2> QED
            BY <1>13, <1>14, <2>1, DescentStays
    <1>16. r[0] \in P[0]
        BY <1>15
    <1> QED
        BY <1>1, <1>16 DEF r

LEMMA LinkedGood ==
    ASSUME NEW c \in Nat, NEW g \in GraphOf(c), Bounded(g, c), NEW V, Tower(g, c, V),
           LinksIn(g, c, V), NEW new \in 1 .. c, NEW high \in Nat, high <= g.nodes[new].top,
           \A l \in 0 .. high : new \in V[l], NEW ep \in V[high]
    PROVE  Linked(g, new, ep, high) \in Good(g, c, V)
    <1> DEFINE first == [graph |-> g, ep |-> ep]
               P == [l \in Nat |-> [graph : Good(g, c, V), ep : V[Lesser(l, high)]]]
    <1>1. \A l \in 0 .. high : l \in Nat /\ l + 1 \in Nat /\ l \in 0 .. g.nodes[new].top
        <2>1. g.nodes[new].top \in Nat
            BY GraphIs
        <2> QED
            BY <2>1
    <1>2. g \in Good(g, c, V)
        BY DEF Good, Kin, Frame
    <1>3. ep \in 1 .. c
        BY DEF Tower
    <1>4. /\ first \in P[high + 1]
          /\ \A l \in 0 .. high : P[l] = [graph : Good(g, c, V), ep : V[l]]
          /\ P[0] = [graph : Good(g, c, V), ep : V[0]]
        <2>1. Lesser(high + 1, high) = high /\ \A l \in 0 .. high : Lesser(l, high) = l
            BY DEF Lesser
        <2>2. high + 1 \in Nat /\ 0 \in 0 .. high /\ \A l \in 0 .. high : l \in Nat
            OBVIOUS
        <2> QED
            BY <1>2, <2>1, <2>2
    <1>5. ASSUME NEW l \in 0 .. high, NEW b \in P[l + 1]
          PROVE  LinkLayer(b, new, l) \in P[l]
        <2> DEFINE h == b.graph
                   e == b.ep
        <2>1. h \in Good(g, c, V) /\ e \in V[l]
            <3>1. CASE l = high
                <4>1. Lesser(l + 1, high) = l
                    BY <3>1 DEF Lesser
                <4> QED
                    BY <1>1, <4>1
            <3>2. CASE l # high
                <4>1. Lesser(l + 1, high) = l + 1
                    BY <3>2 DEF Lesser
                <4>2. V[l + 1] \subseteq V[l]
                    BY <1>1 DEF Tower
                <4> QED
                    BY <1>1, <4>1, <4>2
            <3> QED
                BY <3>1, <3>2
        <2> HIDE DEF h, e, P
        <2>2. b.graph = h /\ b.ep = e
            BY DEF h, e
        <2>3. new \in V[l] /\ l \in 0 .. g.nodes[new].top
            BY <1>1
        <2>4. LinkLayer(b, new, l) \in [graph : Good(g, c, V), ep : V[l]]
            BY <2>1, <2>2, <2>3, LinkLayerGood
        <2> QED
            BY <1>4, <2>4
    <1>8. LinksKeep(P, new, high)
        BY <1>5 DEF LinksKeep
    <1> HIDE DEF P
    <1>6. [graph |-> g, ep |-> ep] \in P[high + 1]
        BY <1>4
    <1>7. Linked(g, new, ep, high) \in {b.graph : b \in P[0]}
        BY <1>3, <1>6, <1>8, LinkedStays
    <1> QED
        BY <1>4, <1>7

\* The two descents of an insertion that starts from ep in layer top.
LEMMA DescentsGood ==
    ASSUME NEW c \in Nat, NEW g \in GraphOf(c), Bounded(g, c), NEW V, Tower(g, c, V),
           LinksIn(g, c, V), NEW new \in 1 .. c, NEW p \in Points, NEW top \in Nat,
           NEW level \in Nat, level = g.nodes[new].top,
           \A l \in 0 .. level : new \in V[l], NEW ep \in V[top]
    PROVE  Linked(g, new, Descend(g, p, ep, top, level + 1), Lesser(level, top))
               \in Good(g, c, V)
    <1> DEFINE high == Lesser(level, top)
               start == Descend(g, p, ep, top, level + 1)
    <1>1. start \in V[Lesser(level + 1, top)]
        <2>1. level + 1 \in Nat
            OBVIOUS
        <2> QED
            BY <2>1, DescendIn
    <1> HIDE DEF start
    <1>2. start \in V[high]
        <2>1. CASE level < top
            <3>1. Lesser(level + 1, top) = level + 1 /\ high = level
                BY <2>1 DEF Lesser
            <3>2. V[level + 1] \subseteq V[level]
                BY DEF Tower
            <3> QED
                BY <1>1, <3>1, <3>2
        <2>2. CASE ~(level < top)
            BY <1>1, <2>2 DEF Lesser
        <2> QED
            BY <2>1, <2>2
    <1>3. high \in Nat /\ high <= level /\ \A l \in 0 .. high : l \in 0 .. level
        BY DEF Lesser
    <1> HIDE DEF high
    <1>4. \A l \in 0 .. high : new \in V[l]
        BY <1>3
    <1>5. Linked(g, new, start, high) \in Good(g, c, V)
        BY <1>2, <1>3, <1>4, LinkedGood
    <1> QED
        BY <1>5 DEF start, high

\* A search returns nodes that are not deleted and that the filter allows.
LEMMA SearchIn ==
    ASSUME NEW c \in Nat, NEW g \in GraphOf(c), g.entry # NoNode, NEW q \in Points,
           NEW topK, NEW efSearch, NEW allowed
    PROVE  /\ Search(g, q, topK, efSearch, allowed) \in SUBSET (1 .. c)
           /\ \A n \in Search(g, q, topK, efSearch, allowed) : Accepts(g, n, allowed)
           /\ \E found \in SUBSET (1 .. c) :
                  Search(g, q, topK, efSearch, allowed) =
                      {n \in found : Cardinality({m \in found : Nearer(g, q, m, n)}) < topK}
    <1> DEFINE V == All(c)
               start == Descend(g, q, g.entry, g.top, 1)
               found == SearchLayer(g, q, start, Greater(efSearch, topK), 0, allowed)
    <1>1. Tower(g, c, V) /\ LinksIn(g, c, V)
        BY AllIsTower
    <1>2. \A l \in Nat : V[l] = 1 .. c
        BY DEF All
    <1>3. g.entry \in 1 .. c /\ g.top \in Nat
        BY GraphIs DEF NoNode
    <1>4. g.entry \in V[g.top] /\ Lesser(1, g.top) \in Nat
        BY <1>2, <1>3 DEF Lesser
    <1> HIDE DEF V
    <1>5. start \in V[Lesser(1, g.top)]
        <2>1. 1 \in Nat
            OBVIOUS
        <2> QED
            BY <1>1, <1>3, <1>4, <2>1, DescendIn
    <1>6. start \in V[0]
        BY <1>2, <1>4, <1>5
    <1> HIDE DEF start
    <1>7. found \in SUBSET Accepted(g, V[0], allowed)
        <2>1. 0 \in Nat
            OBVIOUS
        <2> QED
            BY <1>1, <1>6, <2>1, FollowedIn
    <1>8. Search(g, q, topK, efSearch, allowed) =
              {n \in found : Cardinality({m \in found : Nearer(g, q, m, n)}) < topK}
        BY DEF Search, found, start
    <1> HIDE DEF found
    <1>9. V[0] = 1 .. c
        BY <1>2
    <1> QED
        BY <1>7, <1>8, <1>9 DEF Accepted

-----------------------------------------------------------------------------
(* insert, remove and load on the graphs an index can hold: c nodes, none  *)
(* above layer max.                                                        *)

Shape(g, c, max) ==
    /\ g \in GraphOf(c)
    /\ Bounded(g, c)
    /\ g.top <= max
    /\ \A n \in 1 .. c : g.nodes[n].top <= g.top
    /\ IF c = 0 THEN g.entry = NoNode
       ELSE g.entry \in 1 .. c /\ g.nodes[g.entry].top = g.top

\* The nodes that reach up to each layer.
Reach(g, c) == [l \in Nat |-> {n \in 1 .. c : l <= g.nodes[n].top}]

\* No document id leads to another node than the one it came from.
SelfResolving(g, c) == \A n \in 1 .. c : Resolved(g, n) \in {NoNode, n}

LEMMA ReachIsTower ==
    ASSUME NEW c \in Nat, NEW g \in GraphOf(c), SelfResolving(g, c)
    PROVE  Tower(g, c, Reach(g, c)) /\ Strict(g, Reach(g, c))
    <1>1. \A n \in 1 .. c : g.nodes[n].top \in Nat
        BY GraphIs
    <1> QED
        BY <1>1 DEF Tower, Strict, Reach, SelfResolving

LEMMA NodeOfGrows ==
    ASSUME NEW c \in Nat
    PROVE  NodeOf(c) \subseteq NodeOf(c + 1)
    <1> SUFFICES ASSUME NEW node \in NodeOf(c) PROVE node \in NodeOf(c + 1)
        OBVIOUS
    <1>1. /\ node \in [doc : Docs, at : Points, top : Nat, deleted : BOOLEAN, neighbors : Lists(c)]
          /\ node.neighbors \in [0 .. node.top -> Seq(1 .. c)] /\ node.top \in Nat
        BY DEF NodeOf
    <1> DEFINE lists == node.neighbors
    <1>2. ASSUME NEW k \in 0 .. node.top
          PROVE  lists[k] \in Seq(1 .. c + 1)
        <2>1. lists[k] \in Seq(1 .. c)
            BY <1>1
        <2> DEFINE list == lists[k]
        <2>2. list \in Seq(1 .. c)
            BY <2>1
        <2> HIDE DEF list
        <2>3. \A i \in 1 .. Len(list) : list[i] \in 1 .. c + 1
            BY <2>2
        <2>4. list \in Seq(1 .. c + 1)
            BY <2>2, <2>3, Retyped
        <2> QED
            BY <2>4 DEF list
    <1>3. lists \in [0 .. node.top -> Seq(1 .. c + 1)]
        BY <1>1, <1>2
    <1>4. lists \in Lists(c + 1)
        BY <1>1, <1>3 DEF Lists
    <1> QED
        BY <1>1, <1>3, <1>4 DEF NodeOf

LEMMA GrownIs ==
    ASSUME NEW c \in Nat, NEW g \in GraphOf(c), NEW d \in Docs, NEW p \in Points,
           NEW level \in Nat, \A n \in 1 .. c : g.nodes[n].at # p
    PROVE  LET h == Grown(g, d, p, level)
           IN  /\ h \in GraphOf(c + 1)
               /\ h.idMap = [g.idMap EXCEPT ![d] = c + 1]
               /\ h.entry = g.entry /\ h.top = g.top /\ h.wild = g.wild
               /\ \A n \in 1 .. c : h.nodes[n] = g.nodes[n]
               /\ h.nodes[c + 1] = NewNode(d, p, level)
    <1> DEFINE h == Grown(g, d, p, level)
               node == NewNode(d, p, level)
    <1>1. /\ g.nodes \in Seq(NodeOf(c)) /\ Len(g.nodes) = c
          /\ g.idMap \in [Docs -> 0 .. c] /\ g.entry \in 0 .. c /\ g.top \in Nat
          /\ g.wild \in BOOLEAN
          /\ \A m, n \in 1 .. c : g.nodes[m].at = g.nodes[n].at => m = n
        BY GraphIs
    <1>2. node \in NodeOf(c + 1) /\ node.at = p
        <2> DEFINE lists == [l \in 0 .. level |-> <<>>]
        <2>1. lists \in [0 .. level -> Seq(1 .. c + 1)]
            OBVIOUS
        <2> HIDE DEF lists
        <2>2. lists \in Lists(c + 1)
            BY <2>1 DEF Lists
        <2>3. node = [doc |-> d, at |-> p, top |-> level, deleted |-> FALSE, neighbors |-> lists]
            BY DEF NewNode, lists
        <2> QED
            BY <2>1, <2>2, <2>3 DEF NodeOf
    <1>3. /\ h.nodes = Append(g.nodes, node) /\ h.idMap = [g.idMap EXCEPT ![d] = c + 1]
          /\ h.entry = g.entry /\ h.top = g.top /\ h.wild = g.wild
          /\ h \in [nodes : {h.nodes}, idMap : {h.idMap}, entry : {g.entry},
                    top : {g.top}, wild : {g.wild}]
        BY <1>1 DEF Grown, GraphOf
    <1> HIDE DEF h, node
    <1>4. g.nodes \in Seq(NodeOf(c + 1))
        <2> DEFINE list == g.nodes
        <2>1. list \in Seq(NodeOf(c))
            BY <1>1
        <2> HIDE DEF list
        <2>2. \A i \in 1 .. Len(list) : list[i] \in NodeOf(c + 1)
            BY <2>1, NodeOfGrows
        <2>3. list \in Seq(NodeOf(c + 1))
            BY <2>1, <2>2, Retyped
        <2> QED
            BY <2>3 DEF list
    <1>5. h.nodes \in Seq(NodeOf(c + 1)) /\ Len(h.nodes) = c + 1
        BY <1>1, <1>2, <1>3, <1>4
    <1>6. (\A n \in 1 .. c : h.nodes[n] = g.nodes[n]) /\ h.nodes[c + 1] = node
        BY <1>1, <1>3, <1>4
    <1>7. h.idMap \in [Docs -> 0 .. c + 1]
        BY <1>1, <1>3
    <1>8. \A m, n \in 1 .. c + 1 : h.nodes[m].at = h.nodes[n].at => m = n
        <2> SUFFICES ASSUME NEW m \in 1 .. c + 1, NEW n \in 1 .. c + 1,
                            h.nodes[m].at = h.nodes[n].at
                     PROVE  m = n
            OBVIOUS
        <2>1. (m \in 1 .. c \/ m = c + 1) /\ (n \in 1 .. c \/ n = c + 1)
            OBVIOUS
        <2> QED
            BY <1>1, <1>2, <1>6, <2>1
    <1>9. h \in GraphOf(c + 1)
        <2>1. g.entry \in 0 .. c + 1
            BY <1>1
        <2>2. h \in [nodes : Seq(NodeOf(c + 1)), idMap : [Docs -> 0 .. c + 1], entry : 0 .. c + 1,
                     top : Nat, wild : BOOLEAN]
            BY <1>1, <1>3, <1>5, <1>7, <2>1
        <2> QED
            BY <1>5, <1>8, <2>2 DEF GraphOf
    <1> QED
        BY <1>3, <1>6, <1>9 DEF h, node

\* The list entries that a graph grown by one node has are those it had.
LEMMA GrownKeeps ==
    ASSUME NEW c \in Nat, NEW g \in GraphOf(c), Bounded(g, c), NEW h \in GraphOf(c + 1),
           NEW d, NEW p, NEW level \in Nat,
           \A n \in 1 .. c : h.nodes[n] = g.nodes[n], h.nodes[c + 1] = NewNode(d, p, level)
    PROVE  /\ Bounded(h, c + 1)
           /\ LinksIn(g, c, Reach(g, c)) => LinksIn(h, c + 1, Reach(h, c + 1))
    <1>1. h.nodes[c + 1].top = level /\ \A l \in 0 .. level : h.nodes[c + 1].neighbors[l] = <<>>
        BY DEF NewNode
    <1>2. Bounded(h, c + 1)
        <2> SUFFICES ASSUME NEW n \in 1 .. c + 1, NEW l \in 0 .. h.nodes[n].top
                     PROVE  Len(h.nodes[n].neighbors[l]) <= Capacity(l)
            BY DEF Bounded
        <2>1. CASE n \in 1 .. c
            BY <2>1 DEF Bounded
        <2>2. CASE n = c + 1
            <3>1. Len(h.nodes[n].neighbors[l]) = 0
                BY <1>1, <2>2
            <3>2. l \in Nat
                BY <1>1, <2>2
            <3> QED
                BY <3>1, <3>2, CapacityIsNat
        <2> QED
            BY <2>1, <2>2
    <1>3. ASSUME LinksIn(g, c, Reach(g, c))
          PROVE  LinksIn(h, c + 1, Reach(h, c + 1))
        <2> SUFFICES ASSUME NEW n \in 1 .. c + 1, NEW l \in 0 .. h.nodes[n].top
                     PROVE  ToSet(h.nodes[n].neighbors[l]) \subseteq Reach(h, c + 1)[l]
            BY DEF LinksIn
        <2>1. CASE n \in 1 .. c
            <3>1. ToSet(g.nodes[n].neighbors[l]) \subseteq Reach(g, c)[l]
                BY <1>3, <2>1 DEF LinksIn
            <3>2. g.nodes[n].top \in Nat
                BY <2>1, GraphIs
            <3>3. l \in Nat
                BY <2>1, <3>2
            <3>4. Reach(g, c)[l] \subseteq Reach(h, c + 1)[l]
                <4>1. \A m \in 1 .. c : m \in 1 .. c + 1
                    OBVIOUS
                <4> QED
                    BY <3>3, <4>1 DEF Reach
            <3> QED
                BY <2>1, <3>1, <3>4
        <2>2. CASE n = c + 1
            BY <1>1, <2>2 DEF ToSet
        <2> QED
            BY <2>1, <2>2
    <1> QED
        BY <1>2, <1>3

LEMMA EmptyIs ==
    ASSUME NEW max \in Nat
    PROVE  Shape(EmptyGraph, 0, max)
    <1> DEFINE g == EmptyGraph
    <1>1. /\ g.nodes = <<>> /\ g.idMap = [d \in Docs |-> NoNode] /\ g.entry = NoNode
          /\ g.top = 0 /\ g.wild = FALSE
        BY DEF EmptyGraph
    <1>2. 1 .. 0 = {}
        OBVIOUS
    <1>3. g \in GraphOf(0)
        <2>1. <<>> \in Seq(NodeOf(0)) /\ Len(<<>>) = 0
            OBVIOUS
        <2>2. [d \in Docs |-> NoNode] \in [Docs -> 0 .. 0] /\ NoNode \in 0 .. 0
            BY DEF NoNode
        <2>3. g \in [nodes : Seq(NodeOf(0)), idMap : [Docs -> 0 .. 0], entry : 0 .. 0,
                     top : Nat, wild : BOOLEAN]
            BY <2>1, <2>2 DEF EmptyGraph
        <2> QED
            BY <1>1, <1>2, <2>1, <2>3 DEF GraphOf
    <1> QED
        BY <1>1, <1>2, <1>3 DEF Shape, Bounded

LEMMA InsertedIs ==
    ASSUME NEW c \in Nat, NEW max \in Nat, NEW g, Shape(g, c, max), NEW d \in Docs,
           NEW p \in Points, NEW drawn \in 0 .. max, \A n \in 1 .. c : g.nodes[n].at # p
    PROVE  LET r == Inserted(g, d, p, drawn)
           IN  /\ Shape(r, c + 1, max)
               /\ r.idMap = [g.idMap EXCEPT ![d] = c + 1]
               /\ \A n \in 1 .. c : /\ r.nodes[n].doc = g.nodes[n].doc
                                    /\ r.nodes[n].at = g.nodes[n].at
                                    /\ r.nodes[n].deleted = g.nodes[n].deleted
               /\ r.nodes[c + 1].doc = d /\ r.nodes[c + 1].at = p /\ ~r.nodes[c + 1].deleted
               /\ ~g.wild /\ SelfResolving(g, c) /\ LinksIn(g, c, Reach(g, c))
                      /\ (\A n \in 1 .. c : g.nodes[n].doc # d) =>
                  ~r.wild /\ LinksIn(r, c + 1, Reach(r, c + 1))
    <1> DEFINE r == Inserted(g, d, p, drawn)
               level == IF g.entry = NoNode THEN drawn ELSE Lesser(drawn, g.top + 1)
               h == Grown(g, d, p, level)
               new == c + 1
    <1>1. /\ g \in GraphOf(c) /\ Bounded(g, c) /\ g.top <= max
          /\ \A n \in 1 .. c : g.nodes[n].top <= g.top
          /\ c # 0 => g.entry \in 1 .. c /\ g.nodes[g.entry].top = g.top
          /\ c = 0 => g.entry = NoNode
        BY DEF Shape
    <1>2. /\ g.top \in Nat /\ Len(g.nodes) = c /\ g.entry \in 0 .. c
          /\ \A n \in 1 .. c : g.nodes[n].top \in Nat
        BY <1>1, GraphIs
    <1>3. level \in Nat /\ level <= max /\ new \in Nat /\ new \in 1 .. c + 1
        BY <1>2 DEF Lesser
    <1>4. /\ h \in GraphOf(new) /\ h.idMap = [g.idMap EXCEPT ![d] = new]
          /\ h.entry = g.entry /\ h.top = g.top /\ h.wild = g.wild
          /\ (\A n \in 1 .. c : h.nodes[n] = g.nodes[n]) /\ h.nodes[new] = NewNode(d, p, level)
        <2> HIDE DEF level
        <2> QED
            BY <1>1, <1>3, GrownIs
    <1>5. h.nodes[new].doc = d /\ h.nodes[new].at = p /\ h.nodes[new].top = level /\ ~h.nodes[new].deleted
        BY <1>4 DEF NewNode
    <1> DEFINE built == IF g.entry = NoNode THEN h
                        ELSE Linked(h, new, Descend(h, p, g.entry, g.top, level + 1),
                                    Lesser(level, g.top))
               e == IF g.entry = NoNode \/ level > g.top THEN new ELSE g.entry
               t == IF g.entry = NoNode THEN level ELSE Greater(level, g.top)
    <1> DEFINE Alone == /\ ~g.wild /\ SelfResolving(g, c) /\ LinksIn(g, c, Reach(g, c))
                        /\ \A n \in 1 .. c : g.nodes[n].doc # d
    <1>6. Bounded(h, new) /\ (LinksIn(g, c, Reach(g, c)) => LinksIn(h, new, Reach(h, new)))
        <2> HIDE DEF h, level
        <2>1. \A n \in 1 .. c : h.nodes[n] = g.nodes[n]
            BY <1>4
        <2>2. h.nodes[c + 1] = NewNode(d, p, level) /\ h \in GraphOf(c + 1)
            BY <1>4
        <2> QED
            BY <1>1, <1>3, <2>1, <2>2, GrownKeeps, Zenon
    <1>7. Alone => SelfResolving(h, new)
        <2> SUFFICES ASSUME Alone, NEW n \in 1 .. c + 1
                     PROVE  Resolved(h, n) \in {NoNode, n}
            BY DEF SelfResolving
        <2>1. CASE n \in 1 .. c
            <3>1. g.nodes[n].doc \in Docs /\ g.idMap \in [Docs -> 0 .. c]
                BY <1>1, <2>1, GraphIs
            <3>2. Resolved(h, n) = Resolved(g, n)
                BY <1>4, <2>1, <3>1 DEF Resolved
            <3> QED
                BY <2>1, <3>2 DEF SelfResolving
        <2>2. CASE n = c + 1
            <3>1. g.idMap \in [Docs -> 0 .. c]
                BY <1>1, GraphIs
            <3> QED
                BY <1>4, <1>5, <2>2, <3>1 DEF Resolved
        <2> QED
            BY <2>1, <2>2
    <1> HIDE DEF h, level, Alone
    <1>8. g.entry # NoNode => built = Linked(h, new, Descend(h, p, g.entry, g.top, level + 1),
                                             Lesser(level, g.top))
        OBVIOUS
    <1> HIDE DEF built, new
    <1>9. ASSUME g.entry # NoNode, NEW V, Tower(h, new, V), LinksIn(h, new, V),
                 \A l \in 0 .. level : new \in V[l], g.entry \in V[g.top]
          PROVE  built \in Good(h, new, V)
        <2>1. new \in 1 .. new
            BY <1>3 DEF new
        <2> DEFINE ep == g.entry
                   top == g.top
        <2>2. ep \in V[top] /\ top \in Nat
            BY <1>2, <1>9
        <2> HIDE DEF ep, top
        <2>3. Linked(h, new, Descend(h, p, ep, top, level + 1), Lesser(level, top))
                  \in Good(h, new, V)
            BY <1>3, <1>4, <1>5, <1>6, <1>9, <2>1, <2>2, DescentsGood
        <2> QED
            BY <1>8, <1>9, <2>3 DEF ep, top
    <1>10. g.entry # NoNode => g.entry \in 1 .. c
        BY <1>1
    <1>11. built \in GraphOf(new) /\ Frame(h, built, new) /\ Bounded(built, new)
        <2>1. CASE g.entry = NoNode
            BY <1>4, <1>6, <2>1 DEF built, Frame
        <2>2. CASE g.entry # NoNode
            <3> DEFINE V == All(new)
            <3>1. Tower(h, new, V) /\ LinksIn(h, new, V)
                BY <1>3, <1>4, AllIsTower
            <3>2. \A l \in Nat : V[l] = 1 .. c + 1
                BY DEF All, new
            <3> HIDE DEF V
            <3>3. g.entry \in V[g.top]
                BY <1>2, <1>10, <2>2, <3>2
            <3>4. \A l \in 0 .. level : new \in V[l]
                BY <1>3, <3>2
            <3>5. built \in Good(h, new, V)
                BY <1>9, <2>2, <3>1, <3>3, <3>4
            <3> QED
                BY <3>5 DEF Good, Kin
        <2> QED
            BY <2>1, <2>2
    <1>12. r = [built EXCEPT !.entry = e, !.top = t]
        <2>1. CASE g.entry = NoNode
            BY <1>2, <2>1 DEF Inserted, level, h, built, new
        <2>2. CASE g.entry # NoNode
            <3>1. level = Lesser(drawn, g.top + 1)
                BY <2>2 DEF level
            <3>2. r = [built EXCEPT !.entry = IF level > g.top THEN new ELSE @,
                                    !.top = Greater(level, g.top)]
                BY <1>2, <2>2, <3>1 DEF Inserted, h, built, new
            <3>3. built.entry = g.entry
                BY <1>4, <1>11 DEF Frame
            <3> QED
                BY <2>2, <3>2, <3>3
        <2> QED
            BY <2>1, <2>2
    <1>13. e \in 0 .. new /\ t \in Nat /\ t <= max /\ e \in 1 .. new
        BY <1>1, <1>2, <1>3, <1>10 DEF Greater, new
    <1> HIDE DEF r
    <1>14. /\ r \in GraphOf(new) /\ r.entry = e /\ r.top = t
           /\ r.nodes = built.nodes /\ r.idMap = built.idMap /\ r.wild = built.wild
        <2> HIDE DEF e, t
        <2> QED
            BY <1>11, <1>12, <1>13 DEF GraphOf
    <1>15. \A n \in 1 .. new : /\ r.nodes[n].doc = h.nodes[n].doc
                               /\ r.nodes[n].at = h.nodes[n].at
                               /\ r.nodes[n].top = h.nodes[n].top
                               /\ r.nodes[n].deleted = h.nodes[n].deleted
        BY <1>11, <1>14 DEF Frame
    <1>16. \A n \in 1 .. c : n \in 1 .. new
        BY DEF new
    <1>17. \A n \in 1 .. new : n \in 1 .. c \/ n = new
        BY DEF new
    <1>18. \A n \in 1 .. new : r.nodes[n].top <= t
        <2> SUFFICES ASSUME NEW n \in 1 .. new PROVE h.nodes[n].top <= t
            BY <1>15
        <2>1. level <= t /\ (g.entry # NoNode => g.top <= t)
            BY <1>2, <1>3 DEF Greater
        <2>2. CASE n \in 1 .. c
            <3>1. g.entry # NoNode
                BY <1>1, <2>2 DEF NoNode
            <3>2. g.nodes[n].top <= g.top /\ g.nodes[n].top \in Nat
                BY <1>1, <1>2, <2>2
            <3>3. h.nodes[n].top = g.nodes[n].top
                BY <1>4, <2>2
            <3> QED
                BY <1>2, <1>13, <2>1, <3>1, <3>2, <3>3
        <2>3. CASE n = new
            BY <1>5, <2>1, <2>3
        <2> QED
            BY <1>17, <2>2, <2>3
    <1>19. r.nodes[e].top = t
        <2>1. r.nodes[e].top = h.nodes[e].top
            BY <1>13, <1>15
        <2>2. CASE e = new
            <3>1. t = level
                BY <1>1, <1>2, <1>3, <2>2 DEF Greater, new
            <3> QED
                BY <1>5, <2>1, <2>2, <3>1
        <2>3. CASE e # new
            <3>1. e = g.entry /\ t = g.top /\ g.entry # NoNode
                BY <1>2, <1>3, <2>3 DEF Greater
            <3> QED
                BY <1>1, <1>4, <1>10, <2>1, <3>1
        <2> QED
            BY <2>2, <2>3
    <1>20. Shape(r, new, max)
        <2>1. Bounded(r, new)
            BY <1>11, <1>14 DEF Bounded
        <2>2. new # 0
            BY DEF new
        <2> HIDE DEF e, t
        <2> QED
            BY <1>13, <1>14, <1>18, <1>19, <2>1, <2>2 DEF Shape
    <1>21. r.idMap = [g.idMap EXCEPT ![d] = new]
        BY <1>4, <1>11, <1>14 DEF Frame
    <1>22. \A n \in 1 .. c : /\ r.nodes[n].doc = g.nodes[n].doc
                             /\ r.nodes[n].at = g.nodes[n].at
                             /\ r.nodes[n].deleted = g.nodes[n].deleted
        BY <1>4, <1>15, <1>16
    <1>23. r.nodes[new].doc = d /\ r.nodes[new].at = p /\ ~r.nodes[new].deleted
        <2>1. new \in 1 .. new
            BY <1>3 DEF new
        <2> QED
            BY <1>5, <1>15, <2>1
    <1>24. ASSUME Alone
           PROVE  ~r.wild /\ LinksIn(r, new, Reach(r, new))
        <2> DEFINE V == Reach(h, new)
        <2>1. Tower(h, new, V) /\ Strict(h, V) /\ LinksIn(h, new, V)
            BY <1>3, <1>4, <1>6, <1>7, <1>24, ReachIsTower DEF Alone
        <2>2. ~h.wild
            BY <1>4, <1>24 DEF Alone
        <2>3. built \in Kin(h, new, V) /\ ~built.wild
            <3>1. CASE g.entry = NoNode
                BY <1>4, <2>1, <2>2, <3>1 DEF built, Kin, Frame
            <3>2. CASE g.entry # NoNode
                <4>1. g.entry \in V[g.top]
                    <5>1. h.nodes[g.entry].top = g.top /\ g.entry \in 1 .. new
                        BY <1>1, <1>4, <1>10, <1>16, <3>2
                    <5> QED
                        BY <1>2, <5>1 DEF Reach
                <4>2. \A l \in 0 .. level : new \in V[l]
                    <5>1. new \in 1 .. new
                        BY <1>3 DEF new
                    <5> QED
                        BY <1>3, <1>5, <5>1 DEF Reach
                <4> HIDE DEF V
                <4>3. built \in Good(h, new, V)
                    BY <1>9, <2>1, <3>2, <4>1, <4>2
                <4> QED
                    BY <2>1, <2>2, <4>3 DEF Good
            <3> QED
                BY <3>1, <3>2
        <2>4. Reach(r, new) = V
            BY <1>15 DEF Reach
        <2>5. LinksIn(built, new, V)
            BY <2>3 DEF Kin
        <2> HIDE DEF V
        <2>6. LinksIn(r, new, V)
            BY <1>14, <2>5 DEF LinksIn
        <2> QED
            BY <1>14, <2>3, <2>4, <2>6
    <1> QED
        BY <1>20, <1>21, <1>22, <1>23, <1>24 DEF r, new, Alone

LEMMA RemovedIs ==
    ASSUME NEW c \in Nat, NEW max \in Nat, NEW g, Shape(g, c, max), NEW d \in Docs,
           g.idMap[d] # NoNode
    PROVE  LET r == Removed(g, d)
           IN  /\ Shape(r, c, max)
               /\ r.idMap = [g.idMap EXCEPT ![d] = NoNode] /\ r.wild = g.wild
               /\ \A n \in 1 .. c :
                      /\ r.nodes[n].doc = g.nodes[n].doc /\ r.nodes[n].top = g.nodes[n].top
                      /\ r.nodes[n].neighbors = g.nodes[n].neighbors
                      /\ r.nodes[n].deleted = (n = g.idMap[d] \/ g.nodes[n].deleted)
    <1> DEFINE r == Removed(g, d)
               i == g.idMap[d]
               node == [g.nodes[i] EXCEPT !.deleted = TRUE]
    <1>1. /\ g \in GraphOf(c) /\ Bounded(g, c) /\ g.top <= max
          /\ \A n \in 1 .. c : g.nodes[n].top <= g.top
          /\ IF c = 0 THEN g.entry = NoNode
             ELSE g.entry \in 1 .. c /\ g.nodes[g.entry].top = g.top
        BY DEF Shape
    <1>2. /\ g.nodes \in Seq(NodeOf(c)) /\ Len(g.nodes) = c
          /\ g.idMap \in [Docs -> 0 .. c] /\ g.entry \in 0 .. c /\ g.top \in Nat
          /\ g.wild \in BOOLEAN
          /\ \A m, n \in 1 .. c : g.nodes[m].at = g.nodes[n].at => m = n
          /\ \A n \in 1 .. c : g.nodes[n] \in NodeOf(c)
        BY <1>1, GraphIs
    <1>3. i \in 1 .. c
        BY <1>2 DEF NoNode
    <1>4. /\ node \in NodeOf(c) /\ node.doc = g.nodes[i].doc /\ node.at = g.nodes[i].at
          /\ node.top = g.nodes[i].top /\ node.neighbors = g.nodes[i].neighbors
          /\ node.deleted = TRUE
        BY <1>2, <1>3 DEF NodeOf
    <1>5. /\ r.nodes = [g.nodes EXCEPT ![i] = node] /\ r.idMap = [g.idMap EXCEPT ![d] = NoNode]
          /\ r.entry = g.entry /\ r.top = g.top /\ r.wild = g.wild
          /\ r \in [nodes : {r.nodes}, idMap : {r.idMap}, entry : {g.entry},
                    top : {g.top}, wild : {g.wild}]
        BY <1>1 DEF Removed, GraphOf
    <1> HIDE DEF r, node
    <1>6. r.nodes \in Seq(NodeOf(c)) /\ Len(r.nodes) = c
        BY <1>2, <1>3, <1>4, <1>5
    <1>7. r.nodes[i] = node /\ \A n \in 1 .. c : n # i => r.nodes[n] = g.nodes[n]
        BY <1>2, <1>3, <1>5
    <1>8. \A n \in 1 .. c :
              /\ r.nodes[n].doc = g.nodes[n].doc /\ r.nodes[n].at = g.nodes[n].at
              /\ r.nodes[n].top = g.nodes[n].top /\ r.nodes[n].neighbors = g.nodes[n].neighbors
        BY <1>4, <1>7
    <1>9. \A n \in 1 .. c : r.nodes[n].deleted = (n = i \/ g.nodes[n].deleted)
        <2> SUFFICES ASSUME NEW n \in 1 .. c
                     PROVE  r.nodes[n].deleted = (n = i \/ g.nodes[n].deleted)
            OBVIOUS
        <2>1. g.nodes[n].deleted \in BOOLEAN
            BY <1>2 DEF NodeOf
        <2>2. CASE n = i
            BY <1>4, <1>7, <2>2
        <2>3. CASE n # i
            <3>1. r.nodes[n] = g.nodes[n]
                BY <1>7, <2>3
            <3> QED
                BY <2>1, <2>3, <3>1
        <2> QED
            BY <2>2, <2>3
    <1>10. r \in GraphOf(c)
        <2>1. r.idMap \in [Docs -> 0 .. c]
            BY <1>2, <1>5 DEF NoNode
        <2>2. r \in [nodes : Seq(NodeOf(c)), idMap : [Docs -> 0 .. c], entry : 0 .. c,
                     top : Nat, wild : BOOLEAN]
            BY <1>2, <1>5, <1>6, <2>1
        <2>3. \A m, n \in 1 .. c : r.nodes[m].at = r.nodes[n].at => m = n
            BY <1>2, <1>8
        <2> QED
            BY <1>6, <2>2, <2>3 DEF GraphOf
    <1>11. Shape(r, c, max)
        BY <1>1, <1>5, <1>8, <1>10 DEF Shape, Bounded
    <1> QED
        BY <1>5, <1>8, <1>9, <1>11 DEF r

\* The nodes load has to choose from.
Own(g, c, d) == {n \in 1 .. c : g.nodes[n].doc = d /\ ~g.nodes[n].deleted}

LEMMA LoadedIs ==
    ASSUME NEW c \in Nat, NEW max \in Nat, NEW g, Shape(g, c, max)
    PROVE  LET r == Loaded(g)
           IN  /\ Shape(r, c, max)
               /\ r.nodes = g.nodes /\ r.wild = g.wild
               /\ \A d \in Docs : IF Own(g, c, d) = {} THEN r.idMap[d] = NoNode
                                  ELSE r.idMap[d] \in Own(g, c, d)
               /\ r = [g EXCEPT !.idMap = r.idMap]
    <1> DEFINE r == Loaded(g)
               Newest(d) == CHOOSE n \in Own(g, c, d) : \A m \in Own(g, c, d) : m <= n
               ids == [d \in Docs |-> IF Own(g, c, d) = {} THEN NoNode ELSE Newest(d)]
    <1>1. /\ g \in GraphOf(c) /\ Bounded(g, c) /\ g.top <= max
          /\ \A n \in 1 .. c : g.nodes[n].top <= g.top
          /\ IF c = 0 THEN g.entry = NoNode
             ELSE g.entry \in 1 .. c /\ g.nodes[g.entry].top = g.top
        BY DEF Shape
    <1>2. DOMAIN g.nodes = 1 .. c
        BY <1>1, GraphIs
    <1>3. r = [g EXCEPT !.idMap = ids]
        BY <1>2 DEF Loaded, Own
    <1>4. ASSUME NEW d \in Docs, Own(g, c, d) # {}
          PROVE  Newest(d) \in Own(g, c, d)
        <2> DEFINE S == Own(g, c, d)
                   T == {c - n : n \in S}
        <2>1. \A n \in S : n \in Nat /\ c - n \in Nat
            BY DEF Own
        <2> HIDE DEF S
        <2>2. S # {}
            BY <1>4 DEF S
        <2>3. T \subseteq Nat /\ T # {}
            BY <2>1, <2>2
        <2>4. PICK t \in T : \A u \in T : t <= u
            BY <2>3, LeastNat
        <2>5. PICK n \in S : t = c - n
            OBVIOUS
        <2>6. \A m \in S : m <= n
            <3> SUFFICES ASSUME NEW m \in S PROVE m <= n
                OBVIOUS
            <3>1. c - n <= c - m
                BY <2>4, <2>5
            <3> QED
                BY <2>1, <3>1
        <2> QED
            BY <2>6 DEF S
    <1> HIDE DEF Newest
    <1>5. \A d \in Docs : IF Own(g, c, d) = {} THEN ids[d] = NoNode
                          ELSE ids[d] \in Own(g, c, d)
        BY <1>4
    <1>6. ids \in [Docs -> 0 .. c]
        BY <1>4 DEF Own, NoNode
    <1> HIDE DEF ids, r
    <1>7. r \in GraphOf(c)
        BY <1>1, <1>3, <1>6 DEF GraphOf
    <1>8. /\ r.nodes = g.nodes /\ r.wild = g.wild /\ r.idMap = ids
          /\ r.entry = g.entry /\ r.top = g.top
        BY <1>1, <1>3 DEF GraphOf
    <1>9. Shape(r, c, max)
        BY <1>1, <1>7, <1>8 DEF Shape, Bounded
    <1> QED
        BY <1>3, <1>5, <1>8, <1>9 DEF r

-----------------------------------------------------------------------------
(* A search that is wide enough finds everything, when layer 0 holds       *)
(* together.                                                               *)

\* Every node is what its document id leads to.
AllLive(g, c) == \A n \in 1 .. c : ~g.nodes[n].deleted /\ Resolved(g, n) = n

Bottom(g, n) == g.nodes[n].neighbors[0]

\* From every node of layer 0 all others are reached: no smaller set is closed.
Joined(g, c) ==
    \A S \in SUBSET (1 .. c) :
        S # {} /\ (\A n \in S : ToSet(Bottom(g, n)) \subseteq S) => S = 1 .. c

\* A wide beam behind some rounds: of what was visited, all that the filter lets
\* through is found, what lies behind it was visited too, and every round but the
\* last expanded another node.
Widened(g, ep, c, allowed, i) ==
    {beam \in Beams(g, 1 .. c, allowed) :
        /\ beam.found = Accepted(g, beam.visited, allowed) /\ beam.open \subseteq beam.visited
        /\ ep \in beam.visited
        /\ \A n \in beam.visited \ beam.open : ToSet(Bottom(g, n)) \subseteq beam.visited
        /\ \/ beam.open = {} \/ beam.visited = 1 .. c
           \/ Cardinality(beam.visited \ beam.open) >= i}

\* The beam while the neighbours in list are examined.
Widening(g, rest, list, c, allowed, j) ==
    {beam \in Beams(g, 1 .. c, allowed) :
        /\ beam.found = Accepted(g, beam.visited, allowed) /\ beam.open \subseteq beam.visited
        /\ beam.visited \ beam.open = rest.visited \ rest.open
        /\ rest.visited \subseteq beam.visited
        /\ \A i \in 1 .. j : list[i] \in beam.visited}

LEMMA Counted ==
    ASSUME NEW c \in Nat, NEW S \in SUBSET (1 .. c)
    PROVE  /\ IsFiniteSet(S) /\ Cardinality(S) \in Nat /\ Cardinality(S) <= c
           /\ Cardinality(S) >= c => S = 1 .. c
    <1>1. IsFiniteSet(1 .. c) /\ Cardinality(1 .. c) = c
        BY FS_Interval
    <1>2. IsFiniteSet(S) /\ Cardinality(S) <= c /\ (c = Cardinality(S) => S = 1 .. c)
        BY <1>1, FS_Subset
    <1>3. Cardinality(S) \in Nat
        BY <1>2, FS_CardinalityType
    <1> QED
        BY <1>2, <1>3

LEMMA ExamineWidens ==
    ASSUME NEW c \in Nat, NEW g \in GraphOf(c), NEW q, NEW ef \in Nat, ef >= c, NEW allowed,
           NEW rest, NEW list \in Seq(1 .. c), NEW j \in 1 .. Len(list),
           NEW beam \in Widening(g, rest, list, c, allowed, j - 1)
    PROVE  Examine(g, q, ef, allowed, beam, list[j]) \in Widening(g, rest, list, c, allowed, j)
    <1> DEFINE n == list[j]
               visited == beam.visited
               new == Examine(g, q, ef, allowed, beam, n)
               some == Accepted(g, visited \cup {n}, allowed)
    <1>1. /\ beam \in Beams(g, 1 .. c, allowed) /\ visited \in SUBSET (1 .. c)
          /\ beam.found = Accepted(g, visited, allowed) /\ beam.open \subseteq visited
          /\ visited \ beam.open = rest.visited \ rest.open
          /\ rest.visited \subseteq visited
          /\ \A i \in 1 .. j - 1 : list[i] \in visited
        BY DEF Widening, Beams
    <1>2. n \in 1 .. c /\ \A i \in 1 .. j : i = j \/ i \in 1 .. j - 1
        OBVIOUS
    <1>3. CASE n \in visited
        <2>1. new = beam
            BY <1>3 DEF Examine
        <2>2. \A i \in 1 .. j : list[i] \in visited
            BY <1>1, <1>2, <1>3
        <2> QED
            BY <1>1, <2>1, <2>2 DEF Widening
    <1>4. CASE n \notin visited
        <2>1. Cardinality(beam.found) < ef
            <3>1. beam.found \in SUBSET (1 .. c) /\ beam.found # 1 .. c
                BY <1>1, <1>2, <1>4 DEF Accepted
            <3>2. Cardinality(beam.found) \in Nat /\ ~(Cardinality(beam.found) >= c)
                BY <3>1, Counted
            <3> QED
                BY <3>2
        <2>2. ASSUME Accepts(g, n, allowed)
              PROVE  Trimmed(g, q, ef, beam.found \cup {n}) = some
            <3>1. some = beam.found \cup {n} /\ some \in SUBSET (1 .. c)
                BY <1>1, <1>2, <2>2 DEF Accepted
            <3>2. Cardinality(some) \in Nat /\ Cardinality(some) <= c
                BY <3>1, Counted
            <3> HIDE DEF some
            <3>3. ~(Cardinality(some) > ef)
                BY <3>2
            <3> QED
                BY <3>1, <3>3 DEF Trimmed
        <2>3. ~Accepts(g, n, allowed) => beam.found = some
            BY <1>1 DEF Accepted
        <2> HIDE DEF some
        <2>4. new = [visited |-> visited \cup {n}, open |-> beam.open \cup {n}, found |-> some]
            BY <1>4, <2>1, <2>2, <2>3 DEF Examine
        <2>5. new \in Beams(g, 1 .. c, allowed)
            BY <1>1, <1>2, ExamineIn
        <2> HIDE DEF new, n, visited
        <2>6. new.visited \ new.open = rest.visited \ rest.open
            BY <1>1, <1>4, <2>4
        <2>7. \A i \in 1 .. j : list[i] \in new.visited
            BY <1>1, <1>2, <2>4 DEF n
        <2>8. /\ new.found = Accepted(g, new.visited, allowed)
              /\ new.open \subseteq new.visited /\ rest.visited \subseteq new.visited
            BY <1>1, <2>4 DEF some
        <2>9. new \in Widening(g, rest, list, c, allowed, j)
            BY <2>5, <2>6, <2>7, <2>8 DEF Widening
        <2> QED
            BY <2>9 DEF new, n
    <1> QED
        BY <1>3, <1>4

LEMMA AllConfined ==
    ASSUME NEW c \in Nat, NEW g \in GraphOf(c), NEW layer \in Nat
    PROVE  Confined(g, layer, 1 .. c)
    <1>1. Tower(g, c, All(c)) /\ LinksIn(g, c, All(c)) /\ All(c)[layer] = 1 .. c
        BY AllIsTower DEF All
    <1>2. Confined(g, layer, All(c)[layer])
        BY <1>1, TowerConfines
    <1> QED
        BY <1>1, <1>2

LEMMA RoundWidens ==
    ASSUME NEW c \in Nat, NEW g \in GraphOf(c), AllLive(g, c), NEW q \in Points,
           NEW ef \in Nat, ef >= c, NEW allowed, NEW ep, NEW i \in 1 .. c,
           NEW beam \in Widened(g, ep, c, allowed, i - 1)
    PROVE  Round(g, q, ef, 0, allowed, beam) \in Widened(g, ep, c, allowed, i)
    <1>1. /\ beam \in Beams(g, 1 .. c, allowed)
          /\ beam.visited \in SUBSET (1 .. c) /\ beam.found = Accepted(g, beam.visited, allowed)
          /\ beam.open \subseteq beam.visited /\ ep \in beam.visited
          /\ \A n \in beam.visited \ beam.open : ToSet(Bottom(g, n)) \subseteq beam.visited
          /\ \/ beam.open = {} \/ beam.visited = 1 .. c
             \/ Cardinality(beam.visited \ beam.open) >= i - 1
        BY DEF Widened, Beams
    <1>2. CASE Finished(g, q, ef, beam)
        <2>1. beam.open = {} \/ beam.visited = 1 .. c
            <3>1. beam.found \subseteq beam.visited
                BY <1>1 DEF Accepted
            <3>2. /\ Cardinality(beam.found) \in Nat
                  /\ Cardinality(beam.found) >= c => beam.found = 1 .. c
                BY <1>1, <3>1, Counted
            <3> DEFINE k == Cardinality(beam.found)
            <3>4. k \in Nat /\ (k >= c => beam.found = 1 .. c)
                BY <3>2
            <3> HIDE DEF k
            <3>6. beam.visited \in SUBSET (1 .. c)
                BY <1>1
            <3>7. beam.found = 1 .. c => beam.visited = 1 .. c
                BY ONLY <3>1, <3>6
            <3>5. k >= ef => beam.visited = 1 .. c
                BY <3>4, <3>7
            <3>3. Cardinality(beam.found) >= ef => beam.visited = 1 .. c
                BY <3>5 DEF k
            <3> QED
                BY <1>2, <3>3 DEF Finished
        <2> QED
            BY <1>1, <1>2, <2>1 DEF Widened, Round
    <1>3. CASE ~Finished(g, q, ef, beam)
        <2> DEFINE best == Nearest(g, q, beam.open)
                   rest == Rest(g, q, beam)
                   list == Bottom(g, best)
                   new == Expand(g, q, ef, 0, allowed, beam)
                   P == [j \in Nat |-> Widening(g, rest, list, c, allowed, j)]
        <2>1. beam.open # {}
            BY <1>3 DEF Finished
        <2>2. best \in beam.open /\ best \in 1 .. c /\ rest \in Beams(g, 1 .. c, allowed)
            BY <1>1, <2>1, RestIn
        <2>3. Aim(g, q, beam) = best /\ Ahead(g, q, 0, beam) = list
            BY <2>2 DEF Aim, Ahead, AllLive, Bottom
        <2>4. ~Barren(g, q, 0, beam)
            BY <2>2, <2>3, GraphIs DEF Barren, NoNode
        <2>5. list \in Seq(1 .. c)
            <3>1. Confined(g, 0, 1 .. c)
                BY AllConfined
            <3> QED
                BY <1>1, <2>1, <2>3, <2>4, <3>1, AheadIn
        <2>6. new = Expansion(g, q, ef, allowed, rest, list)
            BY <2>3, <2>4, ExpandIs
        <2>7. /\ rest.visited = beam.visited /\ rest.found = beam.found
              /\ rest.open = beam.open \ {best}
            BY <1>1 DEF Rest, Beams
        <2> HIDE DEF list, rest, best, new
        <2>8. rest \in P[0] /\ ExaminesKeep(P, g, q, ef, allowed, 1 .. c, list)
            <3>1. rest \in Widening(g, rest, list, c, allowed, 0)
                BY <1>1, <2>2, <2>7 DEF Widening
            <3>2. ASSUME NEW j \in 1 .. Len(list), NEW b \in Widening(g, rest, list, c, allowed, j - 1)
                  PROVE  Examine(g, q, ef, allowed, b, list[j]) \in Widening(g, rest, list, c, allowed, j)
                BY <2>5, ExamineWidens
            <3>3. \A j \in 1 .. Len(list) : j \in Nat /\ j - 1 \in Nat
                OBVIOUS
            <3> QED
                BY <3>1, <3>2, <3>3 DEF ExaminesKeep
        <2> HIDE DEF P
        <2>9. new \in P[Len(list)] \cap Beams(g, 1 .. c, allowed)
            BY <2>2, <2>5, <2>6, <2>8, ExaminedStays
        <2>10. /\ new \in Beams(g, 1 .. c, allowed)
               /\ new.found = Accepted(g, new.visited, allowed) /\ new.open \subseteq new.visited
               /\ new.visited \ new.open = rest.visited \ rest.open
               /\ rest.visited \subseteq new.visited
               /\ \A j \in 1 .. Len(list) : list[j] \in new.visited
            BY <2>5, <2>9 DEF P, Widening
        <2>11. new.visited \ new.open = (beam.visited \ beam.open) \cup {best}
            BY <1>1, <2>2, <2>7, <2>10
        <2>12. ASSUME NEW n \in new.visited \ new.open
               PROVE  ToSet(Bottom(g, n)) \subseteq new.visited
            <3>1. CASE n = best
                BY <2>5, <2>10, <3>1 DEF ToSet, list
            <3>2. CASE n # best
                BY <1>1, <2>7, <2>10, <2>11, <2>12, <3>2
            <3> QED
                BY <3>1, <3>2
        <2>13. \/ new.open = {} \/ new.visited = 1 .. c
               \/ Cardinality(new.visited \ new.open) >= i
            <3>1. CASE beam.visited = 1 .. c
                <4>1. new.visited = 1 .. c
                    BY <2>7, <2>10, <3>1 DEF Beams
                <4> QED
                    BY <4>1
            <3>2. CASE Cardinality(beam.visited \ beam.open) >= i - 1
                <4> DEFINE D == beam.visited \ beam.open
                <4>1. D \in SUBSET (1 .. c)
                    BY <1>1
                <4>2. best \notin D
                    BY <2>2
                <4>3. new.visited \ new.open = D \cup {best} /\ Cardinality(D) >= i - 1
                    BY <2>11, <3>2
                <4> HIDE DEF D
                <4>4. IsFiniteSet(D) /\ Cardinality(D) \in Nat
                    BY <4>1, Counted
                <4> DEFINE E == new.visited \ new.open
                <4>6. E = D \cup {best}
                    BY <4>3
                <4> HIDE DEF E
                <4>5. Cardinality(D \cup {best}) = Cardinality(D) + 1
                    BY <4>2, <4>4, FS_AddElement
                <4>7. Cardinality(E) >= i
                    BY <4>3, <4>4, <4>5, <4>6
                <4> QED
                    BY <4>7 DEF E
            <3> QED
                BY <1>1, <2>1, <3>1, <3>2
        <2>14. ep \in new.visited
            BY <1>1, <2>7, <2>10
        <2>15. new \in Widened(g, ep, c, allowed, i)
            BY <2>10, <2>12, <2>13, <2>14 DEF Widened
        <2> QED
            BY <1>3, <2>15 DEF Round, new
    <1> QED
        BY <1>2, <1>3

\* The last round of a wide beam has visited all there is behind what it visited.
LEMMA WideRounds ==
    ASSUME NEW c \in Nat, NEW g \in GraphOf(c), AllLive(g, c), NEW q \in Points,
           NEW ef \in Nat, ef >= c, NEW allowed, NEW ep \in 1 .. c
    PROVE  /\ Rounds(g, q, ep, ef, 0, allowed)[c] \in Beams(g, 1 .. c, allowed)
           /\ SearchLayer(g, q, ep, ef, 0, allowed) = Rounds(g, q, ep, ef, 0, allowed)[c].found
           /\ LET beam == Rounds(g, q, ep, ef, 0, allowed)[c]
              IN  /\ beam.found = Accepted(g, beam.visited, allowed) /\ ep \in beam.visited
                  /\ \A n \in beam.visited : ToSet(Bottom(g, n)) \subseteq beam.visited
    <1> DEFINE P == [i \in Nat |-> Widened(g, ep, c, allowed, i)]
               r == Rounds(g, q, ep, ef, 0, allowed)
    <1>1. First(g, ep, allowed) \in P[0]
        <2> DEFINE first == First(g, ep, allowed)
        <2>1. Accepted(g, {ep}, allowed) \in SUBSET {ep}
            BY DEF Accepted
        <2>2. first = [visited |-> {ep}, open |-> {ep}, found |-> Accepted(g, {ep}, allowed)]
            <3>1. Accepted(g, {ep}, allowed) = IF Accepts(g, ep, allowed) THEN {ep} ELSE {}
                BY DEF Accepted
            <3> QED
                BY <3>1 DEF First
        <2>3. {ep} \ {ep} = {} /\ Cardinality({}) = 0
            BY FS_EmptySet
        <2> HIDE DEF first
        <2>4. first \in Beams(g, 1 .. c, allowed)
            BY <2>1, <2>2 DEF Beams, Accepted
        <2>6. Cardinality(first.visited \ first.open) >= 0
            BY <2>2, <2>3
        <2>7. first.visited \ first.open = {} /\ ep \in first.visited
            BY <2>2
        <2>8. first.found = Accepted(g, first.visited, allowed) /\ first.open \subseteq first.visited
            BY <2>2
        <2>5. first \in Widened(g, ep, c, allowed, 0)
            BY <2>4, <2>6, <2>7, <2>8 DEF Widened
        <2> QED
            BY <2>5 DEF first
    <1>2. \A i \in 1 .. c : \A beam \in P[i - 1] : Round(g, q, ef, 0, allowed, beam) \in P[i]
        <2>1. \A i \in 1 .. c : i \in Nat /\ i - 1 \in Nat
            OBVIOUS
        <2> QED
            BY <2>1, RoundWidens
    <1>3. P[c] = Widened(g, ep, c, allowed, c)
        OBVIOUS
    <1> HIDE DEF P
    <1>4. Goes(r, g, q, ep, ef, 0, allowed, 1 .. c, c)
        BY AllConfined, RoundsAre
    <1> HIDE DEF r
    <1>5. /\ r[0] = First(g, ep, allowed)
          /\ \A i \in 1 .. c : r[i] = Round(g, q, ef, 0, allowed, r[i - 1])
          /\ \A i \in 0 .. c : r[i] \in Beams(g, 1 .. c, allowed)
          /\ SearchLayer(g, q, ep, ef, 0, allowed) = r[c].found
        BY <1>4 DEF Goes
    <1> DEFINE T == {i \in Nat : i <= c => r[i] \in P[i]}
    <1>6. 0 \in T
        BY <1>1, <1>5
    <1>7. ASSUME NEW i \in Nat, i \in T PROVE i + 1 \in T
        <2> SUFFICES ASSUME i + 1 <= c PROVE r[i + 1] \in P[i + 1]
            OBVIOUS
        <2> DEFINE k == i + 1
        <2>1. k \in 1 .. c /\ k - 1 = i /\ r[i] \in P[i]
            BY <1>7
        <2> HIDE DEF k
        <2> QED
            BY <1>2, <1>5, <2>1 DEF k
    <1> HIDE DEF T
    <1>8. c \in T
        BY <1>6, <1>7, Induction
    <1>9. r[c] \in Widened(g, ep, c, allowed, c) /\ c \in 0 .. c
        BY <1>3, <1>8 DEF T
    <1> DEFINE beam == r[c]
    <1>10. /\ beam.visited \in SUBSET (1 .. c) /\ beam.found = Accepted(g, beam.visited, allowed)
           /\ beam.open \subseteq beam.visited /\ ep \in beam.visited
           /\ \A n \in beam.visited \ beam.open : ToSet(Bottom(g, n)) \subseteq beam.visited
           /\ \/ beam.open = {} \/ beam.visited = 1 .. c
              \/ Cardinality(beam.visited \ beam.open) >= c
        BY <1>9 DEF Widened, Beams
    <1> HIDE DEF beam
    <1>11. \A n \in beam.visited : ToSet(Bottom(g, n)) \subseteq beam.visited
        <2>1. CASE beam.open = {}
            BY <1>10, <2>1
        <2>2. CASE beam.visited = 1 .. c
            <3>1. \A n \in 1 .. c : 0 \in 0 .. g.nodes[n].top
                BY GraphIs
            <3> QED
                BY <2>2, <3>1, ListIs DEF Bottom
        <2>3. CASE Cardinality(beam.visited \ beam.open) >= c
            <3>1. beam.visited \ beam.open \in SUBSET (1 .. c)
                BY <1>10
            <3>2. beam.visited \ beam.open = 1 .. c
                BY <2>3, <3>1, Counted
            <3> QED
                BY <1>10, <3>2
        <2> QED
            BY <1>10, <2>1, <2>2, <2>3
    <1> QED
        BY <1>5, <1>9, <1>10, <1>11 DEF beam, r

LEMMA WideSearchFinds ==
    ASSUME NEW c \in Nat, NEW g \in GraphOf(c), AllLive(g, c), Joined(g, c), NEW q \in Points,
           NEW ef \in Nat, ef >= c, NEW allowed, NEW ep \in 1 .. c
    PROVE  SearchLayer(g, q, ep, ef, 0, allowed) = Accepted(g, 1 .. c, allowed)
    <1> DEFINE beam == Rounds(g, q, ep, ef, 0, allowed)[c]
    <1>1. /\ beam \in Beams(g, 1 .. c, allowed)
          /\ SearchLayer(g, q, ep, ef, 0, allowed) = beam.found
          /\ beam.found = Accepted(g, beam.visited, allowed) /\ ep \in beam.visited
          /\ \A n \in beam.visited : ToSet(Bottom(g, n)) \subseteq beam.visited
        BY WideRounds
    <1> HIDE DEF beam
    <1>2. beam.visited = 1 .. c
        BY <1>1 DEF Joined, Beams
    <1> QED
        BY <1>1, <1>2

-----------------------------------------------------------------------------
(* What an insertion finds to connect the new node with.                   *)

LEMMA ExamineFinds ==
    ASSUME NEW c \in Nat, NEW g, NEW V \in SUBSET (1 .. c), NEW q, NEW ef \in Nat \ {0},
           NEW n \in V, NEW beam \in Beams(g, V, Docs), beam.found # {}
    PROVE  Examine(g, q, ef, Docs, beam, n).found # {}
    <1> DEFINE found == beam.found \cup {n}
    <1>1. beam.found \in SUBSET V /\ found \in SUBSET (1 .. c) /\ n \in found
        BY DEF Beams, Accepted
    <1>2. Trimmed(g, q, ef, found) # {}
        <2>1. CASE Cardinality(found) > ef
            <3> DEFINE x == Farthest(g, q, found)
            <3>1. IsFiniteSet(found) /\ Cardinality(found) \in Nat
                BY <1>1, Counted
            <3> HIDE DEF x, found
            <3>4. Cardinality(found \ {x}) \in {Cardinality(found), Cardinality(found) - 1}
                BY <3>1, FS_RemoveElement
            <3>2. Cardinality(found \ {x}) # 0
                BY <2>1, <3>1, <3>4
            <3>3. found \ {x} # {}
                BY <3>2, FS_EmptySet
            <3> QED
                BY <2>1, <3>3 DEF Trimmed, x
        <2>2. CASE ~(Cardinality(found) > ef)
            BY <1>1, <2>2 DEF Trimmed
        <2> QED
            BY <2>1, <2>2
    <1> QED
        BY <1>2 DEF Examine, Beams

LEMMA SearchLayerFinds ==
    ASSUME NEW c \in Nat, NEW g \in GraphOf(c), NEW q \in Points, NEW ef \in Nat \ {0},
           NEW layer \in Nat, NEW V \in SUBSET (1 .. c), Confined(g, layer, V),
           NEW ep \in V, Accepts(g, ep, Docs)
    PROVE  SearchLayer(g, q, ep, ef, layer, Docs) # {}
    <1> DEFINE S == {beam \in Beams(g, V, Docs) : beam.found # {}}
               P == [i \in Nat |-> S]
    <1>1. First(g, ep, Docs) \in P[0]
        <2> DEFINE first == First(g, ep, Docs)
        <2>1. first = [visited |-> {ep}, open |-> {ep}, found |-> {ep}]
            BY DEF First
        <2> HIDE DEF first
        <2>2. first \in Beams(g, V, Docs)
            BY <2>1 DEF Beams, Accepted
        <2>3. first \in S
            BY <2>1, <2>2
        <2> QED
            BY <2>3 DEF first
    <1>2. ASSUME NEW beam \in S
          PROVE  Round(g, q, ef, layer, Docs, beam) \in S
        <2>1. CASE Finished(g, q, ef, beam)
            BY <2>1 DEF Round
        <2>2. CASE ~Finished(g, q, ef, beam)
            <3> DEFINE rest == Rest(g, q, beam)
                       list == Ahead(g, q, layer, beam)
                       new == Expand(g, q, ef, layer, Docs, beam)
                       R == [i \in Nat |-> S]
            <3>1. beam.open # {} /\ beam \in Beams(g, V, Docs) /\ beam.found # {}
                BY <2>2 DEF Finished
            <3>2. rest \in Beams(g, V, Docs)
                BY <3>1, RestIn
            <3>3. rest.found = beam.found
                BY <3>1 DEF Rest, Beams
            <3>4. new \in S
                <4>1. CASE Barren(g, q, layer, beam)
                    BY <3>1, <3>2, <3>3, <4>1, ExpandIs
                <4>2. CASE ~Barren(g, q, layer, beam)
                    <5>1. list \in Seq(V)
                        BY <3>1, <4>2, AheadIn
                    <5>2. new = Expansion(g, q, ef, Docs, rest, list)
                        BY <4>2, ExpandIs
                    <5> HIDE DEF list, rest, new
                    <5>3. rest \in R[0] /\ ExaminesKeep(R, g, q, ef, Docs, V, list)
                        <6>1. \A i \in 1 .. Len(list) : list[i] \in V /\ i \in Nat /\ i - 1 \in Nat
                            BY <5>1
                        <6>2. \A i \in 1 .. Len(list) : \A b \in S :
                                  Examine(g, q, ef, Docs, b, list[i]) \in S
                            <7> SUFFICES ASSUME NEW i \in 1 .. Len(list), NEW b \in S
                                         PROVE  Examine(g, q, ef, Docs, b, list[i]) \in S
                                OBVIOUS
                            <7> DEFINE n == list[i]
                            <7>1. n \in V /\ b \in Beams(g, V, Docs) /\ b.found # {}
                                BY <6>1
                            <7> HIDE DEF n
                            <7>2. /\ Examine(g, q, ef, Docs, b, n) \in Beams(g, V, Docs)
                                  /\ Examine(g, q, ef, Docs, b, n).found # {}
                                BY <7>1, ExamineFinds, ExamineIn
                            <7> QED
                                BY <7>2 DEF n
                        <6>3. rest \in S
                            BY <3>1, <3>2, <3>3
                        <6> HIDE DEF S
                        <6> QED
                            BY <6>1, <6>2, <6>3 DEF ExaminesKeep
                    <5> HIDE DEF R
                    <5>4. new \in R[Len(list)] \cap Beams(g, V, Docs)
                        BY <3>2, <5>1, <5>2, <5>3, ExaminedStays
                    <5> QED
                        BY <5>1, <5>4 DEF R
                <4> QED
                    BY <4>1, <4>2
            <3> QED
                BY <2>2, <3>4 DEF Round
        <2> QED
            BY <2>1, <2>2
    <1> HIDE DEF S
    <1>3. RoundsKeep(P, g, q, ef, layer, Docs, V, c)
        <2>1. \A i \in 1 .. c : i \in Nat /\ i - 1 \in Nat
            OBVIOUS
        <2> QED
            BY <1>2, <2>1 DEF RoundsKeep
    <1>4. P[c] = S
        OBVIOUS
    <1> HIDE DEF P
    <1>5. SearchLayer(g, q, ep, ef, layer, Docs)
              \in {beam.found : beam \in P[c] \cap Beams(g, V, Docs)}
        BY <1>1, <1>3, SearchLayerStays
    <1> QED
        BY <1>4, <1>5 DEF S

LEMMA SelectFinds ==
    ASSUME NEW c \in Nat, NEW g \in GraphOf(c), NEW q \in Points, NEW V \in SUBSET (1 .. c),
           \A n \in V : Resolved(g, n) = n, NEW candidates \in SUBSET V, candidates # {},
           NEW max \in Nat \ {0}
    PROVE  /\ SelectNeighbors(g, q, candidates, max) \in Seq(V)
           /\ Len(SelectNeighbors(g, q, candidates, max)) >= 1
    <1> DEFINE list == Sorted(g, q, candidates)
               few == SelectNeighbors(g, q, candidates, max)
    <1>1. list \in Seq(V) /\ Len(list) \in Nat /\ Len(list) >= 1
        <2>1. candidates \in SUBSET (1 .. c)
            OBVIOUS
        <2>2. list \in Seq(candidates)
            BY <2>1, SortedIn
        <2>3. IsFiniteSet(candidates) /\ Cardinality(candidates) \in Nat
            BY <2>1, Counted
        <2>4. Cardinality(candidates) # 0
            BY <2>3, FS_EmptySet
        <2>5. Len(list) = Cardinality(candidates)
            BY <2>3 DEF Sorted
        <2> HIDE DEF list
        <2>8. \A i \in 1 .. Len(list) : list[i] \in candidates
            BY <2>2
        <2>6. \A i \in 1 .. Len(list) : list[i] \in V
            BY <2>8
        <2>7. list \in Seq(V)
            BY <2>2, <2>6, Retyped
        <2> QED
            BY <2>3, <2>4, <2>5, <2>7
    <1>2. few = Picking(g, q, max, list)
        BY DEF SelectNeighbors, FoldLeft, MapThenFoldSet, IsPicking, Picking, PickOne
    <1>3. Resolves(g, V)
        BY DEF Resolves
    <1>4. few \in Short(V, max)
        BY <1>3, SelectIn
    <1> HIDE DEF list, few
    <1> DEFINE P == [i \in Nat |-> IF i = 0 THEN {<<>>} ELSE {kept \in Short(V, max) : Len(kept) >= 1}]
    <1>5. <<>> \in P[0]
        OBVIOUS
    <1>9. \A i \in 1 .. Len(list) : list[i] \in V /\ list[i] \in 1 .. c
        <2>1. \A i \in 1 .. Len(list) : list[i] \in V
            BY <1>1
        <2> QED
            BY <2>1
    <1>6. PicksKeep(P, g, q, V, max, list)
        <2> SUFFICES ASSUME NEW i \in 1 .. Len(list), NEW kept \in P[i - 1] \cap Short(V, max)
                     PROVE  PickOne(g, q, max, kept, list[i]) \in P[i]
            BY DEF PicksKeep
        <2> DEFINE n == list[i]
                   more == PickOne(g, q, max, kept, n)
        <2>0. /\ i = 1 => kept = <<>>
              /\ i # 1 => Len(kept) >= 1
              /\ P[i] = {k \in Short(V, max) : Len(k) >= 1}
            OBVIOUS
        <2> HIDE DEF P
        <2>1. n \in V /\ n \in 1 .. c
            BY <1>9
        <2> HIDE DEF n
        <2>6. Resolved(g, n) = n /\ n # NoNode
            BY <2>1 DEF NoNode
        <2>2. kept \in Short(V, max) /\ more \in Short(V, max)
            BY <1>3, <2>1, PickIn
        <2>7. kept \in Seq(V) /\ Len(kept) \in Nat
            BY <2>2 DEF Short
        <2>3. more = kept \/ more = Append(kept, n)
            BY <2>6 DEF PickOne
        <2>4. kept = <<>> => more = Append(kept, n)
            <3>1. ~(Len(<<>>) >= max) /\ DOMAIN <<>> = {}
                OBVIOUS
            <3>2. kept = <<>> => ~(Len(kept) >= max) /\ DOMAIN kept = {}
                BY <3>1
            <3> QED
                BY <2>6, <3>2 DEF PickOne
        <2> HIDE DEF more
        <2>8. Len(Append(kept, n)) = Len(kept) + 1
            BY <2>1, <2>7
        <2>9. Len(more) >= 1
            BY <2>0, <2>3, <2>4, <2>7, <2>8
        <2> QED
            BY <2>0, <2>2, <2>9 DEF more, n
    <1> HIDE DEF P
    <1>7. few \in P[Len(list)] \cap Short(V, max)
        BY <1>1, <1>2, <1>3, <1>5, <1>6, PickedStays
    <1>8. Len(few) >= 1
        BY <1>1, <1>7 DEF P
    <1> QED
        BY <1>4, <1>8 DEF Short, few

-----------------------------------------------------------------------------
(* What connecting makes of layer 0, as long as all nodes fit in one list. *)

\* A list of n without repetitions and without n.
Plain(list, n) ==
    /\ \A i \in 1 .. Len(list) : list[i] # n
    /\ \A i, j \in 1 .. Len(list) : list[i] = list[j] => i = j

Simple(g, c) == \A n \in 1 .. c : Plain(Bottom(g, n), n)

LEMMA PlainIsShort ==
    ASSUME NEW c \in Nat, NEW n \in 1 .. c, NEW list \in Seq(1 .. c), Plain(list, n)
    PROVE  Len(list) <= c - 1
    <1> DEFINE A == 1 .. Len(list)
               B == (1 .. c) \ {n}
    <1>1. IsFiniteSet(A) /\ Cardinality(A) = Len(list) /\ Len(list) \in Nat
        <2> DEFINE k == Len(list)
        <2>1. k \in Nat
            OBVIOUS
        <2> HIDE DEF k
        <2>2. IsFiniteSet(1 .. k) /\ Cardinality(1 .. k) = k
            BY <2>1, FS_Interval
        <2> QED
            BY <2>1, <2>2 DEF k
    <1>2. IsFiniteSet(B) /\ Cardinality(B) = c - 1
        <2>1. IsFiniteSet(1 .. c) /\ Cardinality(1 .. c) = c
            BY FS_Interval
        <2> QED
            BY <2>1, FS_RemoveElement
    <1>3. list \in [A -> B]
        <2>1. list \in [A -> 1 .. c] /\ \A i \in A : list[i] # n
            BY DEF Plain
        <2> QED
            BY <2>1
    <1>4. ~ \E i, j \in A : i # j /\ list[i] = list[j]
        BY DEF Plain
    <1> HIDE DEF A, B
    <1>5. ~(Cardinality(B) < Cardinality(A))
        BY <1>1, <1>2, <1>3, <1>4, FS_PigeonHole
    <1> QED
        BY <1>1, <1>2, <1>5

Plus(list, m) == IF Contains(list, m) THEN list ELSE Append(list, m)

LEMMA PlusIs ==
    ASSUME NEW A, NEW list \in Seq(A), NEW m \in A
    PROVE  /\ Plus(list, m) \in Seq(A)
           /\ ToSet(list) \subseteq ToSet(Plus(list, m)) /\ m \in ToSet(Plus(list, m))
           /\ \A n : Plain(list, n) /\ m # n => Plain(Plus(list, m), n)
    <1>1. CASE Contains(list, m)
        <2>1. Plus(list, m) = list
            BY <1>1 DEF Plus
        <2>2. m \in ToSet(list)
            BY <1>1 DEF Contains, ToSet
        <2> QED
            BY <2>1, <2>2
    <1>2. CASE ~Contains(list, m)
        <2> DEFINE more == Append(list, m)
                   k == Len(list)
        <2>1. Plus(list, m) = more
            BY <1>2 DEF Plus
        <2>2. \A i \in 1 .. k : list[i] # m
            BY <1>2 DEF Contains
        <2>3. /\ more \in Seq(A) /\ Len(more) = k + 1 /\ k \in Nat
              /\ more[k + 1] = m /\ \A i \in 1 .. k : more[i] = list[i]
            OBVIOUS
        <2> HIDE DEF more
        <2>4. ToSet(list) \subseteq ToSet(more) /\ m \in ToSet(more)
            <3>1. ToSet(list) = {list[i] : i \in 1 .. k} /\ ToSet(more) = {more[i] : i \in 1 .. k + 1}
                BY <2>3 DEF ToSet
            <3> HIDE DEF k
            <3> QED
                BY <2>3, <3>1
        <2> HIDE DEF k
        <2>5. ASSUME NEW n, Plain(list, n), m # n
              PROVE  Plain(more, n)
            <3>1. \A i \in 1 .. k + 1 : i \in 1 .. k \/ i = k + 1
                BY <2>3
            <3>2. /\ \A i \in 1 .. k : list[i] # n
                  /\ \A i, j \in 1 .. k : list[i] = list[j] => i = j
                BY <2>5 DEF Plain, k
            <3>3. /\ \A i \in 1 .. k + 1 : more[i] # n
                  /\ \A i, j \in 1 .. k + 1 : more[i] = more[j] => i = j
                BY <2>2, <2>3, <2>5, <3>1, <3>2 DEF k
            <3> QED
                BY <2>3, <3>3 DEF Plain
        <2> QED
            BY <2>1, <2>3, <2>4, <2>5
    <1> QED
        BY <1>1, <1>2

LEMMA WithNeighborIs ==
    ASSUME NEW c \in Nat, NEW g \in GraphOf(c), NEW V, Tower(g, c, V),
           NEW h \in Kin(g, c, V), NEW n \in 1 .. c, NEW l \in 0 .. g.nodes[n].top,
           NEW m \in V[l]
    PROVE  WithNeighbor(h, n, m, l).nodes[n].neighbors[l] = Plus(h.nodes[n].neighbors[l], m)
    <1> DEFINE list == h.nodes[n].neighbors[l]
    <1>1. CASE Contains(list, m)
        BY <1>1 DEF WithNeighbor, Plus
    <1>2. CASE ~Contains(list, m)
        <2>1. list \in Seq(V[l])
            BY ListIn
        <2> DEFINE more == Append(list, m)
        <2>2. more \in Seq(V[l])
            BY <2>1, Appended
        <2>3. WithNeighbor(h, n, m, l) = SetList(h, n, l, more) /\ Plus(list, m) = more
            BY <1>2 DEF WithNeighbor, SetList, Plus
        <2> HIDE DEF list, more
        <2>4. SetList(h, n, l, more).nodes[n].neighbors[l] = more
            BY <2>2, SetListKin
        <2> QED
            BY <2>3, <2>4 DEF list
    <1> QED
        BY <1>1, <1>2

\* Connecting in one layer leaves the others alone.
LEMMA ConnectElsewhere ==
    ASSUME NEW c \in Nat, NEW g \in GraphOf(c), NEW V, Tower(g, c, V),
           NEW h \in Good(g, c, V), NEW a \in 1 .. c, NEW l \in 0 .. g.nodes[a].top,
           a \in V[l], NEW b \in V[l], NEW m \in 1 .. c, NEW k \in 0 .. g.nodes[m].top, k # l
    PROVE  Connect(h, a, b, l, Capacity(l)).nodes[m].neighbors[k] = h.nodes[m].neighbors[k]
    <1> DEFINE max == Capacity(l)
    <1>1. h \in Kin(g, c, V) /\ Frame(g, h, c) /\ k \in 0 .. h.nodes[m].top
        BY DEF Good, Kin, Frame
    <1>2. l \in Nat /\ b \in 1 .. c /\ max \in Nat
        BY CapacityIsNat DEF Tower
    <1>3. CASE h.wild \/ l > h.nodes[b].top
        <2>1. Connect(h, a, b, l, max) = [h EXCEPT !.wild = TRUE]
            BY <1>3 DEF Connect
        <2>2. h \in GraphOf(c)
            BY <1>1 DEF Kin
        <2> QED
            BY <2>1, <2>2 DEF GraphOf
    <1>4. CASE ~(h.wild \/ l > h.nodes[b].top)
        <2> DEFINE one    == WithNeighbor(h, a, b, l)
                   joined == WithNeighbor(one, b, a, l)
                   left   == Pruned(joined, a, l, max)
                   r      == Pruned(left, b, l, max)
        <2>1. Connect(h, a, b, l, max) = r
            BY <1>4 DEF Connect
        <2>2. l \in 0 .. g.nodes[b].top
            <3>1. g.nodes[b].top = h.nodes[b].top /\ g.nodes[b].top \in Nat
                BY <1>1, <1>2, GraphIs DEF Frame
            <3> QED
                BY <1>2, <1>4, <3>1
        <2>3. one \in Kin(g, c, V) /\ SameBut(h, one, c, a, l)
            BY <1>1, WithNeighborKin
        <2> HIDE DEF one
        <2>4. joined \in Kin(g, c, V) /\ SameBut(one, joined, c, b, l)
            BY <1>2, <2>2, <2>3, WithNeighborKin
        <2> HIDE DEF joined, max
        <2>5. left \in Kin(g, c, V) /\ SameBut(joined, left, c, a, l)
            BY <1>2, <2>4, PrunedKin
        <2> HIDE DEF left
        <2>6. r \in Kin(g, c, V) /\ SameBut(left, r, c, b, l)
            BY <1>2, <2>2, <2>5, PrunedKin
        <2> HIDE DEF r
        <2>7. /\ k \in 0 .. left.nodes[m].top /\ k \in 0 .. joined.nodes[m].top
              /\ k \in 0 .. one.nodes[m].top
            <3>1. Frame(g, left, c) /\ Frame(g, joined, c) /\ Frame(g, one, c)
                BY <2>3, <2>4, <2>5 DEF Kin
            <3> QED
                BY <3>1 DEF Frame
        <2>8. /\ one.nodes[m].neighbors[k] = h.nodes[m].neighbors[k]
              /\ joined.nodes[m].neighbors[k] = one.nodes[m].neighbors[k]
              /\ left.nodes[m].neighbors[k] = joined.nodes[m].neighbors[k]
              /\ r.nodes[m].neighbors[k] = left.nodes[m].neighbors[k]
            BY <1>1, <2>3, <2>4, <2>5, <2>6, <2>7 DEF SameBut
        <2> QED
            BY <2>1, <2>8 DEF max
    <1> QED
        BY <1>3, <1>4

\* Nodes a and b have each other in layer 0.
Mutual(g, a, b) == b \in ToSet(Bottom(g, a)) /\ a \in ToSet(Bottom(g, b))

Grows(g, h, c) == \A n \in 1 .. c : ToSet(Bottom(g, n)) \subseteq ToSet(Bottom(h, n))

LEMMA ConnectTies ==
    ASSUME NEW c \in Nat, c <= M0 + 1, NEW g \in GraphOf(c), NEW V, Tower(g, c, V),
           V[0] = 1 .. c, NEW h \in Good(g, c, V), ~h.wild, Simple(h, c),
           NEW a \in 1 .. c, NEW b \in 1 .. c, a # b
    PROVE  LET r == Connect(h, a, b, 0, Capacity(0))
           IN  ~r.wild /\ Simple(r, c) /\ Grows(h, r, c) /\ Mutual(r, a, b)
    <1> DEFINE max == Capacity(0)
               one == WithNeighbor(h, a, b, 0)
               joined == WithNeighbor(one, b, a, 0)
    <1>1. h \in Kin(g, c, V)
        BY DEF Good
    <1>2. a \in V[0] /\ b \in V[0] /\ max = M0 /\ 0 \in Nat /\ M0 \in Nat
        BY CapacityIsNat DEF Capacity
    <1>3. \A n \in 1 .. c : 0 \in 0 .. g.nodes[n].top
        <2>1. \A n \in 1 .. c : g.nodes[n].top \in Nat
            BY GraphIs
        <2> QED
            BY <2>1
    <1>4. ~(h.wild \/ 0 > h.nodes[b].top)
        <2>1. h.nodes[b].top = g.nodes[b].top /\ g.nodes[b].top \in Nat
            BY <1>1, GraphIs DEF Kin, Frame
        <2> QED
            BY <2>1
    <1>5. Connect(h, a, b, 0, max) = Pruned(Pruned(joined, a, 0, max), b, 0, max)
        BY <1>4 DEF Connect
    <1>6. \A n \in 1 .. c : Bottom(h, n) \in Seq(1 .. c)
        BY <1>1, <1>3, ListIn DEF Bottom
    <1>7. /\ one \in Kin(g, c, V) /\ SameBut(h, one, c, a, 0) /\ one.wild = h.wild
          /\ Bottom(one, a) = Plus(Bottom(h, a), b)
        BY <1>1, <1>2, <1>3, WithNeighborKin, WithNeighborIs DEF Bottom
    <1> HIDE DEF one
    <1>8. /\ joined \in Kin(g, c, V) /\ SameBut(one, joined, c, b, 0) /\ joined.wild = one.wild
          /\ Bottom(joined, b) = Plus(Bottom(one, b), a)
        BY <1>2, <1>3, <1>7, WithNeighborKin, WithNeighborIs DEF Bottom
    <1> HIDE DEF joined
    <1>9. \A n \in 1 .. c : 0 \in 0 .. h.nodes[n].top /\ 0 \in 0 .. one.nodes[n].top
        BY <1>1, <1>3, <1>7 DEF Kin, Frame
    <1>10. \A n \in 1 .. c : n # a => Bottom(one, n) = Bottom(h, n)
        BY <1>7, <1>9 DEF SameBut, Bottom
    <1>11. \A n \in 1 .. c : n # b => Bottom(joined, n) = Bottom(one, n)
        BY <1>8, <1>9 DEF SameBut, Bottom
    <1>12. Bottom(joined, a) = Plus(Bottom(h, a), b) /\ Bottom(joined, b) = Plus(Bottom(h, b), a)
        BY <1>7, <1>8, <1>10, <1>11
    <1>13. \A n \in 1 .. c : n # a /\ n # b => Bottom(joined, n) = Bottom(h, n)
        BY <1>10, <1>11
    <1>17. /\ Plain(Bottom(h, a), a) /\ Plain(Bottom(h, b), b)
           /\ Bottom(h, a) \in Seq(1 .. c) /\ Bottom(h, b) \in Seq(1 .. c)
        BY <1>6 DEF Simple
    <1>14. Simple(joined, c) /\ Grows(h, joined, c) /\ Mutual(joined, a, b)
        <2> DEFINE U == 1 .. c
                   la == Bottom(h, a)
                   lb == Bottom(h, b)
        <2>1. la \in Seq(U) /\ lb \in Seq(U) /\ a \in U /\ b \in U /\ Plain(la, a) /\ Plain(lb, b)
            BY <1>17
        <2> HIDE DEF U, la, lb
        <2>2. /\ ToSet(la) \subseteq ToSet(Plus(la, b)) /\ b \in ToSet(Plus(la, b))
              /\ Plain(Plus(la, b), a)
            <3>1. /\ ToSet(la) \subseteq ToSet(Plus(la, b)) /\ b \in ToSet(Plus(la, b))
                  /\ \A n : Plain(la, n) /\ b # n => Plain(Plus(la, b), n)
                BY <2>1, PlusIs, Zenon
            <3> QED
                BY <2>1, <3>1
        <2>3. /\ ToSet(lb) \subseteq ToSet(Plus(lb, a)) /\ a \in ToSet(Plus(lb, a))
              /\ Plain(Plus(lb, a), b)
            <3>1. /\ ToSet(lb) \subseteq ToSet(Plus(lb, a)) /\ a \in ToSet(Plus(lb, a))
                  /\ \A n : Plain(lb, n) /\ a # n => Plain(Plus(lb, a), n)
                BY <2>1, PlusIs, Zenon
            <3> QED
                BY <2>1, <3>1
        <2>4. Bottom(joined, a) = Plus(la, b) /\ Bottom(joined, b) = Plus(lb, a)
            BY <1>12 DEF la, lb
        <2>5. \A n \in 1 .. c : Plain(Bottom(joined, n), n)
            <3> SUFFICES ASSUME NEW n \in 1 .. c PROVE Plain(Bottom(joined, n), n)
                OBVIOUS
            <3>1. n # a /\ n # b => Plain(Bottom(joined, n), n)
                BY <1>13 DEF Simple
            <3> QED
                BY <2>2, <2>3, <2>4, <3>1
        <2>6. \A n \in 1 .. c : ToSet(Bottom(h, n)) \subseteq ToSet(Bottom(joined, n))
            <3> SUFFICES ASSUME NEW n \in 1 .. c
                         PROVE  ToSet(Bottom(h, n)) \subseteq ToSet(Bottom(joined, n))
                OBVIOUS
            <3>1. n # a /\ n # b => Bottom(joined, n) = Bottom(h, n)
                BY <1>13
            <3>2. Bottom(h, a) = la /\ Bottom(h, b) = lb
                BY DEF la, lb
            <3> QED
                BY <2>2, <2>3, <2>4, <3>1, <3>2
        <2> QED
            BY <2>2, <2>3, <2>4, <2>5, <2>6 DEF Simple, Grows, Mutual
    <1>15. ASSUME NEW n \in 1 .. c
           PROVE  Pruned(joined, n, 0, max) = joined
        <2> DEFINE list == Bottom(joined, n)
        <2>1. list \in Seq(1 .. c)
            <3>1. joined.nodes[n].neighbors[0] \in Seq(V[0])
                BY <1>3, <1>8, ListIn
            <3> QED
                BY <3>1 DEF Bottom
        <2>2. Plain(list, n)
            BY <1>14 DEF Simple
        <2> HIDE DEF list
        <2>3. Len(list) <= c - 1
            BY <2>1, <2>2, PlainIsShort
        <2>4. Len(list) <= max
            BY <1>2, <2>1, <2>3
        <2> QED
            BY <2>4 DEF Pruned, list, Bottom
    <1>16. Connect(h, a, b, 0, max) = joined
        BY <1>5, <1>15
    <1> QED
        BY <1>7, <1>8, <1>14, <1>16

-----------------------------------------------------------------------------
(* Linking a new node, c + 1, to the c others.  h is the graph with the    *)
(* new node in it and nothing connected yet.                               *)

Prepared(h, c) ==
    /\ h \in GraphOf(c + 1) /\ Bounded(h, c + 1) /\ ~h.wild /\ c <= M0
    /\ AllLive(h, c + 1) /\ Simple(h, c + 1)
    /\ LinksIn(h, c + 1, Reach(h, c + 1))
    /\ \A n \in 1 .. c + 1 : \A l \in 0 .. h.nodes[n].top :
           ToSet(h.nodes[n].neighbors[l]) \subseteq 1 .. c

\* What k, into which h was made, has to be like in the end.
Tied(h, k, c) ==
    /\ Simple(k, c + 1) /\ Grows(h, k, c + 1)
    /\ \E b \in 1 .. c : Mutual(k, c + 1, b)

LEMMA ReadyIs ==
    ASSUME NEW c \in Nat, NEW h, Prepared(h, c)
    PROVE  /\ h \in GraphOf(c + 1) /\ c + 1 \in Nat /\ c + 1 \in 1 .. c + 1
           /\ Tower(h, c + 1, Reach(h, c + 1)) /\ Strict(h, Reach(h, c + 1))
           /\ Reach(h, c + 1)[0] = 1 .. c + 1
           /\ \A l \in 0 .. h.nodes[c + 1].top : l \in Nat /\ c + 1 \in Reach(h, c + 1)[l]
           /\ \A n \in 1 .. c + 1 : 0 \in 0 .. h.nodes[n].top
    <1>1. h \in GraphOf(c + 1) /\ c + 1 \in Nat /\ SelfResolving(h, c + 1)
        BY DEF Prepared, AllLive, SelfResolving
    <1>2. \A n \in 1 .. c + 1 : h.nodes[n].top \in Nat
        BY <1>1, GraphIs
    <1> QED
        BY <1>1, <1>2, ReachIsTower DEF Reach

LEMMA JoinElsewhere ==
    ASSUME NEW c \in Nat, NEW g \in GraphOf(c), NEW V, Tower(g, c, V),
           NEW h \in Good(g, c, V), NEW a \in 1 .. c, NEW l \in 0 .. g.nodes[a].top,
           a \in V[l], NEW list \in Seq(V[l])
    PROVE  \A m \in 1 .. c : \A k \in 0 .. g.nodes[m].top : k # l =>
               Joining(h, a, l, list).nodes[m].neighbors[k] = h.nodes[m].neighbors[k]
    <1> DEFINE Same(x) == \A m \in 1 .. c : \A k \in 0 .. g.nodes[m].top : k # l =>
                   x.nodes[m].neighbors[k] = h.nodes[m].neighbors[k]
               S == {x \in Good(g, c, V) : Same(x)}
               P == [i \in Nat |-> S]
               R == V[l]
    <1>1. \A i \in 1 .. Len(list) : list[i] \in V[l] /\ i \in Nat /\ i - 1 \in Nat
        OBVIOUS
    <1>2. ASSUME NEW x \in S, NEW b \in V[l]
          PROVE  Connect(x, a, b, l, Capacity(l)) \in S
        <2> DEFINE r == Connect(x, a, b, l, Capacity(l))
        <2>1. r \in Good(g, c, V)
            BY ConnectGood
        <2>2. \A m \in 1 .. c : \A k \in 0 .. g.nodes[m].top : k # l =>
                  r.nodes[m].neighbors[k] = x.nodes[m].neighbors[k]
            BY ConnectElsewhere
        <2> HIDE DEF r
        <2>3. Same(r)
            BY <2>2
        <2> HIDE DEF Same
        <2>4. r \in S
            BY <2>1, <2>3
        <2> QED
            BY <2>4 DEF r
    <1>3. h \in S
        OBVIOUS
    <1> HIDE DEF S
    <1>4. h \in P[0] /\ JoinsKeep(P, g, c, V, a, l, list)
        BY <1>1, <1>2, <1>3 DEF JoinsKeep
    <1>5. P[Len(list)] = S
        OBVIOUS
    <1> HIDE DEF P, R
    <1>6. R = V[l] /\ list \in Seq(R)
        BY DEF R
    <1>7. Joining(h, a, l, list) \in P[Len(list)] \cap Good(g, c, V)
        BY <1>4, <1>6, JoinedStays
    <1> QED
        BY <1>5, <1>7 DEF S

LEMMA JoinTies ==
    ASSUME NEW c \in Nat, NEW h, Prepared(h, c), NEW k \in Good(h, c + 1, Reach(h, c + 1)),
           Simple(k, c + 1), Grows(h, k, c + 1), NEW list \in Seq(1 .. c), Len(list) >= 1
    PROVE  Tied(h, Joining(k, c + 1, 0, list), c)
    <1> DEFINE new == c + 1
               V == Reach(h, new)
               S == Good(h, new, V)
               On(x) == Simple(x, new) /\ Grows(h, x, new)
               P == [i \in Nat |-> {x \in S : On(x) /\ (i >= 1 => \E b \in 1 .. c : Mutual(x, new, b))}]
    <1>1. /\ h \in GraphOf(new) /\ new \in Nat /\ new \in 1 .. new
          /\ Tower(h, new, V) /\ Strict(h, V) /\ V[0] = 1 .. new
          /\ 0 \in 0 .. h.nodes[new].top /\ ~h.wild /\ new <= M0 + 1
        <2>1. M0 \in Nat /\ c <= M0 /\ ~h.wild
            BY GraphAssumption DEF Prepared, M0
        <2> QED
            BY <2>1, ReadyIs
    <1>2. \A i \in 1 .. Len(list) : list[i] \in 1 .. c /\ i \in Nat /\ i - 1 \in Nat
        OBVIOUS
    <1>3. ASSUME NEW x \in S, On(x), NEW b \in 1 .. c
          PROVE  /\ Connect(x, new, b, 0, Capacity(0)) \in S
                 /\ On(Connect(x, new, b, 0, Capacity(0)))
                 /\ Mutual(Connect(x, new, b, 0, Capacity(0)), new, b)
        <2> DEFINE r == Connect(x, new, b, 0, Capacity(0))
        <2>1. b \in 1 .. new /\ b # new
            OBVIOUS
        <2>2. ~x.wild
            BY <1>1 DEF Good
        <2> HIDE DEF new, V
        <2>3. r \in S
            BY <1>1, <2>1, ConnectGood
        <2>4. Simple(r, new) /\ Grows(x, r, new) /\ Mutual(r, new, b)
            BY <1>1, <1>3, <2>1, <2>2, ConnectTies
        <2> HIDE DEF r
        <2>5. Grows(h, r, new)
            BY <1>3, <2>4 DEF Grows
        <2> QED
            BY <2>3, <2>4, <2>5 DEF r
    <1> HIDE DEF On, S, V, new
    <1>4. k \in P[0]
        BY DEF On, S, V, new
    <1>5. JoinsKeep(P, h, new, V, new, 0, list)
        <2> SUFFICES ASSUME NEW i \in 1 .. Len(list), NEW x \in P[i - 1]
                     PROVE  Connect(x, new, list[i], 0, Capacity(0)) \in P[i]
            BY DEF JoinsKeep
        <2> DEFINE b == list[i]
                   r == Connect(x, new, b, 0, Capacity(0))
        <2>1. x \in S /\ On(x) /\ b \in 1 .. c /\ i \in Nat
            BY <1>2
        <2> HIDE DEF b
        <2>2. r \in S /\ On(r) /\ Mutual(r, new, b)
            BY <1>3, <2>1
        <2> HIDE DEF r
        <2>3. r \in P[i]
            BY <2>1, <2>2
        <2> QED
            BY <2>3 DEF r, b
    <1>6. Len(list) \in Nat /\ P[Len(list)] =
              {x \in S : On(x) /\ (Len(list) >= 1 => \E b \in 1 .. c : Mutual(x, new, b))}
        OBVIOUS
    <1> HIDE DEF P
    <1> DEFINE R == 1 .. new
    <1>7. R = V[0] /\ list \in Seq(R)
        <2>1. \A i \in 1 .. Len(list) : list[i] \in R
            BY <1>2 DEF new
        <2>2. list \in Seq(R)
            BY <2>1, Retyped
        <2> QED
            BY <1>1, <2>2
    <1>8. new \in V[0] /\ k \in Good(h, new, V)
        BY <1>1 DEF new, V
    <1> HIDE DEF R
    <1>9. Joining(k, new, 0, list) \in P[Len(list)] \cap Good(h, new, V)
        BY <1>1, <1>4, <1>5, <1>7, <1>8, JoinedStays
    <1> QED
        BY <1>6, <1>9 DEF Tied, On, new

\* What has been built when the layers from m on are done: those below are as they
\* were, and the descent is at a node that was there before.
Assembled(h, c, high, m) ==
    {b \in [graph : Good(h, c + 1, Reach(h, c + 1)), ep : Reach(h, c + 1)[Lesser(m, high)]] :
        /\ b.ep \in 1 .. c
        /\ \A n \in 1 .. c + 1 : \A k \in 0 .. h.nodes[n].top : k < m =>
               b.graph.nodes[n].neighbors[k] = h.nodes[n].neighbors[k]
        /\ m = 0 => Tied(h, b.graph, c)}

LEMMA FollowOld ==
    ASSUME NEW c \in Nat, NEW g \in GraphOf(c), NEW q \in Points, NEW V \in SUBSET (1 .. c),
           Resolves(g, V), NEW ep \in V, NEW found \in SUBSET V
    PROVE  Follow(g, q, ep, found) \in V
    <1>1. CASE found = {} \/ Resolved(g, Nearest(g, q, found)) = NoNode
        BY <1>1 DEF Follow
    <1>2. CASE ~(found = {} \/ Resolved(g, Nearest(g, q, found)) = NoNode)
        <2>1. Nearest(g, q, found) \in V
            BY <1>2, NearestIn
        <2> QED
            BY <1>2, <2>1 DEF Follow, Resolves
    <1> QED
        BY <1>1, <1>2

\* The search of a layer that has not been linked yet: it finds nodes that were there
\* before, and some are chosen.
LEMMA OldFound ==
    ASSUME NEW c \in Nat, NEW h, Prepared(h, c), NEW k \in GraphOf(c + 1), Frame(h, k, c + 1),
           NEW l \in Nat, NEW ep \in 1 .. c,
           \A n \in 1 .. c + 1 : l <= h.nodes[n].top =>
               k.nodes[n].neighbors[l] = h.nodes[n].neighbors[l]
    PROVE  /\ FewFrom(k, c + 1, ep, l) \in Seq(1 .. c) /\ Len(FewFrom(k, c + 1, ep, l)) >= 1
           /\ NextFrom(k, c + 1, ep, l) \in 1 .. c
    <1> DEFINE new == c + 1
               V == 1 .. c
               q == k.nodes[new].at
               found == FoundFrom(k, new, ep, l)
               few == FewFrom(k, new, ep, l)
               next == NextFrom(k, new, ep, l)
    <1>1. /\ new \in Nat /\ new \in 1 .. new /\ V \in SUBSET (1 .. new) /\ ep \in V
          /\ k \in GraphOf(new)
        OBVIOUS
    <1>2. q \in Points
        BY <1>1, GraphIs
    <1>3. \A n \in V : Resolved(k, n) = n
        <2> SUFFICES ASSUME NEW n \in V PROVE Resolved(k, n) = n
            OBVIOUS
        <2>1. n \in 1 .. new /\ Resolved(h, n) = n /\ Frame(h, k, new)
            BY DEF Prepared, AllLive
        <2> HIDE DEF new, V
        <2>2. Resolved(k, n) = Resolved(h, n)
            BY <1>1, <2>1, FrameResolves
        <2> QED
            BY <2>1, <2>2
    <1>4. Confined(k, l, V)
        <2> SUFFICES ASSUME NEW n \in V, l <= k.nodes[n].top
                     PROVE  ToSet(k.nodes[n].neighbors[l]) \subseteq V
            BY <1>3 DEF Confined
        <2>1. n \in 1 .. new /\ k.nodes[n].top = h.nodes[n].top /\ k.nodes[n].top \in Nat
            BY <1>1, GraphIs DEF Frame
        <2>2. l \in 0 .. h.nodes[n].top
            BY <2>1
        <2>3. ToSet(h.nodes[n].neighbors[l]) \subseteq V
            BY <2>1, <2>2 DEF Prepared
        <2>4. k.nodes[n].neighbors[l] = h.nodes[n].neighbors[l]
            BY <2>1, <2>2
        <2> QED
            BY <2>3, <2>4
    <1>5. Accepts(k, ep, Docs)
        <2>1. ep \in 1 .. new
            BY <1>1
        <2>2. ~h.nodes[ep].deleted
            BY <2>1 DEF Prepared, AllLive
        <2>3. k.nodes[ep].doc \in Docs
            BY <1>1, <2>1, GraphIs
        <2> QED
            BY <2>1, <2>2, <2>3 DEF Accepts, Frame
    <1>6. /\ EfConstruction \in Nat \ {0}
          /\ Capacity(l) \in Nat \ {0}
        BY GraphAssumption DEF Capacity, M0
    <1>7. /\ found = SearchLayer(k, q, ep, EfConstruction, l, Docs)
          /\ few = SelectNeighbors(k, q, found, Capacity(l)) /\ next = Follow(k, q, ep, found)
        BY DEF FoundFrom, FewFrom, NextFrom
    <1> HIDE DEF V, new, q, found, few, next
    <1>8. found \in SUBSET V
        <2>1. found \in SUBSET Accepted(k, V, Docs)
            BY <1>1, <1>2, <1>4, <1>7, SearchLayerIn
        <2> QED
            BY <2>1 DEF Accepted
    <1>9. found # {}
        BY <1>1, <1>2, <1>4, <1>5, <1>6, <1>7, SearchLayerFinds
    <1>10. few \in Seq(V) /\ Len(few) >= 1
        BY <1>1, <1>2, <1>3, <1>6, <1>7, <1>8, <1>9, SelectFinds
    <1>11. next \in V
        <2>1. Resolves(k, V)
            BY <1>3 DEF Resolves
        <2> QED
            BY <1>1, <1>2, <1>7, <1>8, <2>1, FollowOld
    <1> QED
        BY <1>10, <1>11 DEF V, few, next, new

LEMMA LayerBuilt ==
    ASSUME NEW c \in Nat, NEW h, Prepared(h, c), NEW high \in Nat, high <= h.nodes[c + 1].top,
           NEW l \in 0 .. high, NEW b \in Assembled(h, c, high, l + 1)
    PROVE  LinkLayer(b, c + 1, l) \in Assembled(h, c, high, l)
    <1> DEFINE new == c + 1
               V == Reach(h, new)
               k == b.graph
               e == b.ep
               few == FewFrom(k, new, e, l)
               next == NextFrom(k, new, e, l)
               joined == Joining(k, new, l, few)
               r == LinkLayer(b, new, l)
    <1>1. /\ k \in Good(h, new, V) /\ e \in V[Lesser(l + 1, high)] /\ e \in 1 .. c
          /\ \A n \in 1 .. new : \A i \in 0 .. h.nodes[n].top : i < l + 1 =>
                 k.nodes[n].neighbors[i] = h.nodes[n].neighbors[i]
        BY DEF Assembled
    <1>2. /\ h \in GraphOf(new) /\ new \in Nat /\ new \in 1 .. new
          /\ Tower(h, new, V) /\ V[0] = 1 .. new
          /\ l \in Nat /\ l <= high /\ l \in 0 .. h.nodes[new].top /\ new \in V[l]
        <2>1. h.nodes[new].top \in Nat
            BY ReadyIs, GraphIs
        <2>2. l \in Nat /\ l <= high /\ l \in 0 .. h.nodes[new].top
            BY <2>1
        <2> QED
            BY <2>2, ReadyIs
    <1>3. e \in V[l] /\ Lesser(l, high) = l
        <2>1. CASE l = high
            BY <1>1, <1>2, <2>1 DEF Lesser
        <2>2. CASE l # high
            <3>1. Lesser(l + 1, high) = l + 1 /\ Lesser(l, high) = l
                BY <1>2, <2>2 DEF Lesser
            <3>2. V[l + 1] \subseteq V[l]
                BY <1>2 DEF Tower
            <3> QED
                BY <1>1, <3>1, <3>2
        <2> QED
            BY <2>1, <2>2
    <1>4. k \in GraphOf(new) /\ Frame(h, k, new)
        BY <1>1 DEF Good, Kin
    <1>5. \A n \in 1 .. new : l <= h.nodes[n].top =>
              k.nodes[n].neighbors[l] = h.nodes[n].neighbors[l]
        <2>1. \A n \in 1 .. new : h.nodes[n].top \in Nat
            BY <1>2, GraphIs
        <2>2. \A n \in 1 .. new : l <= h.nodes[n].top => l \in 0 .. h.nodes[n].top
            BY <1>2, <2>1
        <2>3. l < l + 1
            BY <1>2
        <2> HIDE DEF k, new
        <2> QED
            BY <1>1, <2>2, <2>3
    <1>6. few \in Seq(1 .. c) /\ Len(few) >= 1 /\ next \in 1 .. c
        BY <1>1, <1>2, <1>4, <1>5, OldFound
    <1>7. few \in Seq(V[l]) /\ r = [graph |-> joined, ep |-> next]
        <2> HIDE DEF V, new, few, next, k, e
        <2>1. b.graph = k /\ b.ep = e
            BY DEF k, e
        <2>2. /\ FewFrom(k, new, e, l) \in Seq(V[l])
              /\ LinkLayer(b, new, l) = [graph |-> Joining(k, new, l, FewFrom(k, new, e, l)),
                                         ep    |-> NextFrom(k, new, e, l)]
            BY <1>1, <1>2, <1>3, <2>1, LinkLayerIs
        <2> QED
            BY <2>2 DEF few, next
    <1>8. r \in [graph : Good(h, new, V), ep : V[l]]
        <2> HIDE DEF V, new, few, next, k, e
        <2>1. b.graph = k /\ b.ep = e
            BY DEF k, e
        <2> QED
            BY <1>1, <1>2, <1>3, <2>1, LinkLayerGood
    <1> HIDE DEF few, next, V, new, k, e
    <1>9. \A n \in 1 .. new : \A i \in 0 .. h.nodes[n].top : i < l =>
              joined.nodes[n].neighbors[i] = h.nodes[n].neighbors[i]
        <2>1. \A n \in 1 .. new : \A i \in 0 .. h.nodes[n].top : i # l =>
                  joined.nodes[n].neighbors[i] = k.nodes[n].neighbors[i]
            <3>1. few \in Seq(V[l])
                BY <1>7
            <3> DEFINE x == Joining(k, new, l, few)
            <3>2. \A n \in 1 .. new : \A i \in 0 .. h.nodes[n].top : i # l =>
                      x.nodes[n].neighbors[i] = k.nodes[n].neighbors[i]
                <4>1. /\ h \in GraphOf(new) /\ Tower(h, new, V) /\ k \in Good(h, new, V)
                      /\ new \in Nat /\ new \in 1 .. new
                      /\ l \in 0 .. h.nodes[new].top /\ new \in V[l]
                    BY <1>1, <1>2
                <4> QED
                    BY ONLY <3>1, <4>1, JoinElsewhere, SMTT(60)
            <3> QED
                BY <3>2
        <2>2. \A n \in 1 .. new : \A i \in 0 .. h.nodes[n].top : i < l => i # l /\ i < l + 1
            BY <1>2
        <2> QED
            BY <1>1, <2>1, <2>2
    <1>10. l = 0 => Tied(h, joined, c)
        <2> SUFFICES ASSUME l = 0 PROVE Tied(h, joined, c)
            OBVIOUS
        <2>1. \A n \in 1 .. new : Bottom(k, n) = Bottom(h, n)
            <3>2. \A n \in 1 .. new : h.nodes[n].top \in Nat
                BY <1>2, GraphIs
            <3>1. \A n \in 1 .. new : l <= h.nodes[n].top
                BY <3>2
            <3> QED
                BY <1>5, <3>1 DEF Bottom
        <2>2. Simple(k, new) /\ Grows(h, k, new)
            BY <2>1 DEF Simple, Grows, Prepared, new
        <2> QED
            BY <1>1, <1>6, <2>2, JoinTies DEF new, V
    <1> HIDE DEF r, joined
    <1>11. r.graph = joined /\ r.ep = next
        BY <1>7
    <1>12. r \in Assembled(h, c, high, l)
        BY <1>3, <1>6, <1>8, <1>9, <1>10, <1>11 DEF Assembled, new, V
    <1> QED
        BY <1>12 DEF r, new

LEMMA LinkedTies ==
    ASSUME NEW c \in Nat, NEW h, Prepared(h, c), NEW high \in Nat, high <= h.nodes[c + 1].top,
           NEW ep \in 1 .. c, ep \in Reach(h, c + 1)[high]
    PROVE  /\ Linked(h, c + 1, ep, high) \in GraphOf(c + 1)
           /\ Tied(h, Linked(h, c + 1, ep, high), c)
    <1> DEFINE new == c + 1
               V == Reach(h, new)
               P == [m \in Nat |-> Assembled(h, c, high, m)]
    <1>1. /\ h \in GraphOf(new) /\ new \in Nat /\ new \in 1 .. new /\ Bounded(h, new)
          /\ ep \in 1 .. new /\ LinksIn(h, new, V)
        BY ReadyIs DEF Prepared
    <1>2. [graph |-> h, ep |-> ep] \in P[high + 1]
        <2>1. h \in Good(h, new, V)
            BY <1>1 DEF Good, Kin, Frame
        <2>2. Lesser(high + 1, high) = high /\ high + 1 # 0 /\ high + 1 \in Nat
            BY DEF Lesser
        <2> DEFINE first == [graph |-> h, ep |-> ep]
        <2>3. first \in [graph : Good(h, new, V), ep : V[Lesser(high + 1, high)]]
            BY <2>1, <2>2
        <2>4. first.graph = h /\ first.ep = ep
            OBVIOUS
        <2> HIDE DEF first
        <2>5. first \in Assembled(h, c, high, high + 1)
            BY <2>2, <2>3, <2>4 DEF Assembled
        <2> QED
            BY <2>2, <2>5 DEF first
    <1>3. LinksKeep(P, new, high)
        <2>1. \A l \in 0 .. high : l \in Nat /\ l + 1 \in Nat
            OBVIOUS
        <2>2. \A l \in 0 .. high : \A b \in Assembled(h, c, high, l + 1) :
                  LinkLayer(b, new, l) \in Assembled(h, c, high, l)
            BY LayerBuilt
        <2> QED
            BY <2>1, <2>2 DEF LinksKeep
    <1>4. P[0] = Assembled(h, c, high, 0)
        OBVIOUS
    <1> HIDE DEF P
    <1>5. Linked(h, new, ep, high) \in {b.graph : b \in P[0]}
        BY <1>1, <1>2, <1>3, LinkedStays
    <1> QED
        BY <1>4, <1>5 DEF Assembled, Good, Kin

\* A node that is tied to one of the others joins what was joined.
LEMMA TiedHolds ==
    ASSUME NEW c \in Nat, NEW h, Prepared(h, c), Joined(h, c), NEW k, Tied(h, k, c)
    PROVE  Joined(k, c + 1)
    <1> SUFFICES ASSUME NEW S \in SUBSET (1 .. c + 1), S # {},
                        \A n \in S : ToSet(Bottom(k, n)) \subseteq S
                 PROVE  S = 1 .. c + 1
        BY DEF Joined
    <1>1. PICK b \in 1 .. c : Mutual(k, c + 1, b)
        BY DEF Tied
    <1> DEFINE old == S \cap (1 .. c)
    <1>2. \A n \in 1 .. c + 1 : n \in 1 .. c \/ n = c + 1
        OBVIOUS
    <1>3. old # {}
        <2>1. CASE c + 1 \in S
            <3>1. b \in S
                BY <1>1, <2>1 DEF Mutual
            <3> QED
                BY <3>1
        <2>2. CASE c + 1 \notin S
            BY <1>2, <2>2
        <2> QED
            BY <2>1, <2>2
    <1>4. ASSUME NEW n \in old
          PROVE  ToSet(Bottom(h, n)) \subseteq old
        <2>1. n \in 1 .. c + 1 /\ 0 \in 0 .. h.nodes[n].top
            BY ReadyIs
        <2>2. ToSet(Bottom(h, n)) \subseteq 1 .. c
            BY <2>1 DEF Prepared, Bottom
        <2>3. ToSet(Bottom(h, n)) \subseteq ToSet(Bottom(k, n))
            BY <2>1 DEF Tied, Grows
        <2> QED
            BY <2>2, <2>3
    <1>5. old = 1 .. c
        BY <1>3, <1>4 DEF Joined
    <1>6. c + 1 \in S
        <2>1. b \in S
            BY <1>5
        <2> QED
            BY <1>1, <2>1 DEF Mutual
    <1> QED
        BY <1>2, <1>5, <1>6

LEMMA GrownReady ==
    ASSUME NEW c \in Nat, NEW g \in GraphOf(c), Bounded(g, c), NEW d \in Docs, NEW p \in Points,
           NEW level \in Nat, \A n \in 1 .. c : g.nodes[n].at # p /\ g.nodes[n].doc # d,
           ~g.wild, AllLive(g, c), LinksIn(g, c, Reach(g, c)), Simple(g, c), c <= M0
    PROVE  Prepared(Grown(g, d, p, level), c)
    <1> DEFINE h == Grown(g, d, p, level)
               new == c + 1
    <1>1. /\ h \in GraphOf(new) /\ h.idMap = [g.idMap EXCEPT ![d] = new] /\ h.wild = g.wild
          /\ (\A n \in 1 .. c : h.nodes[n] = g.nodes[n]) /\ h.nodes[new] = NewNode(d, p, level)
        <2>1. \A n \in 1 .. c : g.nodes[n].at # p
            OBVIOUS
        <2>2. /\ h \in GraphOf(c + 1)
              /\ h.idMap = [g.idMap EXCEPT ![d] = c + 1]
              /\ h.entry = g.entry /\ h.top = g.top /\ h.wild = g.wild
              /\ \A n \in 1 .. c : h.nodes[n] = g.nodes[n]
              /\ h.nodes[c + 1] = NewNode(d, p, level)
            BY ONLY <2>1, c \in Nat, g \in GraphOf(c), d \in Docs, p \in Points, level \in Nat,
                    GrownIs
        <2> QED
            BY <2>2
    <1>2. /\ h.nodes[new].doc = d /\ h.nodes[new].top = level /\ ~h.nodes[new].deleted
          /\ \A l \in 0 .. level : h.nodes[new].neighbors[l] = <<>>
        BY <1>1 DEF NewNode
    <1> HIDE DEF h
    <1>3. Bounded(h, new) /\ LinksIn(h, new, Reach(h, new))
        <2>1. \A n \in 1 .. c : h.nodes[n] = g.nodes[n]
            BY <1>1
        <2>2. h.nodes[c + 1] = NewNode(d, p, level) /\ h \in GraphOf(c + 1)
            BY <1>1
        <2> QED
            BY <2>1, <2>2, GrownKeeps, Zenon
    <1>4. \A n \in 1 .. new : n \in 1 .. c \/ n = new
        OBVIOUS
    <1>5. AllLive(h, new)
        <2>1. g.idMap \in [Docs -> 0 .. c] /\ \A n \in 1 .. c : g.nodes[n].doc \in Docs
            BY GraphIs
        <2>2. \A n \in 1 .. c : ~h.nodes[n].deleted /\ Resolved(h, n) = n
            BY <1>1, <2>1 DEF AllLive, Resolved
        <2>3. Resolved(h, new) = new
            BY <1>1, <1>2, <2>1 DEF Resolved
        <2> QED
            BY <1>2, <1>4, <2>2, <2>3 DEF AllLive
    <1>6. Simple(h, new)
        <2>1. \A n \in 1 .. c : Plain(Bottom(h, n), n)
            BY <1>1 DEF Simple, Bottom
        <2>2. Bottom(h, new) = <<>>
            BY <1>2 DEF Bottom
        <2>3. Plain(<<>>, new)
            BY DEF Plain
        <2> QED
            BY <1>4, <2>1, <2>2, <2>3 DEF Simple
    <1>7. \A n \in 1 .. new : \A l \in 0 .. h.nodes[n].top :
              ToSet(h.nodes[n].neighbors[l]) \subseteq 1 .. c
        <2>1. \A n \in 1 .. c : \A l \in 0 .. g.nodes[n].top :
                  ToSet(g.nodes[n].neighbors[l]) \subseteq 1 .. c
            BY ListIs
        <2>2. ToSet(<<>>) = {}
            BY DEF ToSet
        <2> QED
            BY <1>1, <1>2, <1>4, <2>1, <2>2
    <1> QED
        BY <1>1, <1>3, <1>5, <1>6, <1>7 DEF Prepared, h

\* Whatever level is drawn, the descent from the entry point ends at a node that was
\* there before and that reaches up to the first layer to be linked.
LEMMA DescentStarts ==
    ASSUME NEW c \in Nat, NEW h, Prepared(h, c), NEW p \in Points, NEW top \in Nat,
           NEW level \in Nat, NEW ep \in 1 .. c, top <= h.nodes[ep].top
    PROVE  /\ Descend(h, p, ep, top, level + 1) \in 1 .. c
           /\ Descend(h, p, ep, top, level + 1) \in Reach(h, c + 1)[Lesser(level, top)]
    <1> DEFINE new == c + 1
               V == [l \in Nat |-> Reach(h, new)[l] \cap (1 .. c)]
               start == Descend(h, p, ep, top, level + 1)
    <1>1. h \in GraphOf(new) /\ new \in Nat /\ Tower(h, new, Reach(h, new))
        BY ReadyIs
    <1>2. \A l \in Nat : V[l] = Reach(h, new)[l] \cap (1 .. c)
        OBVIOUS
    <1>3. \A n \in 1 .. new : \A l \in 0 .. h.nodes[n].top :
              /\ l \in Nat /\ ToSet(h.nodes[n].neighbors[l]) \subseteq Reach(h, new)[l]
              /\ ToSet(h.nodes[n].neighbors[l]) \subseteq 1 .. c
        <2>1. \A n \in 1 .. new : h.nodes[n].top \in Nat
            BY <1>1, GraphIs
        <2> QED
            BY <2>1 DEF Prepared, LinksIn
    <1>4. ep \in V[top]
        BY DEF Reach
    <1> HIDE DEF V
    <1>5. Tower(h, new, V)
        <2>1. \A n \in 1 .. c : Resolved(h, n) = n
            BY DEF Prepared, AllLive
        <2>2. \A l \in Nat : l + 1 \in Nat
            OBVIOUS
        <2>3. ASSUME NEW l \in Nat
              PROVE  /\ V[l] \in SUBSET (1 .. new) /\ V[l + 1] \subseteq V[l]
                     /\ \A n \in V[l] : Resolved(h, n) # NoNode => Resolved(h, n) \in V[l]
            <3>1. /\ Reach(h, new)[l] \in SUBSET (1 .. new)
                  /\ Reach(h, new)[l + 1] \subseteq Reach(h, new)[l]
                BY <1>1 DEF Tower
            <3>2. V[l] = Reach(h, new)[l] \cap (1 .. c)
                BY <1>2
            <3>3. V[l + 1] = Reach(h, new)[l + 1] \cap (1 .. c)
                BY <1>2, <2>2
            <3>4. \A n \in V[l] : Resolved(h, n) = n
                BY <2>1, <3>2
            <3> QED
                BY <3>1, <3>2, <3>3, <3>4
        <2> QED
            BY <2>3 DEF Tower
    <1>6. LinksIn(h, new, V)
        BY <1>2, <1>3 DEF LinksIn
    <1>7. start \in V[Lesser(level + 1, top)]
        <2>1. level + 1 \in Nat
            OBVIOUS
        <2> QED
            BY <1>1, <1>4, <1>5, <1>6, <2>1, DescendIn
    <1> HIDE DEF start
    <1>8. start \in V[Lesser(level, top)]
        <2>1. CASE level < top
            <3>1. Lesser(level + 1, top) = level + 1 /\ Lesser(level, top) = level
                BY <2>1 DEF Lesser
            <3>2. V[level + 1] \subseteq V[level]
                BY <1>5 DEF Tower
            <3> QED
                BY <1>7, <3>1, <3>2
        <2>2. CASE ~(level < top)
            BY <1>7, <2>2 DEF Lesser
        <2> QED
            BY <2>1, <2>2
    <1>9. Lesser(level, top) \in Nat
        BY DEF Lesser
    <1> QED
        BY <1>2, <1>8, <1>9 DEF start

LEMMA InsertedJoins ==
    ASSUME NEW c \in Nat, NEW max \in Nat, NEW g, Shape(g, c, max), NEW d \in Docs,
           NEW p \in Points, NEW drawn \in 0 .. max,
           \A n \in 1 .. c : g.nodes[n].at # p /\ g.nodes[n].doc # d,
           ~g.wild, AllLive(g, c), LinksIn(g, c, Reach(g, c)),
           Joined(g, c), Simple(g, c), c <= M0
    PROVE  /\ Joined(Inserted(g, d, p, drawn), c + 1)
           /\ Simple(Inserted(g, d, p, drawn), c + 1)
    <1> DEFINE r == Inserted(g, d, p, drawn)
               level == IF g.entry = NoNode THEN drawn ELSE Lesser(drawn, g.top + 1)
               h == Grown(g, d, p, level)
               new == c + 1
    <1>1. /\ g \in GraphOf(c) /\ Bounded(g, c)
          /\ c # 0 => g.entry \in 1 .. c /\ g.nodes[g.entry].top = g.top
          /\ c = 0 => g.entry = NoNode
        BY DEF Shape
    <1>2. g.top \in Nat /\ Len(g.nodes) = c /\ g.entry \in 0 .. c
        BY <1>1, GraphIs
    <1>3. level \in Nat /\ new \in Nat
        BY <1>2 DEF Lesser
    <1>4. /\ h \in GraphOf(new) /\ h.top = g.top
          /\ (\A n \in 1 .. c : h.nodes[n] = g.nodes[n]) /\ h.nodes[new] = NewNode(d, p, level)
        <2> HIDE DEF level
        <2>1. \A n \in 1 .. c : g.nodes[n].at # p
            OBVIOUS
        <2>2. g \in GraphOf(c) /\ level \in Nat
            BY <1>1, <1>3
        <2>3. /\ h \in GraphOf(c + 1)
              /\ h.idMap = [g.idMap EXCEPT ![d] = c + 1]
              /\ h.entry = g.entry /\ h.top = g.top /\ h.wild = g.wild
              /\ \A n \in 1 .. c : h.nodes[n] = g.nodes[n]
              /\ h.nodes[c + 1] = NewNode(d, p, level)
            BY ONLY <2>1, <2>2, c \in Nat, d \in Docs, p \in Points, GrownIs
        <2> QED
            BY <2>3
    <1>5. Prepared(h, c)
        <2> HIDE DEF level
        <2> QED
            BY <1>1, <1>3, GrownReady
    <1>6. h.nodes[new].top = level
        BY <1>4 DEF NewNode
    <1>7. Simple(r, new) /\ Joined(r, new)
        <2>1. CASE g.entry = NoNode
            <3>1. c = 0
                BY <1>1, <2>1 DEF NoNode
            <3>2. r.nodes = h.nodes
                <4>1. r = [h EXCEPT !.entry = new, !.top = drawn]
                    BY <1>2, <2>1 DEF Inserted
                <4> HIDE DEF h, r
                <4> QED
                    BY <1>4, <4>1 DEF GraphOf
            <3> HIDE DEF h, r
            <3>3. Simple(r, new)
                BY <1>5, <3>2 DEF Simple, Prepared, Bottom
            <3>4. new = 1 /\ 1 .. 1 = {1}
                BY <3>1
            <3>5. \A S \in SUBSET {1} : S # {} => S = {1}
                OBVIOUS
            <3> QED
                BY <3>3, <3>4, <3>5 DEF Joined
        <2>2. CASE g.entry # NoNode
            <3> DEFINE ep == g.entry
                       top == g.top
                       start == Descend(h, p, ep, top, level + 1)
                       high == Lesser(level, top)
                       built == Linked(h, new, start, high)
            <3>1. ep \in 1 .. c /\ top <= h.nodes[ep].top
                BY <1>1, <1>2, <1>4, <2>2 DEF NoNode
            <3>2. r.nodes = [built EXCEPT !.entry = IF level > g.top THEN new ELSE @,
                                          !.top = Greater(level, g.top)].nodes
                <4>1. level = Lesser(drawn, g.top + 1)
                    BY <2>2
                <4> QED
                    BY <1>2, <2>2, <4>1 DEF Inserted
            <3> HIDE DEF h, r, level
            <3>3. high \in Nat /\ high <= h.nodes[new].top
                BY <1>2, <1>3, <1>6 DEF Lesser
            <3>4. start \in 1 .. c /\ start \in Reach(h, new)[high]
                <4> HIDE DEF ep, top
                <4>1. top \in Nat
                    BY <1>2 DEF top
                <4> QED
                    BY <1>3, <1>5, <3>1, <4>1, DescentStarts
            <3> HIDE DEF start, high
            <3>5. built \in GraphOf(new) /\ Tied(h, built, c)
                BY <1>5, <3>3, <3>4, LinkedTies
            <3> HIDE DEF built
            <3>6. r.nodes = built.nodes
                BY <3>2, <3>5 DEF GraphOf
            <3>7. Joined(h, c)
                BY <1>4 DEF Joined, Bottom
            <3>8. Joined(built, new)
                BY <1>5, <3>5, <3>7, TiedHolds
            <3> QED
                BY <3>5, <3>6, <3>8 DEF Tied, Joined, Simple, Bottom
        <2> QED
            BY <2>1, <2>2
    <1> QED
        BY <1>7

LEMMA WideSearch ==
    ASSUME NEW c \in Nat, NEW max, NEW g, Shape(g, c, max), AllLive(g, c), Joined(g, c),
           NEW q \in Points, NEW topK \in Nat, NEW ef \in Nat, ef >= c, NEW allowed
    PROVE  LET found == Accepted(g, 1 .. c, allowed)
           IN  Search(g, q, topK, ef, allowed) =
                   {n \in found : Cardinality({m \in found : Nearer(g, q, m, n)}) < topK}
    <1> DEFINE found == Accepted(g, 1 .. c, allowed)
    <1>1. /\ g \in GraphOf(c)
          /\ c # 0 => g.entry \in 1 .. c
          /\ c = 0 => g.entry = NoNode
        BY DEF Shape
    <1>2. CASE c = 0
        <2>1. found = {}
            BY <1>2 DEF Accepted
        <2> QED
            BY <1>1, <1>2, <2>1 DEF Search
    <1>3. CASE c # 0
        <2> DEFINE start == Descend(g, q, g.entry, g.top, 1)
                   V == All(c)
        <2>1. /\ g.entry \in 1 .. c /\ g.entry # NoNode /\ g.top \in Nat
              /\ Lesser(1, g.top) \in Nat
              /\ Greater(ef, topK) \in Nat /\ Greater(ef, topK) >= c
            BY <1>1, <1>3, GraphIs DEF Lesser, Greater, NoNode
        <2>2. Tower(g, c, V) /\ LinksIn(g, c, V) /\ \A l \in Nat : V[l] = 1 .. c
            BY <1>1, AllIsTower DEF All
        <2> HIDE DEF V
        <2>3. start \in V[Lesser(1, g.top)]
            <3> DEFINE ep == g.entry
                       top == g.top
            <3>1. ep \in V[top] /\ top \in Nat /\ 1 \in Nat
                BY <2>1, <2>2
            <3> HIDE DEF ep, top
            <3>2. Descend(g, q, ep, top, 1) \in V[Lesser(1, top)]
                BY <1>1, <2>2, <3>1, DescendIn
            <3> QED
                BY <3>2 DEF ep, top
        <2> HIDE DEF start
        <2>4. start \in 1 .. c
            BY <2>1, <2>2, <2>3
        <2>5. SearchLayer(g, q, start, Greater(ef, topK), 0, allowed) = found
            BY <1>1, <2>1, <2>4, WideSearchFinds
        <2> HIDE DEF found
        <2> QED
            BY <2>1, <2>5 DEF Search, start, found
    <1> QED
        BY <1>2, <1>3

\* Fewer than c nodes are nearer than any of c nodes.
LEMMA FewerNearer ==
    ASSUME NEW c \in Nat, NEW g \in GraphOf(c), NEW q \in Points, NEW n \in 1 .. c
    PROVE  Cardinality({m \in 1 .. c : Nearer(g, q, m, n)}) < c
    <1> DEFINE S == {m \in 1 .. c : Nearer(g, q, m, n)}
    <1>1. S \in SUBSET (1 .. c) /\ n \notin S
        BY NearerIsOrder
    <1> HIDE DEF S
    <1>2. Cardinality(S) \in Nat /\ (Cardinality(S) >= c => S = 1 .. c)
        BY <1>1, Counted
    <1>3. Cardinality(S) < c
        BY <1>1, <1>2
    <1> QED
        BY <1>3 DEF S

=============================================================================
