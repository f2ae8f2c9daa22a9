------------------------------ MODULE HnswGraph ------------------------------
(***************************************************************************)
(* indexes/hnsw: the layered graph of an HNSWIndex as a value, and what    *)
(* insert, remove, search and load make of it when they run alone.  The    *)
(* state machines over it are Hnsw (one index through its life),           *)
(* HnswSearch (searches that overlap) and Ivf (one graph per cell).        *)
(*                                                                         *)
(* Simplifications:                                                        *)
(*  - A vector is a number and the distance is the difference.  No two     *)
(*    vectors are equal and no two distances tie (PointsAssumption), so    *)
(*    the heaps are sets and no order of equals matters.                   *)
(*  - The level a node draws is any level there is.                        *)
(***************************************************************************)
EXTENDS Naturals, Sequences, FiniteSets, SequencesExt

CONSTANTS
    Docs,            \* document ids
    Points,          \* the vectors
    M,               \* connections of a node in a layer above 0
    EfConstruction   \* beam width of insertions

Dist(p, q) == IF p < q THEN q - p ELSE p - q

ASSUME GraphAssumption ==
    /\ Points \subseteq Nat
    /\ M \in Nat \ {0, 1}
    /\ EfConstruction \in Nat \ {0}

ASSUME PointsAssumption ==
    \A p, q, r \in Points : Dist(p, q) = Dist(p, r) => q = r

\* Nodes are numbered from 1.
NoNode == 0

\* nodes: nodes_, vectors_ and doc_ids_, a record for each node.  idMap:
\* id_map_, the node of each document.  entry, top: entry_point_, max_layer_.
\* wild: an insertion accessed a neighbour list that does not exist.
EmptyGraph ==
    [nodes |-> <<>>, idMap |-> [d \in Docs |-> NoNode], entry |-> NoNode,
     top |-> 0, wild |-> FALSE]

NewNode(d, p, level) ==
    [doc |-> d, at |-> p, top |-> level, deleted |-> FALSE,
     neighbors |-> [l \in 0 .. level |-> <<>>]]

M0 == 2 * M

Capacity(layer) == IF layer = 0 THEN M0 ELSE M

Lesser(a, b)  == IF a < b THEN a ELSE b
Greater(a, b) == IF a < b THEN b ELSE a

\* Whether node m is nearer to q than node n.
Nearer(g, q, m, n) == Dist(q, g.nodes[m].at) < Dist(q, g.nodes[n].at)

Nearest(g, q, S)  == CHOOSE n \in S : \A m \in S \ {n} : Nearer(g, q, n, m)
Farthest(g, q, S) == CHOOSE n \in S : \A m \in S \ {n} : Nearer(g, q, m, n)

\* S as a sequence, nearest first.
Sorted(g, q, S) ==
    [i \in 1 .. Cardinality(S) |->
        CHOOSE n \in S : Cardinality({m \in S : Nearer(g, q, m, n)}) = i - 1]

\* Heaps hold document ids: this is the node one is resolved to later.
Resolved(g, n) == g.idMap[g.nodes[n].doc]

-----------------------------------------------------------------------------
(* search_layer                                                            *)

Accepts(g, n, allowed) == ~g.nodes[n].deleted /\ g.nodes[n].doc \in allowed

\* The nodes of found, the farthest left out when there are more than ef.
Trimmed(g, q, ef, found) ==
    IF Cardinality(found) > ef THEN found \ {Farthest(g, q, found)} ELSE found

\* Mutant: tombstones get into the results.
ExamineDeleted(g, q, ef, allowed, beam, n) ==
    IF n \in beam.visited THEN beam
    ELSE IF Cardinality(beam.found) < ef \/ Nearer(g, q, n, Farthest(g, q, beam.found))
    THEN [visited |-> beam.visited \cup {n},
          open    |-> beam.open \cup {n},
          found   |-> IF g.nodes[n].doc \in allowed
                        THEN Trimmed(g, q, ef, beam.found \cup {n}) ELSE beam.found]
    ELSE [beam EXCEPT !.visited = @ \cup {n}]

\* One neighbour of the node being expanded.
Examine(g, q, ef, allowed, beam, n) ==
    IF n \in beam.visited THEN beam
    ELSE IF Cardinality(beam.found) < ef \/ Nearer(g, q, n, Farthest(g, q, beam.found))
    THEN [visited |-> beam.visited \cup {n},
          open    |-> beam.open \cup {n},
          found   |-> IF Accepts(g, n, allowed)
                        THEN Trimmed(g, q, ef, beam.found \cup {n}) ELSE beam.found]
    ELSE [beam EXCEPT !.visited = @ \cup {n}]

\* Nothing left to expand, or nothing that could improve a full result.
Finished(g, q, ef, beam) ==
    \/ beam.open = {}
    \/ /\ beam.found # {} /\ Cardinality(beam.found) >= ef
       /\ Nearer(g, q, Farthest(g, q, beam.found), Nearest(g, q, beam.open))

\* The candidate's document id is looked up again: what is expanded is the node
\* id_map_ has for it, if any, and if that node is in the layer.
Expand(g, q, ef, layer, allowed, beam) ==
    LET best == Nearest(g, q, beam.open)
        node == Resolved(g, best)
        rest == [beam EXCEPT !.open = @ \ {best}]
        Step(acc, n) == Examine(g, q, ef, allowed, acc, n)
    IN  IF node = NoNode \/ layer > g.nodes[node].top THEN rest
        ELSE FoldLeft(Step, rest, g.nodes[node].neighbors[layer])

\* Every node is a candidate at most once, so Len(g.nodes) rounds are enough.
SearchLayer(g, q, ep, ef, layer, allowed) ==
    LET beam[i \in 0 .. Len(g.nodes)] ==
            IF i = 0
            THEN [visited |-> {ep}, open |-> {ep},
                  found |-> IF Accepts(g, ep, allowed) THEN {ep} ELSE {}]
            ELSE LET last == beam[i - 1]
                 IN  IF Finished(g, q, ef, last) THEN last
                     ELSE Expand(g, q, ef, layer, allowed, last)
    IN  beam[Len(g.nodes)].found

\* The entry point of the next layer.
Follow(g, q, ep, found) ==
    IF found = {} \/ Resolved(g, Nearest(g, q, found)) = NoNode THEN ep
    ELSE Resolved(g, Nearest(g, q, found))

\* The coarse descent: from layer high down to layer low with a beam of one.
Descend(g, q, ep, high, low) ==
    LET at[l \in low .. high + 1] ==
            IF l = high + 1 THEN ep
            ELSE LET above == at[l + 1]
                 IN  Follow(g, q, above, SearchLayer(g, q, above, 1, l, Docs))
    IN  IF low > high THEN ep ELSE at[low]

\* HNSWIndex::search.
Search(g, q, topK, efSearch, allowed) ==
    IF g.entry = NoNode THEN {}
    ELSE LET found == SearchLayer(g, q, Descend(g, q, g.entry, g.top, 1),
                                  Greater(efSearch, topK), 0, allowed)
         IN  {n \in found : Cardinality({m \in found : Nearer(g, q, m, n)}) < topK}

-----------------------------------------------------------------------------
(* Connecting a new node                                                   *)

\* select_neighbors_heuristic: nearest first, a candidate is kept if no kept
\* one is nearer to it than q is.
SelectNeighbors(g, q, candidates, max) ==
    LET Pick(kept, n) ==
            LET node == Resolved(g, n)
            IN  IF Len(kept) >= max \/ node = NoNode THEN kept
                ELSE IF \A i \in DOMAIN kept :
                            Dist(g.nodes[node].at, g.nodes[kept[i]].at)
                                >= Dist(q, g.nodes[n].at)
                THEN Append(kept, node) ELSE kept
    IN  FoldLeft(Pick, <<>>, Sorted(g, q, candidates))

WithNeighbor(g, n, m, layer) ==
    IF Contains(g.nodes[n].neighbors[layer], m) THEN g
    ELSE [g EXCEPT !.nodes[n].neighbors[layer] = Append(@, m)]

Pruned(g, n, layer, max) ==
    LET list == g.nodes[n].neighbors[layer]
    IN  IF Len(list) <= max THEN g
        ELSE [g EXCEPT !.nodes[n].neighbors[layer] =
                 SelectNeighbors(g, g.nodes[n].at, ToSet(list), max)]

\* Mutant: only the new node is pruned.
ConnectPruningOne(g, a, b, layer, max) ==
    IF g.wild \/ layer > g.nodes[b].top THEN [g EXCEPT !.wild = TRUE]
    ELSE Pruned(WithNeighbor(WithNeighbor(g, a, b, layer), b, a, layer), a, layer, max)

\* Mutant: the neighbour does not link back.
ConnectOneWay(g, a, b, layer, max) ==
    IF g.wild \/ layer > g.nodes[b].top THEN [g EXCEPT !.wild = TRUE]
    ELSE Pruned(WithNeighbor(g, a, b, layer), a, layer, max)

\* connect_bidirectional.  Nobody checks that b has a list for the layer.
Connect(g, a, b, layer, max) ==
    IF g.wild \/ layer > g.nodes[b].top THEN [g EXCEPT !.wild = TRUE]
    ELSE LET joined == WithNeighbor(WithNeighbor(g, a, b, layer), b, a, layer)
         IN  Pruned(Pruned(joined, a, layer, max), b, layer, max)

\* One layer of the fine descent; built holds the graph and the entry point.
LinkLayer(built, new, layer) ==
    LET g == built.graph
        q == g.nodes[new].at
        found == SearchLayer(g, q, built.ep, EfConstruction, layer, Docs)
        Join(acc, n) == Connect(acc, new, n, layer, Capacity(layer))
    IN  [graph |-> FoldLeft(Join, g, SelectNeighbors(g, q, found, Capacity(layer))),
         ep    |-> Follow(g, q, built.ep, found)]

\* Mutant: the descent starts above the top layer.
LinkedTooHigh(g, new, ep, high) ==
    LET top == g.nodes[new].top
        built[l \in 0 .. top + 1] ==
            IF l = top + 1 THEN [graph |-> g, ep |-> ep] ELSE LinkLayer(built[l + 1], new, l)
    IN  built[0].graph

\* The fine descent, from layer high down.
Linked(g, new, ep, high) ==
    LET built[l \in 0 .. high + 1] ==
            IF l = high + 1 THEN [graph |-> g, ep |-> ep] ELSE LinkLayer(built[l + 1], new, l)
    IN  built[0].graph

-----------------------------------------------------------------------------
(* insert, remove and load                                                 *)

\* The arrays with a new node for d, and id_map_ pointing to it.
Grown(g, d, p, level) ==
    [g EXCEPT !.nodes = Append(@, NewNode(d, p, level)),
              !.idMap[d] = Len(g.nodes) + 1]

\* Mutant: the entry point stays where it is.
InsertedLow(g, d, p, drawn) ==
    LET new == Len(g.nodes) + 1
    IN  IF g.entry = NoNode
        THEN [Grown(g, d, p, drawn) EXCEPT !.entry = new, !.top = drawn]
        ELSE LET level == Lesser(drawn, g.top + 1)
                 built == Linked(Grown(g, d, p, level), new,
                                 Descend(Grown(g, d, p, level), p, g.entry, g.top, level + 1),
                                 Lesser(level, g.top))
             IN  [built EXCEPT !.top = Greater(level, g.top)]

\* HNSWIndex::insert.  The drawn level is capped at one above the top layer.
Inserted(g, d, p, drawn) ==
    LET new == Len(g.nodes) + 1
    IN  IF g.entry = NoNode
        THEN [Grown(g, d, p, drawn) EXCEPT !.entry = new, !.top = drawn]
        ELSE LET level == Lesser(drawn, g.top + 1)
                 grown == Grown(g, d, p, level)
                 built == Linked(grown, new,
                                 Descend(grown, p, g.entry, g.top, level + 1),
                                 Lesser(level, g.top))
             IN  [built EXCEPT !.entry = IF level > g.top THEN new ELSE @,
                               !.top   = Greater(level, g.top)]

\* Mutant: the document keeps its place in id_map_.
RemovedKeepingId(g, d) ==
    IF g.idMap[d] = NoNode THEN g ELSE [g EXCEPT !.nodes[g.idMap[d]].deleted = TRUE]

\* HNSWIndex::remove.
Removed(g, d) ==
    IF g.idMap[d] = NoNode THEN g
    ELSE [g EXCEPT !.nodes[g.idMap[d]].deleted = TRUE, !.idMap[d] = NoNode]

\* What load makes of a saved graph: the last node of a document that is not
\* deleted is the document's.
Loaded(g) ==
    [g EXCEPT !.idMap =
        [d \in Docs |->
            LET own == {n \in DOMAIN g.nodes : g.nodes[n].doc = d /\ ~g.nodes[n].deleted}
            IN  IF own = {} THEN NoNode ELSE CHOOSE n \in own : \A m \in own : m <= n]]
=============================================================================
