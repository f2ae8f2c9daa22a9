-------------------------------- MODULE Hnsw --------------------------------
(***************************************************************************)
(* indexes/hnsw: one HNSWIndex through insertions, removals and reloads,   *)
(* and what a search of it would return at every moment.                   *)
(*                                                                         *)
(* Calls run one at a time here, as the Python binding runs them; see      *)
(* HnswSearch for searches that overlap.                                   *)
(***************************************************************************)
EXTENDS HnswGraph

CONSTANTS
    Filters,   \* sets of documents that a filter matches
    MaxLevel,  \* bound: levels that are drawn
    Busy       \* bound: from this number of nodes on, documents are
               \* neither removed nor inserted again

ASSUME HnswAssumption ==
    /\ Docs \subseteq Nat
    /\ Filters \subseteq SUBSET Docs
    /\ MaxLevel \in Nat
    /\ Busy \in Nat

VARIABLES
    graph,  \* the index
    past    \* history: what clients have done, see Deeds

vars == <<graph, past>>

\* "removed": a document was removed.  "replaced": a document was inserted that
\* the index held.  "revived": one that it had held and removed.
Deeds == {"removed", "replaced", "revived"}

nodes == graph.nodes

-----------------------------------------------------------------------------
Init ==
    /\ graph = EmptyGraph
    /\ past = {}

Deed(d) ==
    IF graph.idMap[d] # NoNode THEN {"replaced"}
    ELSE IF \E n \in DOMAIN nodes : nodes[n].doc = d THEN {"revived"} ELSE {}

\* What the bounds allow: every vector is used once, and new documents come in
\* the order of their ids, which are otherwise only compared for equality.
Allowed(d, p) ==
    /\ \A n \in DOMAIN nodes : nodes[n].at # p
    /\ \A c \in Docs : c < d => \E n \in DOMAIN nodes : nodes[n].doc = c
    /\ Len(nodes) < Busy \/ Deed(d) = {}

Insert(d, p, level) ==
    /\ ~graph.wild
    /\ Allowed(d, p)
    /\ graph' = Inserted(graph, d, p, level)
    /\ past' = past \cup Deed(d)

\* remove of a document that id_map_ does not have changes nothing.
RemoveDoc(d) ==
    /\ ~graph.wild
    /\ graph.idMap[d] # NoNode
    /\ Len(nodes) <= Busy
    /\ graph' = Removed(graph, d)
    /\ past' = past \cup {"removed"}

\* save and load into a new index.
Reload ==
    /\ ~graph.wild
    /\ graph' = Loaded(graph)
    /\ UNCHANGED past

Next ==
    \/ \E d \in Docs, p \in Points, level \in 0 .. MaxLevel : Insert(d, p, level)
    \/ \E d \in Docs : RemoveDoc(d)
    \/ Reload

Spec == Init /\ [][Next]_vars

-----------------------------------------------------------------------------
(* Properties                                                              *)

Levels == 0 .. MaxLevel

\* A node of a graph with the given number of them.
NodeLike(node, count) ==
    node \in [doc : Docs, at : Points, top : Levels, deleted : BOOLEAN,
              neighbors : [0 .. node.top -> Seq(1 .. count)]]

\* Type invariant; the entry point is a node that reaches up to the top layer,
\* where every descent starts, and neighbours are nodes.
TypeOK ==
    /\ DOMAIN nodes = 1 .. Len(nodes)
    /\ \A n \in DOMAIN nodes : NodeLike(nodes[n], Len(nodes)) /\ nodes[n].top <= graph.top
    /\ graph.idMap \in [Docs -> 0 .. Len(nodes)]
    /\ graph.top \in Levels
    /\ IF nodes = <<>> THEN graph.entry = NoNode
       ELSE graph.entry \in DOMAIN nodes /\ nodes[graph.entry].top = graph.top
    /\ graph.wild \in BOOLEAN
    /\ past \in SUBSET Deeds

\* However often a list was joined and pruned, it is within the capacity of its
\* layer.
ListsBounded ==
    \A n \in DOMAIN nodes : \A l \in 0 .. nodes[n].top :
        Len(nodes[n].neighbors[l]) <= Capacity(l)

\* Nodes are resolved through document ids again and again, yet as long as no
\* id was used twice a layer links only nodes that reach up to it, and no
\* insertion accesses a list that does not exist.
LinksInLayer ==
    past \subseteq {"removed"} =>
        /\ ~graph.wild
        /\ \A n \in DOMAIN nodes : \A l \in 0 .. nodes[n].top :
               \A m \in ToSet(nodes[n].neighbors[l]) : l <= nodes[m].top

\* A search returns at most topK nodes, all allowed by the filter, and each is
\* the vector its document has now: never a removed one, and none twice, unless
\* a document was inserted on top of itself.
SearchIsSound ==
    ~graph.wild /\ "replaced" \notin past =>
        \A q \in Points, allowed \in Filters \cup {Docs} :
            LET found == Search(graph, q, 1, 2, allowed)
            IN  /\ Cardinality(found) <= 1
                /\ \A n \in found : nodes[n].doc \in allowed /\ graph.idMap[nodes[n].doc] = n

\* What a search with a beam as wide as the index finds.
Findable(q) == Search(graph, q, Len(nodes), Len(nodes), Docs)

\* As long as documents are only added, and no more of them than fit in one
\* list of layer 0 besides its owner, a search with a beam wide enough finds
\* every one, whatever levels were drawn and vectors came in which order.
AllFindable ==
    past = {} /\ Len(nodes) <= M0 + 1 => \A q \in Points : Findable(q) = DOMAIN nodes

\* Unless a document was inserted on top of itself, an index that was saved and
\* loaded has the same documents.
ReloadKeeps == ~graph.wild /\ "replaced" \notin past => Loaded(graph) = graph

-----------------------------------------------------------------------------
(* What the documentation says and the code does not do.                   *)

\* hnsw_node.hpp: a tombstone is "still present in the graph and reachable
\* during traversal".  Removing documents takes no other from a search.
TombstonesTraversed ==
    past = {"removed"} =>
        \A q \in Points : Findable(q) = {n \in DOMAIN nodes : ~nodes[n].deleted}

\* api/routes/vectors.py: a vector upserted again "is replaced".  Replacing
\* documents takes no other from a search.
ReplaceKeepsOthers ==
    past = {"replaced"} =>
        \A q \in Points, d \in Docs : graph.idMap[d] # NoNode => graph.idMap[d] \in Findable(q)
=============================================================================
