----------------------------- MODULE HnswProofs -----------------------------
(* Proofs about Hnsw: one index through insertions, removals and reloads.  *)
EXTENDS Hnsw, HnswGraphProofs

-----------------------------------------------------------------------------
(* The inductive invariant, of a graph of c nodes and what was done to it. *)

\* What a document id leads to is a live vector of the document.
IdsLead(g) ==
    \A d \in Docs : g.idMap[d] # NoNode =>
        g.nodes[g.idMap[d]].doc = d /\ ~g.nodes[g.idMap[d]].deleted

\* Unless a document was inserted on top of itself, every live vector is what
\* its document id leads to.
LiveAreLed(g, c, deeds) ==
    "replaced" \notin deeds =>
        \A n \in 1 .. c : ~g.nodes[n].deleted => g.idMap[g.nodes[n].doc] = n

\* As long as no id was used twice, no two nodes have one, and the layers link
\* only nodes that reach up to them.
UsedOnce(g, c, deeds) ==
    deeds \subseteq {"removed"} =>
        /\ \A m, n \in 1 .. c : g.nodes[m].doc = g.nodes[n].doc => m = n
        /\ ~g.wild
        /\ LinksIn(g, c, Reach(g, c))

Sound(g, c, deeds) ==
    /\ c \in Nat
    /\ Shape(g, c, MaxLevel)
    /\ deeds \in SUBSET Deeds
    /\ IdsLead(g)
    /\ LiveAreLed(g, c, deeds)
    /\ UsedOnce(g, c, deeds)

HInv == Sound(graph, Len(nodes), past)

-----------------------------------------------------------------------------
LEMMA SoundIs ==
    ASSUME NEW c, NEW g, NEW deeds, Sound(g, c, deeds)
    PROVE  /\ c \in Nat /\ g \in GraphOf(c) /\ Len(g.nodes) = c /\ DOMAIN g.nodes = 1 .. c
           /\ g.idMap \in [Docs -> 0 .. c]
           /\ \A d \in Docs : g.idMap[d] # NoNode => g.idMap[d] \in 1 .. c
           /\ \A n \in 1 .. c : g.nodes[n].doc \in Docs /\ g.nodes[n].deleted \in BOOLEAN
    <1>1. c \in Nat /\ g \in GraphOf(c)
        BY DEF Sound, Shape
    <1>2. /\ Len(g.nodes) = c /\ DOMAIN g.nodes = 1 .. c /\ g.idMap \in [Docs -> 0 .. c]
          /\ \A n \in 1 .. c : g.nodes[n].doc \in Docs /\ g.nodes[n].deleted \in BOOLEAN
        BY <1>1, GraphIs
    <1> QED
        BY <1>1, <1>2 DEF NoNode

LEMMA EmptySound == Sound(EmptyGraph, 0, {})
    <1> DEFINE g == EmptyGraph
    <1>1. /\ g.nodes = <<>> /\ g.idMap = [d \in Docs |-> NoNode] /\ g.entry = NoNode
          /\ g.top = 0 /\ g.wild = FALSE
        BY DEF EmptyGraph
    <1>2. 1 .. 0 = {}
        OBVIOUS
    <1>3. Shape(g, 0, MaxLevel)
        BY HnswAssumption, EmptyIs
    <1>4. IdsLead(g) /\ LiveAreLed(g, 0, {}) /\ UsedOnce(g, 0, {})
        <2>1. LinksIn(g, 0, Reach(g, 0))
            BY <1>2 DEF LinksIn
        <2> QED
            BY <1>1, <1>2, <2>1 DEF IdsLead, LiveAreLed, UsedOnce
    <1> QED
        BY <1>3, <1>4 DEF Sound

LEMMA OnceResolves ==
    ASSUME NEW c, NEW g, NEW deeds, Sound(g, c, deeds), deeds \subseteq {"removed"}
    PROVE  SelfResolving(g, c)
    <1> SUFFICES ASSUME NEW n \in 1 .. c, Resolved(g, n) # NoNode
                 PROVE  Resolved(g, n) = n
        BY DEF SelfResolving
    <1>1. g.nodes[n].doc \in Docs
        BY SoundIs
    <1>2. Resolved(g, n) \in 1 .. c
        BY <1>1, SoundIs DEF Resolved
    <1>3. g.nodes[Resolved(g, n)].doc = g.nodes[n].doc
        BY <1>1 DEF Sound, IdsLead, Resolved
    <1> QED
        BY <1>2, <1>3 DEF Sound, UsedOnce

\* deed: what Deed(d) can be, told from the graph.
LEMMA InsertedSound ==
    ASSUME NEW c, NEW g, NEW deeds, Sound(g, c, deeds), ~g.wild,
           NEW d \in Docs, NEW p \in Points, NEW level \in 0 .. MaxLevel,
           \A n \in 1 .. c : g.nodes[n].at # p, NEW deed \in SUBSET Deeds,
           "replaced" \notin deed => g.idMap[d] = NoNode,
           deed \subseteq {"removed"} => \A n \in 1 .. c : g.nodes[n].doc # d
    PROVE  Sound(Inserted(g, d, p, level), c + 1, deeds \cup deed)
    <1> DEFINE r == Inserted(g, d, p, level)
               now == deeds \cup deed
    <1>1. /\ c \in Nat /\ Shape(g, c, MaxLevel) /\ deeds \in SUBSET Deeds
          /\ IdsLead(g) /\ LiveAreLed(g, c, deeds) /\ UsedOnce(g, c, deeds)
        BY DEF Sound
    <1>2. /\ Shape(r, c + 1, MaxLevel)
          /\ r.idMap = [g.idMap EXCEPT ![d] = c + 1]
          /\ \A n \in 1 .. c : /\ r.nodes[n].doc = g.nodes[n].doc
                               /\ r.nodes[n].at = g.nodes[n].at
                               /\ r.nodes[n].deleted = g.nodes[n].deleted
          /\ r.nodes[c + 1].doc = d /\ r.nodes[c + 1].at = p /\ ~r.nodes[c + 1].deleted
          /\ ~g.wild /\ SelfResolving(g, c) /\ LinksIn(g, c, Reach(g, c))
                 /\ (\A n \in 1 .. c : g.nodes[n].doc # d) =>
             ~r.wild /\ LinksIn(r, c + 1, Reach(r, c + 1))
        BY <1>1, HnswAssumption, InsertedIs
    <1> HIDE DEF r
    <1>3. /\ g.idMap \in [Docs -> 0 .. c]
          /\ \A e \in Docs : g.idMap[e] # NoNode => g.idMap[e] \in 1 .. c
          /\ \A n \in 1 .. c : g.nodes[n].doc \in Docs
        BY SoundIs
    <1>4. \A n \in 1 .. c + 1 : n \in 1 .. c \/ n = c + 1
        BY <1>1
    <1>5. IdsLead(r)
        BY <1>1, <1>2, <1>3 DEF IdsLead
    <1>6. LiveAreLed(r, c + 1, now)
        <2> SUFFICES ASSUME "replaced" \notin now, NEW n \in 1 .. c + 1, ~r.nodes[n].deleted
                     PROVE  r.idMap[r.nodes[n].doc] = n
            BY DEF LiveAreLed
        <2>1. CASE n \in 1 .. c
            <3>1. g.idMap[g.nodes[n].doc] = n /\ n # NoNode
                BY <1>1, <1>2, <2>1 DEF LiveAreLed, NoNode
            <3>2. g.nodes[n].doc # d
                BY <3>1
            <3> QED
                BY <1>2, <1>3, <2>1, <3>1, <3>2
        <2>2. CASE n = c + 1
            BY <1>2, <1>3, <2>2
        <2> QED
            BY <1>4, <2>1, <2>2
    <1>7. UsedOnce(r, c + 1, now)
        <2> SUFFICES ASSUME now \subseteq {"removed"}
                     PROVE  /\ \A m, n \in 1 .. c + 1 : r.nodes[m].doc = r.nodes[n].doc => m = n
                            /\ ~r.wild
                            /\ LinksIn(r, c + 1, Reach(r, c + 1))
            BY DEF UsedOnce
        <2>1. deeds \subseteq {"removed"} /\ \A n \in 1 .. c : g.nodes[n].doc # d
            OBVIOUS
        <2>2. /\ \A m, n \in 1 .. c : g.nodes[m].doc = g.nodes[n].doc => m = n
              /\ LinksIn(g, c, Reach(g, c))
            BY <1>1, <2>1 DEF UsedOnce
        <2>3. SelfResolving(g, c)
            BY <2>1, OnceResolves
        <2>4. \A m, n \in 1 .. c + 1 : r.nodes[m].doc = r.nodes[n].doc => m = n
            BY <1>2, <1>4, <2>1, <2>2
        <2> QED
            BY <1>2, <2>1, <2>2, <2>3, <2>4
    <1>8. c + 1 \in Nat /\ now \in SUBSET Deeds
        BY <1>1
    <1> QED
        BY <1>2, <1>5, <1>6, <1>7, <1>8 DEF Sound, r

LEMMA RemovedSound ==
    ASSUME NEW c, NEW g, NEW deeds, Sound(g, c, deeds), NEW d \in Docs, g.idMap[d] # NoNode
    PROVE  Sound(Removed(g, d), c, deeds \cup {"removed"})
    <1> DEFINE r == Removed(g, d)
               now == deeds \cup {"removed"}
    <1>1. /\ c \in Nat /\ Shape(g, c, MaxLevel) /\ deeds \in SUBSET Deeds
          /\ IdsLead(g) /\ LiveAreLed(g, c, deeds) /\ UsedOnce(g, c, deeds)
        BY DEF Sound
    <1>2. /\ Shape(r, c, MaxLevel)
          /\ r.idMap = [g.idMap EXCEPT ![d] = NoNode] /\ r.wild = g.wild
          /\ \A n \in 1 .. c :
                 /\ r.nodes[n].doc = g.nodes[n].doc /\ r.nodes[n].top = g.nodes[n].top
                 /\ r.nodes[n].neighbors = g.nodes[n].neighbors
                 /\ r.nodes[n].deleted = (n = g.idMap[d] \/ g.nodes[n].deleted)
        <2>1. MaxLevel \in Nat
            BY HnswAssumption
        <2> QED
            BY <1>1, <2>1, RemovedIs
    <1> HIDE DEF r
    <1>3. /\ g.idMap \in [Docs -> 0 .. c]
          /\ \A e \in Docs : g.idMap[e] # NoNode => g.idMap[e] \in 1 .. c
          /\ \A n \in 1 .. c : g.nodes[n].doc \in Docs
        BY SoundIs
    <1>4. IdsLead(r)
        <2> SUFFICES ASSUME NEW e \in Docs, r.idMap[e] # NoNode
                     PROVE  r.nodes[r.idMap[e]].doc = e /\ ~r.nodes[r.idMap[e]].deleted
            BY DEF IdsLead
        <2>1. e # d /\ r.idMap[e] = g.idMap[e]
            BY <1>2, <1>3
        <2>2. /\ g.idMap[e] \in 1 .. c /\ g.nodes[g.idMap[e]].doc = e
              /\ ~g.nodes[g.idMap[e]].deleted /\ g.nodes[g.idMap[d]].doc = d
            BY <1>1, <1>3, <2>1 DEF IdsLead
        <2>3. g.idMap[e] # g.idMap[d]
            BY <2>1, <2>2
        <2> QED
            BY <1>2, <2>1, <2>2, <2>3
    <1>5. LiveAreLed(r, c, now)
        <2> SUFFICES ASSUME "replaced" \notin now, NEW n \in 1 .. c, ~r.nodes[n].deleted
                     PROVE  r.idMap[r.nodes[n].doc] = n
            BY DEF LiveAreLed
        <2>1. n # g.idMap[d] /\ ~g.nodes[n].deleted
            BY <1>2
        <2>2. g.idMap[g.nodes[n].doc] = n
            BY <1>1, <2>1 DEF LiveAreLed
        <2>3. g.nodes[n].doc # d
            BY <2>1, <2>2
        <2> QED
            BY <1>2, <1>3, <2>2, <2>3
    <1>6. UsedOnce(r, c, now)
        <2> SUFFICES ASSUME now \subseteq {"removed"}
                     PROVE  /\ \A m, n \in 1 .. c : r.nodes[m].doc = r.nodes[n].doc => m = n
                            /\ ~r.wild
                            /\ LinksIn(r, c, Reach(r, c))
            BY DEF UsedOnce
        <2>1. /\ \A m, n \in 1 .. c : g.nodes[m].doc = g.nodes[n].doc => m = n
              /\ ~g.wild
              /\ LinksIn(g, c, Reach(g, c))
            BY <1>1 DEF UsedOnce
        <2>2. Reach(r, c) = Reach(g, c)
            BY <1>2 DEF Reach
        <2>3. LinksIn(r, c, Reach(g, c))
            BY <1>2, <2>1 DEF LinksIn
        <2> QED
            BY <1>2, <2>1, <2>2, <2>3
    <1>7. now \in SUBSET Deeds
        BY <1>1 DEF Deeds
    <1> QED
        BY <1>1, <1>2, <1>4, <1>5, <1>6, <1>7 DEF Sound, r

\* What load makes of the ids of a sound graph.
LEMMA LoadedSound ==
    ASSUME NEW c, NEW g, NEW deeds, Sound(g, c, deeds)
    PROVE  /\ Sound(Loaded(g), c, deeds)
           /\ "replaced" \notin deeds => Loaded(g) = g
    <1> DEFINE r == Loaded(g)
    <1>1. /\ c \in Nat /\ Shape(g, c, MaxLevel) /\ deeds \in SUBSET Deeds
          /\ IdsLead(g) /\ LiveAreLed(g, c, deeds) /\ UsedOnce(g, c, deeds)
        BY DEF Sound
    <1>2. /\ Shape(r, c, MaxLevel)
          /\ r.nodes = g.nodes /\ r.wild = g.wild
          /\ \A d \in Docs : IF Own(g, c, d) = {} THEN r.idMap[d] = NoNode
                             ELSE r.idMap[d] \in Own(g, c, d)
          /\ r = [g EXCEPT !.idMap = r.idMap]
        BY <1>1, HnswAssumption, LoadedIs
    <1> HIDE DEF r
    <1>3. /\ g \in GraphOf(c) /\ g.idMap \in [Docs -> 0 .. c]
          /\ \A e \in Docs : g.idMap[e] # NoNode => g.idMap[e] \in 1 .. c
          /\ \A n \in 1 .. c : g.nodes[n].doc \in Docs
        BY SoundIs
    <1>4. r.idMap \in [Docs -> 0 .. c]
        BY <1>2, GraphIs, <1>1 DEF Shape
    <1>5. IdsLead(r)
        BY <1>2 DEF IdsLead, Own
    <1>6. UsedOnce(r, c, deeds)
        <2>1. Reach(r, c) = Reach(g, c)
            BY <1>2 DEF Reach
        <2> QED
            BY <1>1, <1>2, <2>1 DEF UsedOnce, LinksIn
    <1>7. ASSUME "replaced" \notin deeds
          PROVE  r = g
        <2>1. ASSUME NEW d \in Docs
              PROVE  r.idMap[d] = g.idMap[d]
            <3>1. \A n \in Own(g, c, d) : g.idMap[d] = n /\ n # NoNode
                BY <1>1, <1>7 DEF LiveAreLed, Own, NoNode
            <3>2. g.idMap[d] # NoNode => g.idMap[d] \in Own(g, c, d)
                BY <1>1, <1>3 DEF IdsLead, Own
            <3> QED
                BY <1>2, <3>1, <3>2
        <2>2. r.idMap = g.idMap
            BY <1>3, <1>4, <2>1
        <2> QED
            BY <1>2, <1>3, <2>2 DEF GraphOf
    <1>8. LiveAreLed(r, c, deeds)
        BY <1>1, <1>7 DEF LiveAreLed
    <1> QED
        BY <1>1, <1>2, <1>5, <1>6, <1>7, <1>8 DEF Sound, r

-----------------------------------------------------------------------------
(* Documents that were only added.                                         *)

\* As long as documents were only added, and all fit in one list besides its owner,
\* layer 0 holds together and its lists have never been pruned.
Together(g, c, deeds) ==
    deeds = {} /\ c <= M0 + 1 => AllLive(g, c) /\ Joined(g, c) /\ Simple(g, c)

LEMMA InsertedTogether ==
    ASSUME NEW c, NEW g, Sound(g, c, {}), Together(g, c, {}), NEW d \in Docs, NEW p \in Points,
           NEW level \in 0 .. MaxLevel,
           \A n \in 1 .. c : g.nodes[n].at # p /\ g.nodes[n].doc # d, g.idMap[d] = NoNode
    PROVE  Together(Inserted(g, d, p, level), c + 1, {})
    <1> DEFINE r == Inserted(g, d, p, level)
    <1>1. /\ c \in Nat /\ Shape(g, c, MaxLevel) /\ UsedOnce(g, c, {}) /\ MaxLevel \in Nat
        BY HnswAssumption DEF Sound
    <1>2. /\ g.idMap \in [Docs -> 0 .. c] /\ \A n \in 1 .. c : g.nodes[n].doc \in Docs
        BY SoundIs
    <1>3. ~g.wild /\ LinksIn(g, c, Reach(g, c))
        BY <1>1 DEF UsedOnce
    <1> SUFFICES ASSUME c + 1 <= M0 + 1
                 PROVE  AllLive(r, c + 1) /\ Joined(r, c + 1) /\ Simple(r, c + 1)
        BY DEF Together
    <1>4. c <= M0 /\ AllLive(g, c) /\ Joined(g, c) /\ Simple(g, c)
        <2>1. M0 \in Nat
            BY GraphAssumption DEF M0
        <2>2. c <= M0 /\ c <= M0 + 1
            BY <1>1, <2>1
        <2> QED
            BY <2>2 DEF Together
    <1>5. Joined(r, c + 1) /\ Simple(r, c + 1)
        BY <1>1, <1>3, <1>4, InsertedJoins
    <1>6. AllLive(r, c + 1)
        <2>1. \A n \in 1 .. c : g.nodes[n].at # p
            OBVIOUS
        <2>2. /\ Shape(r, c + 1, MaxLevel)
              /\ r.idMap = [g.idMap EXCEPT ![d] = c + 1]
              /\ \A n \in 1 .. c : /\ r.nodes[n].doc = g.nodes[n].doc
                                   /\ r.nodes[n].at = g.nodes[n].at
                                   /\ r.nodes[n].deleted = g.nodes[n].deleted
              /\ r.nodes[c + 1].doc = d /\ r.nodes[c + 1].at = p /\ ~r.nodes[c + 1].deleted
              /\ ~g.wild /\ SelfResolving(g, c) /\ LinksIn(g, c, Reach(g, c))
                     /\ (\A n \in 1 .. c : g.nodes[n].doc # d) =>
                 ~r.wild /\ LinksIn(r, c + 1, Reach(r, c + 1))
            BY ONLY <1>1, <2>1, d \in Docs, p \in Points, level \in 0 .. MaxLevel, InsertedIs
        <2> HIDE DEF r
        <2>3. \A n \in 1 .. c : ~r.nodes[n].deleted /\ Resolved(r, n) = n
            BY <1>2, <1>4, <2>2 DEF AllLive, Resolved
        <2>4. Resolved(r, c + 1) = c + 1
            BY <1>2, <2>2 DEF Resolved
        <2>5. \A n \in 1 .. c + 1 : n \in 1 .. c \/ n = c + 1
            BY <1>1
        <2> QED
            BY <2>2, <2>3, <2>4, <2>5 DEF AllLive
    <1> QED
        BY <1>5, <1>6

-----------------------------------------------------------------------------
(* The theorems.                                                           *)

LEMMA InitHInv == Init => HInv
    <1> SUFFICES ASSUME Init PROVE HInv
        OBVIOUS
    <1>1. graph = EmptyGraph /\ past = {} /\ Len(nodes) = 0
        BY DEF Init, nodes, EmptyGraph
    <1> QED
        BY <1>1, EmptySound DEF HInv

LEMMA NextHInv == HInv /\ [Next]_vars => HInv'
    <1> SUFFICES ASSUME HInv, [Next]_vars PROVE HInv'
        OBVIOUS
    <1> DEFINE c == Len(nodes)
    <1>1. Sound(graph, c, past)
        BY DEF HInv
    <1>2. DOMAIN nodes = 1 .. c /\ c \in Nat
        BY <1>1, SoundIs DEF nodes
    <1> HIDE DEF c
    <1>3. ASSUME NEW k, Sound(graph', k, past')
          PROVE  HInv'
        <2>1. Len(graph'.nodes) = k
            BY <1>3, SoundIs
        <2> QED
            BY <1>3, <2>1 DEF HInv, nodes
    <1>4. ASSUME NEW d \in Docs, NEW p \in Points, NEW level \in 0 .. MaxLevel,
                 Insert(d, p, level)
          PROVE  HInv'
        <2> DEFINE deed == Deed(d)
        <2>1. /\ ~graph.wild /\ graph' = Inserted(graph, d, p, level)
              /\ past' = past \cup deed
            BY <1>4 DEF Insert
        <2>2. \A n \in 1 .. c : graph.nodes[n].at # p
            BY <1>2, <1>4 DEF Insert, Allowed, nodes
        <2>3. deed \in SUBSET Deeds
            BY DEF Deed, Deeds
        <2>4. "replaced" \notin deed => graph.idMap[d] = NoNode
            BY DEF Deed
        <2>5. deed \subseteq {"removed"} => \A n \in 1 .. c : graph.nodes[n].doc # d
            BY <1>2 DEF Deed, nodes
        <2> HIDE DEF deed
        <2>6. Sound(Inserted(graph, d, p, level), c + 1, past \cup deed)
            BY <1>1, <2>1, <2>2, <2>3, <2>4, <2>5, InsertedSound
        <2> QED
            BY <1>3, <2>1, <2>6
    <1>5. ASSUME NEW d \in Docs, RemoveDoc(d)
          PROVE  HInv'
        <2>1. /\ graph.idMap[d] # NoNode /\ graph' = Removed(graph, d)
              /\ past' = past \cup {"removed"}
            BY <1>5 DEF RemoveDoc
        <2> QED
            BY <1>1, <1>3, <2>1, RemovedSound
    <1>6. CASE Reload
        <2>1. graph' = Loaded(graph) /\ past' = past
            BY <1>6 DEF Reload
        <2> QED
            BY <1>1, <1>3, <2>1, LoadedSound
    <1>7. CASE UNCHANGED vars
        BY <1>1, <1>3, <1>7 DEF vars
    <1> QED
        BY <1>4, <1>5, <1>6, <1>7 DEF Next

\* In every state the index is a graph of this shape: its lists hold nodes and
\* are within capacity, its entry point reaches the top layer, and its ids lead
\* to live vectors of their documents.
THEOREM GraphInvariant == Spec => []HInv
    BY InitHInv, NextHInv, PTL DEF Spec

LEMMA HInvTyped == HInv => TypeOK
    <1> SUFFICES ASSUME HInv PROVE TypeOK
        OBVIOUS
    <1> DEFINE c == Len(nodes)
    <1>1. Sound(graph, c, past)
        BY DEF HInv
    <1>2. /\ c \in Nat /\ graph \in GraphOf(c) /\ DOMAIN nodes = 1 .. c
          /\ graph.idMap \in [Docs -> 0 .. c] /\ past \in SUBSET Deeds
        BY <1>1, SoundIs DEF nodes, Sound
    <1> HIDE DEF c
    <1>3. /\ graph.top <= MaxLevel /\ \A n \in 1 .. c : nodes[n].top <= graph.top
          /\ IF c = 0 THEN graph.entry = NoNode
             ELSE graph.entry \in 1 .. c /\ nodes[graph.entry].top = graph.top
        BY <1>1 DEF Sound, Shape, nodes
    <1>4. /\ graph.top \in Nat /\ graph.wild \in BOOLEAN /\ nodes \in Seq(NodeOf(c))
          /\ Len(nodes) = c /\ \A n \in 1 .. c : nodes[n] \in NodeOf(c)
        BY <1>2, GraphIs DEF nodes
    <1>5. graph.top \in Levels
        BY <1>3, <1>4, HnswAssumption DEF Levels
    <1>6. ASSUME NEW n \in 1 .. c
          PROVE  NodeLike(nodes[n], c)
        <2> DEFINE node == nodes[n]
        <2>1. /\ node \in NodeOf(c) /\ node.top <= graph.top
            BY <1>3, <1>4
        <2> HIDE DEF node
        <2>2. /\ node \in [doc : Docs, at : Points, top : Nat, deleted : BOOLEAN, neighbors : Lists(c)]
              /\ node.neighbors \in [0 .. node.top -> Seq(1 .. c)]
            BY <2>1 DEF NodeOf
        <2>3. node.top \in Levels
            BY <1>5, <1>4, <2>1, <2>2, HnswAssumption DEF Levels
        <2>4. node \in [doc : Docs, at : Points, top : Levels, deleted : BOOLEAN,
                        neighbors : [0 .. node.top -> Seq(1 .. c)]]
            BY <2>2, <2>3
        <2> QED
            BY <2>4 DEF NodeLike, node
    <1>7. nodes = <<>> <=> c = 0
        BY <1>4
    <1> QED
        BY <1>2, <1>3, <1>4, <1>5, <1>6, <1>7 DEF TypeOK

\* The index is typed: neighbours are nodes, and the entry point is one that
\* reaches up to the top layer, where every descent of insert and search starts.
THEOREM TypeCorrect == Spec => []TypeOK
    BY GraphInvariant, HInvTyped, PTL

\* connect_bidirectional and the pruning leave every list within the capacity
\* of its layer, 2 * M in layer 0 and M above.
THEOREM ListsStayBounded == Spec => []ListsBounded
    <1>1. HInv => ListsBounded
        <2> SUFFICES ASSUME HInv PROVE ListsBounded
            OBVIOUS
        <2>1. DOMAIN nodes = 1 .. Len(nodes) /\ Bounded(graph, Len(nodes))
            BY SoundIs DEF HInv, Sound, Shape, nodes
        <2> QED
            BY <2>1 DEF ListsBounded, Bounded, nodes
    <1> QED
        BY <1>1, GraphInvariant, PTL

\* Before any id is used a second time, insertions never access a neighbour list
\* that does not exist, and the layers link only nodes that reach up to them.
THEOREM LayersAreClosed == Spec => []LinksInLayer
    <1>1. HInv => LinksInLayer
        <2> SUFFICES ASSUME HInv, past \subseteq {"removed"}
                     PROVE  /\ ~graph.wild
                            /\ \A n \in DOMAIN nodes : \A l \in 0 .. nodes[n].top :
                                   \A m \in ToSet(nodes[n].neighbors[l]) : l <= nodes[m].top
            BY DEF LinksInLayer
        <2> DEFINE c == Len(nodes)
        <2>1. Sound(graph, c, past)
            BY DEF HInv
        <2>2. /\ DOMAIN nodes = 1 .. c /\ ~graph.wild /\ LinksIn(graph, c, Reach(graph, c))
              /\ graph \in GraphOf(c) /\ c \in Nat
            BY <2>1, SoundIs DEF Sound, UsedOnce, nodes
        <2> HIDE DEF c
        <2>3. ASSUME NEW n \in 1 .. c, NEW l \in 0 .. nodes[n].top,
                     NEW m \in ToSet(nodes[n].neighbors[l])
              PROVE  l <= nodes[m].top
            <3>1. m \in Reach(graph, c)[l]
                BY <2>2, <2>3 DEF LinksIn, nodes
            <3>2. l \in Nat
                <4>1. nodes[n].top \in Nat
                    BY <2>2, GraphIs DEF nodes
                <4> QED
                    BY <4>1
            <3> QED
                BY <3>1, <3>2 DEF Reach, nodes
        <2> QED
            BY <2>2, <2>3
    <1> QED
        BY <1>1, GraphInvariant, PTL

\* What a search returns is allowed by the filter and is the vector its document
\* has now, unless a document was inserted on top of itself.
THEOREM SearchesAreSound == Spec => []SearchIsSound
    <1>1. HInv => SearchIsSound
        <2> SUFFICES ASSUME HInv, "replaced" \notin past, NEW q \in Points,
                            NEW allowed \in Filters \cup {Docs}
                     PROVE  LET found == Search(graph, q, 1, 2, allowed)
                            IN  /\ Cardinality(found) <= 1
                                /\ \A n \in found : /\ nodes[n].doc \in allowed
                                                     /\ graph.idMap[nodes[n].doc] = n
            BY DEF SearchIsSound
        <2> DEFINE c == Len(nodes)
                   found == Search(graph, q, 1, 2, allowed)
        <2>1. Sound(graph, c, past)
            BY DEF HInv
        <2>2. c \in Nat /\ graph \in GraphOf(c)
            BY <2>1, SoundIs
        <2> HIDE DEF c
        <2>3. CASE graph.entry = NoNode
            <3>1. found = {}
                BY <2>3 DEF Search
            <3> QED
                BY <3>1, FS_EmptySet
        <2>4. CASE graph.entry # NoNode
            <3>1. found \in SUBSET (1 .. c) /\ \A n \in found : Accepts(graph, n, allowed)
                BY <2>2, <2>4, SearchIn
            <3>2. \A n \in found : nodes[n].doc \in allowed /\ graph.idMap[nodes[n].doc] = n
                BY <2>1, <3>1 DEF Accepts, Sound, LiveAreLed, nodes
            <3>3. Cardinality(found) <= 1
                <4>1. PICK all \in SUBSET (1 .. c) :
                          found = {n \in all : Cardinality({m \in all : Nearer(graph, q, m, n)}) < 1}
                    BY <2>2, <2>4, SearchIn
                <4> HIDE DEF found
                <4>2. \A n \in found : {m \in all : Nearer(graph, q, m, n)} = {}
                    <5> SUFFICES ASSUME NEW n \in found
                                 PROVE  {m \in all : Nearer(graph, q, m, n)} = {}
                        OBVIOUS
                    <5> DEFINE S == {m \in all : Nearer(graph, q, m, n)}
                    <5>1. S \in SUBSET (1 .. c) /\ Cardinality(S) < 1
                        BY <4>1
                    <5> HIDE DEF S
                    <5>2. IsFiniteSet(S) /\ Cardinality(S) \in Nat
                        BY <2>2, <5>1, FiniteNodes
                    <5>3. Cardinality(S) = 0
                        BY <5>1, <5>2
                    <5> QED
                        BY <5>2, <5>3, FS_EmptySet DEF S
                <4>3. \A m, n \in found : m = n
                    <5> SUFFICES ASSUME NEW m \in found, NEW n \in found, m # n PROVE FALSE
                        OBVIOUS
                    <5>1. m \in 1 .. c /\ n \in 1 .. c /\ m \in all /\ n \in all
                        BY <4>1
                    <5>2. Nearer(graph, q, m, n) \/ Nearer(graph, q, n, m)
                        BY <2>2, <5>1, NearerIsOrder
                    <5> QED
                        BY <4>2, <5>1, <5>2
                <4>4. CASE found = {}
                    BY <4>4, FS_EmptySet
                <4>5. CASE found # {}
                    <5>1. PICK n \in found : found = {n}
                        BY <4>3, <4>5
                    <5>2. Cardinality(found) = 1
                        BY <5>1, FS_Singleton
                    <5> QED
                        BY <5>2
                <4> QED
                    BY <4>4, <4>5
            <3> QED
                BY <3>2, <3>3
        <2> QED
            BY <2>3, <2>4
    <1> QED
        BY <1>1, GraphInvariant, PTL

\* Saving and loading keeps the documents of an index, unless one was inserted
\* on top of itself: load then takes the last vector that is not deleted.
THEOREM ReloadsKeep == Spec => []ReloadKeeps
    <1>1. HInv => ReloadKeeps
        BY LoadedSound DEF HInv, ReloadKeeps
    <1> QED
        BY <1>1, GraphInvariant, PTL

FInv == Together(graph, Len(nodes), past)

LEMMA InitFInv == Init => FInv
    <1> SUFFICES ASSUME Init PROVE FInv
        OBVIOUS
    <1>1. graph = EmptyGraph /\ Len(nodes) = 0
        BY DEF Init, nodes, EmptyGraph
    <1>2. 1 .. 0 = {}
        OBVIOUS
    <1> QED
        BY <1>1, <1>2 DEF FInv, Together, AllLive, Joined, Simple

LEMMA NextFInv == HInv /\ FInv /\ [Next]_vars => FInv'
    <1> SUFFICES ASSUME HInv, FInv, [Next]_vars PROVE FInv'
        OBVIOUS
    <1> DEFINE c == Len(nodes)
    <1>1. Sound(graph, c, past) /\ Together(graph, c, past)
        BY DEF HInv, FInv
    <1>2. DOMAIN nodes = 1 .. c /\ c \in Nat
        BY <1>1, SoundIs DEF nodes
    <1> HIDE DEF c
    <1>3. ASSUME NEW d \in Docs, NEW p \in Points, NEW level \in 0 .. MaxLevel,
                 Insert(d, p, level)
          PROVE  FInv'
        <2>1. CASE past' = {}
            <3> DEFINE r == Inserted(graph, d, p, level)
            <3>1. graph' = r /\ past = {} /\ Deed(d) = {}
                BY <1>3, <2>1 DEF Insert
            <3>2. graph.idMap[d] = NoNode /\ \A n \in 1 .. c : graph.nodes[n].doc # d
                BY <1>2, <3>1 DEF Deed, nodes
            <3>3. \A n \in 1 .. c : graph.nodes[n].at # p
                BY <1>2, <1>3 DEF Insert, Allowed, nodes
            <3>4. Sound(graph, c, {}) /\ Together(graph, c, {})
                BY <1>1, <3>1
            <3>5. Together(r, c + 1, {})
                BY <3>2, <3>3, <3>4, InsertedTogether
            <3>6. Len(r.nodes) = c + 1
                <4>1. Shape(r, c + 1, MaxLevel)
                    BY <1>2, <3>3, <3>4, HnswAssumption, InsertedIs DEF Sound
                <4> HIDE DEF r
                <4>2. r \in GraphOf(c + 1) /\ c + 1 \in Nat
                    BY <1>2, <4>1 DEF Shape
                <4> QED
                    BY <4>2, GraphIs
            <3> HIDE DEF r
            <3> QED
                BY <2>1, <3>1, <3>5, <3>6 DEF FInv, nodes
        <2>2. CASE past' # {}
            BY <2>2 DEF FInv, Together
        <2> QED
            BY <2>1, <2>2
    <1>4. ASSUME NEW d \in Docs, RemoveDoc(d)
          PROVE  FInv'
        BY <1>4 DEF RemoveDoc, FInv, Together
    <1>5. CASE Reload
        <2>1. CASE past = {}
            <3>1. graph' = graph /\ past' = past
                BY <1>1, <1>5, <2>1, LoadedSound DEF Reload
            <3> QED
                BY <1>1, <3>1 DEF FInv, nodes, c
        <2>2. CASE past # {}
            BY <1>5, <2>2 DEF Reload, FInv, Together
        <2> QED
            BY <2>1, <2>2
    <1>6. CASE UNCHANGED vars
        BY <1>1, <1>6 DEF vars, FInv, nodes, c
    <1> QED
        BY <1>3, <1>4, <1>5, <1>6 DEF Next

\* While documents are only added, and no more than fit in one list of layer 0
\* besides its owner, a search with a beam as wide as the index returns every
\* document: insert links each new node both ways to some node of layer 0, no list
\* is pruned, and searchLayer goes on until it has expanded all that it reaches.
THEOREM AddedAreFound == Spec => []AllFindable
    <1>1. HInv /\ FInv => AllFindable
        <2> SUFFICES ASSUME HInv, FInv, past = {} /\ Len(nodes) <= M0 + 1, NEW q \in Points
                     PROVE  Findable(q) = DOMAIN nodes
            BY DEF AllFindable
        <2> DEFINE c == Len(nodes)
        <2>1. Sound(graph, c, past) /\ Together(graph, c, past)
            BY DEF HInv, FInv
        <2>2. c \in Nat /\ Shape(graph, c, MaxLevel) /\ DOMAIN nodes = 1 .. c
            BY <2>1, SoundIs DEF Sound, nodes
        <2>3. AllLive(graph, c) /\ Joined(graph, c)
            BY <2>1 DEF Together
        <2> HIDE DEF c
        <2> DEFINE found == Accepted(graph, 1 .. c, Docs)
                   Before(n) == {m \in found : Nearer(graph, q, m, n)}
        <2>4. Search(graph, q, c, c, Docs) = {n \in found : Cardinality(Before(n)) < c}
            BY <2>2, <2>3, WideSearch
        <2>5. graph \in GraphOf(c)
            BY <2>2 DEF Shape
        <2>6. found = 1 .. c
            BY <2>2, <2>3, <2>5, GraphIs DEF Accepted, Accepts, AllLive
        <2>7. \A n \in 1 .. c : Cardinality(Before(n)) < c
            <3> HIDE DEF found
            <3> QED
                BY <2>2, <2>5, <2>6, FewerNearer
        <2> QED
            BY <2>2, <2>4, <2>6, <2>7 DEF Findable, c
    <1>2. Spec => [](HInv /\ FInv)
        BY InitHInv, NextHInv, InitFInv, NextFInv, PTL DEF Spec
    <1> QED
        BY <1>1, <1>2, PTL
=============================================================================
