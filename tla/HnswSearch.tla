----------------------------- MODULE HnswSearch -----------------------------
(***************************************************************************)
(* indexes/hnsw: searches of one HNSWIndex that overlap, in steps, with a  *)
(* thread that inserts.  All searches mark one array, visited_, each with  *)
(* a generation of its own; insert grows the arrays before it locks.       *)
(*                                                                         *)
(* The Python binding runs one call at a time.  This is the class as       *)
(* hnsw_index.hpp offers it to C++ threads: searches under a shared lock,  *)
(* insertions under an exclusive one.                                      *)
(*                                                                         *)
(* Simplifications:                                                        *)
(*  - Between two accesses to visited_ a search is on its own: a step      *)
(*    starts a layer, or visits one neighbour, and whatever follows.       *)
(*  - A mark is tested and set in one step: another search's mark that     *)
(*    comes between the two does what it does when it comes before both.   *)
(*  - Searches that run while the arrays are reallocated have undefined    *)
(*    results, and nothing is said about them.                             *)
(*  - An insertion marks some of the nodes, with its last generation.      *)
(***************************************************************************)
EXTENDS HnswGraph

CONSTANTS
    Searchers,    \* threads that search
    Requests,     \* what they ask for: a vector q, topK, the documents allowed
    EfSearch,
    Generations,  \* values of the generation counter, 2^32 in the code
    StartSize,    \* bound: vectors in the index that was loaded
    MaxSize,      \* bound: vectors there are in the end
    MaxLevel,     \* bound: levels that are drawn
    MaxSearches,  \* bound: searches there are
    MaxOpen       \* bound: candidates a search has at a time

\* The documents of the nodes are numbered in the order of insertion.
ASSUME SearchAssumption ==
    /\ Docs \subseteq Nat
    /\ Requests \subseteq [q : Points, topK : Nat \ {0}, allowed : SUBSET Docs]
    /\ {EfSearch, StartSize} \subseteq Nat \ {0}
    /\ Generations \in Nat \ {0, 1}
    /\ {MaxSize, MaxLevel, MaxSearches, MaxOpen} \subseteq Nat
    /\ 1 .. StartSize \subseteq Docs /\ 1 .. MaxSize \subseteq Docs

VARIABLES
    graph,     \* what the lock protects
    capacity,  \* vectors the arrays have room for
    growing,   \* whether an insertion has grown the arrays and waits for the lock
    marks,     \* visited_
    gen,       \* current_gen_
    search,    \* what each searcher is doing
    begun,     \* how many searches have begun
    wrapped    \* history: the generations have started again

vars == <<graph, capacity, growing, marks, gen, search, begun, wrapped>>

NoRequest == [q |-> 0, topK |-> 0, allowed |-> {}]

Idle == [pc |-> "idle", ask |-> NoRequest, layer |-> 0, ep |-> NoNode,
         gen |-> 0, open |-> <<>>, todo |-> <<>>, found |-> <<>>,
         alone |-> FALSE, clean |-> TRUE]

Active == {s \in Searchers : search[s].pc # "idle"}

\* Every index of StartSize vectors that was built in order of document ids.
Built ==
    LET Extended(g) == {Inserted(g, Len(g.nodes) + 1, p, level) :
                           p \in {r \in Points : \A n \in DOMAIN g.nodes : g.nodes[n].at # r},
                           level \in 0 .. MaxLevel}
        Add(G) == UNION {Extended(g) : g \in G}
        after[i \in 0 .. StartSize] == IF i = 0 THEN {EmptyGraph} ELSE Add(after[i - 1])
    IN  after[StartSize]

\* load: no capacity to spare, room for twice as many marks, none made.
Init ==
    /\ graph \in {Loaded(g) : g \in Built}
    /\ capacity = StartSize
    /\ growing = FALSE
    /\ marks = [n \in 1 .. 2 * StartSize |-> 0]
    /\ gen = 1
    /\ search = [s \in Searchers |-> Idle]
    /\ begun = 0
    /\ wrapped = FALSE

-----------------------------------------------------------------------------
(* search: the lock, and layer after layer                                 *)

\* A search that finds the index empty returns at once.
Begin(s, ask) ==
    /\ search[s].pc = "idle"
    /\ begun < MaxSearches
    /\ graph.entry # NoNode /\ ~graph.wild
    /\ search' = [t \in Searchers |->
                     IF t = s
                     THEN [Idle EXCEPT !.pc = "layer", !.ask = ask, !.layer = graph.top,
                                       !.ep = graph.entry, !.alone = (Active = {})]
                     ELSE [search[t] EXCEPT !.alone = FALSE]]
    /\ begun' = begun + 1
    /\ UNCHANGED <<graph, capacity, growing, marks, gen, wrapped>>

\* Only layer 0 has the filter and a beam wider than one.
AllowedNow(w) == IF w.layer = 0 THEN w.ask.allowed ELSE Docs
Beam(w)       == IF w.layer = 0 THEN Greater(EfSearch, w.ask.topK) ELSE 1

\* Heaps are sequences, nearest first.  A node can be in one more than once.
Pushed(heap, q, n) ==
    LET nearer == Cardinality({i \in DOMAIN heap : Nearer(graph, q, heap[i], n)})
    IN  InsertAt(heap, nearer + 1, n)

Full(w) == w.found # <<>> /\ Len(w.found) >= Beam(w)

\* No candidate, or none that could improve a full result.
LayerDone(w) ==
    w.open # <<>> => Full(w) /\ Nearer(graph, w.ask.q, Last(w.found), Head(w.open))

\* Mutant: the candidate stays in the heap.
TakenAgain(w) ==
    LET node == Resolved(graph, Head(w.open))
    IN  [w EXCEPT !.pc = "visit",
                  !.todo = IF node = NoNode \/ w.layer > graph.nodes[node].top THEN <<>>
                           ELSE graph.nodes[node].neighbors[w.layer]]

\* The next candidate is taken and resolved to a list of neighbours.
Taken(w) ==
    LET node == Resolved(graph, Head(w.open))
    IN  [w EXCEPT !.pc = "visit", !.open = Tail(@),
                  !.todo = IF node = NoNode \/ w.layer > graph.nodes[node].top THEN <<>>
                           ELSE graph.nodes[node].neighbors[w.layer]]

\* Down to the next layer, or the results in order, topK of them at most.
Closed(w) ==
    IF w.layer > 0
    THEN [w EXCEPT !.pc = "layer", !.layer = @ - 1, !.open = <<>>, !.found = <<>>,
                   !.ep = Follow(graph, w.ask.q, @, ToSet(w.found))]
    ELSE [w EXCEPT !.pc = "return", !.open = <<>>,
                   !.found = SubSeq(@, 1, Lesser(Len(@), w.ask.topK))]

\* On to the next neighbour, the next candidate, or the end of the layer.
Advanced(w) ==
    IF w.todo # <<>> THEN w ELSE IF LayerDone(w) THEN Closed(w) ELSE Taken(w)

\* w after generation g was opened for its layer.
Opened(w, g) ==
    [w EXCEPT !.gen = g, !.open = <<w.ep>>,
              !.found = IF Accepts(graph, w.ep, AllowedNow(w)) THEN <<w.ep>> ELSE <<>>,
              !.clean = @ /\ \A n \in DOMAIN graph.nodes : marks[n] # g]

\* w after a look at its next neighbour.
Visited(w) ==
    LET n == Head(w.todo)
        wanted == Len(w.found) < Beam(w) \/ Nearer(graph, w.ask.q, n, Last(w.found))
        counts == wanted /\ Accepts(graph, n, AllowedNow(w))
        found  == Pushed(w.found, w.ask.q, n)
    IN  IF marks[n] = w.gen THEN [w EXCEPT !.todo = Tail(@)]
        ELSE [w EXCEPT !.todo  = Tail(@),
                       !.open  = IF wanted THEN Pushed(@, w.ask.q, n) ELSE @,
                       !.found = IF counts THEN SubSeq(found, 1, Lesser(Len(found), Beam(w)))
                                 ELSE @]

\* Searcher s, now at w, goes on.
Resume(s, w) == search' = [search EXCEPT ![s] = Advanced(w)]

\* Mutant: the generation stays.
OpenLayerAgain(s) ==
    /\ search[s].pc = "layer"
    /\ marks' = [marks EXCEPT ![search[s].ep] = gen]
    /\ \E w \in {Opened(search[s], gen)} : Resume(s, w)
    /\ UNCHANGED <<graph, capacity, growing, gen, begun, wrapped>>

\* A new generation, and the mark of the entry point.
OpenLayer(s) ==
    /\ search[s].pc = "layer"
    /\ gen' = (gen + 1) % Generations
    /\ wrapped' = (wrapped \/ gen' = 0)
    /\ marks' = [marks EXCEPT ![search[s].ep] = gen']
    /\ \E w \in {Opened(search[s], gen')} : Resume(s, w)
    /\ UNCHANGED <<graph, capacity, growing, begun>>

\* One neighbour.  Another search's mark on it looks like none.
Visit(s) ==
    /\ search[s].pc = "visit" /\ search[s].todo # <<>>
    /\ Len(search[s].open) < MaxOpen
    /\ marks' = [marks EXCEPT ![Head(search[s].todo)] = search[s].gen]
    /\ \E w \in {Visited(search[s])} : Resume(s, w)
    /\ UNCHANGED <<graph, capacity, growing, gen, begun, wrapped>>

\* A candidate without neighbours in the layer.
Skip(s) ==
    /\ search[s].pc = "visit" /\ search[s].todo = <<>>
    /\ search' = [search EXCEPT ![s] = Advanced(@)]
    /\ UNCHANGED <<graph, capacity, growing, marks, gen, begun, wrapped>>

\* The lock is released.
Leave(s) ==
    /\ search[s].pc \in {"return", "undefined"}
    /\ search' = [search EXCEPT ![s] = Idle]
    /\ UNCHANGED <<graph, capacity, growing, marks, gen, begun, wrapped>>

-----------------------------------------------------------------------------
(* insert                                                                  *)

\* Mutant: the marks do not grow along.
GrowMarksLess ==
    LET size == Len(graph.nodes)
    IN  /\ ~growing /\ ~graph.wild
        /\ size < MaxSize
        /\ growing' = TRUE
        /\ capacity' = IF size >= capacity THEN 2 * capacity ELSE capacity
        /\ UNCHANGED <<graph, marks, gen, search, begun, wrapped>>

\* The arrays grow, whoever is searching.  A reallocation pulls them from under
\* the searches that run; what is written into the new room nobody reads yet.
Grow ==
    LET size == Len(graph.nodes)
        moved == size >= capacity \/ size >= Len(marks)
    IN  /\ ~growing /\ ~graph.wild
        /\ size < MaxSize
        /\ growing' = TRUE
        /\ capacity' = IF size >= capacity THEN 2 * capacity ELSE capacity
        /\ marks' = IF size >= Len(marks)
                    THEN [n \in 1 .. 2 * (size + 1) |-> IF n <= Len(marks) THEN marks[n] ELSE 0]
                    ELSE marks
        /\ search' = [s \in Searchers |->
               IF moved /\ s \in Active THEN [Idle EXCEPT !.pc = "undefined"] ELSE search[s]]
        /\ UNCHANGED <<graph, gen, begun, wrapped>>

\* Mutant: the insertion does not wait for the searches.
LinkAtOnce(p, level) ==
    LET size == Len(graph.nodes)
        used == graph.top + 1
        g    == (gen + used) % Generations
    IN  /\ growing
        /\ \A n \in DOMAIN graph.nodes : graph.nodes[n].at # p
        /\ graph' = Inserted(graph, size + 1, p, level)
        /\ gen' = g
        /\ wrapped' = (wrapped \/ gen + used >= Generations)
        /\ \E touched \in SUBSET (1 .. size) \ {{}} :
               marks' = [n \in DOMAIN marks |-> IF n \in touched THEN g ELSE marks[n]]
        /\ growing' = FALSE
        /\ UNCHANGED <<capacity, search, begun>>

\* The lock, and the insertion proper, which searches every layer once.
Link(p, level) ==
    LET size == Len(graph.nodes)
        used == graph.top + 1
        g    == (gen + used) % Generations
    IN  /\ growing
        /\ Active = {}
        /\ \A n \in DOMAIN graph.nodes : graph.nodes[n].at # p
        /\ graph' = Inserted(graph, size + 1, p, level)
        /\ gen' = g
        /\ wrapped' = (wrapped \/ gen + used >= Generations)
        /\ \E touched \in SUBSET (1 .. size) \ {{}} :
               marks' = [n \in DOMAIN marks |-> IF n \in touched THEN g ELSE marks[n]]
        /\ growing' = FALSE
        /\ UNCHANGED <<capacity, search, begun>>

-----------------------------------------------------------------------------
Step(s) == OpenLayer(s) \/ Visit(s) \/ Skip(s) \/ Leave(s)

Next ==
    \/ \E s \in Searchers :
           Step(s) \/ \E ask \in Requests : Begin(s, ask)
    \/ Grow
    \/ \E p \in Points, level \in 0 .. MaxLevel : Link(p, level)

\* Threads that have begun a search are given the processor.
Spec == Init /\ [][Next]_vars /\ \A s \in Searchers : WF_vars(Step(s))

-----------------------------------------------------------------------------
(* Properties                                                              *)

PCs == {"idle", "layer", "visit", "return", "undefined"}

\* Type invariant; heaps are in order and as long as they may be, no node a
\* search holds is beyond the arrays.
TypeOK ==
    LET size == Len(graph.nodes) + IF growing THEN 1 ELSE 0
    IN  /\ size <= capacity /\ size <= Len(marks)
        /\ marks \in [DOMAIN marks -> 0 .. Generations - 1]
        /\ gen \in 0 .. Generations - 1
        /\ \A s \in Searchers :
               LET w == search[s]
               IN  /\ w.pc \in PCs
                   /\ w.layer \in 0 .. MaxLevel
                   /\ ToSet(w.open) \cup ToSet(w.todo) \cup ToSet(w.found)
                          \subseteq DOMAIN graph.nodes
                   /\ Len(w.found) <= Greater(EfSearch, w.ask.topK)
                   /\ \A i \in 2 .. Len(w.found) :
                          ~Nearer(graph, w.ask.q, w.found[i], w.found[i - 1])

Result(w) == ToSet(w.found)

Expected(w) == Search(graph, w.ask.q, w.ask.topK, EfSearch, w.ask.allowed)

Returning(s) == search[s].pc = "return"

Distinct(seq) == Cardinality(ToSet(seq)) = Len(seq)

\* A search that overlapped with no other returns what the graph gives, each
\* document once, whatever marks earlier searches, insertions and copies of the
\* array have left, and whatever an insertion that waits for the lock has done,
\* unless the generations have started again and a node carries an old mark.
AloneExact ==
    \A s \in Searchers :
        LET w == search[s]
        IN  Returning(s) /\ w.alone /\ (w.clean \/ ~wrapped) =>
                Distinct(w.found) /\ Result(w) = Expected(w)

\* Searches that overlap overwrite each other's marks and visit nodes again:
\* before the generations have started again, a document that one of them does
\* not return has lost its place to a repetition of another, if the beam is as
\* wide as the graph.
OnlyRepeatsHide ==
    \A s \in Searchers :
        LET w == search[s]
        IN  Returning(s) /\ ~wrapped /\ Distinct(w.found) /\ w.ask.topK >= Len(graph.nodes) =>
                Result(w) = Expected(w)

\* Visiting nodes again ends: a search without a filter returns.
SearchesReturn ==
    \A s \in Searchers :
        []<>(search[s].pc = "idle" \/ search[s].ask.allowed # Docs)
=============================================================================
