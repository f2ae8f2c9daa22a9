--------------------------------- MODULE Ivf ---------------------------------
(***************************************************************************)
(* indexes/ivf and indexes/ivf_hnsw: an IVFIndex or an IVFHNSWIndex, from  *)
(* training through insertions to saves, crashes and loads.                *)
(*                                                                         *)
(* Simplifications:                                                        *)
(*  - The metric is L2, and a document is its vector: Docs = Points.       *)
(*  - A document is not inserted while a search could find it.             *)
(*  - A file is written in one step; a process can end between two files.  *)
(***************************************************************************)
EXTENDS KMeans, HnswGraph

CONSTANTS
    MaxLevel,      \* bound: levels that are drawn
    Retrainings,   \* bound: the sets among Trainings for a later training
    MaxTrainings,  \* bound: how often an index is trained
    MaxCount       \* bound: insertions

ASSUME IvfAssumption ==
    /\ Docs = Points
    /\ {MaxLevel, MaxTrainings, MaxCount} \subseteq Nat
    /\ Retrainings \subseteq Trainings

VARIABLES
    kind,     \* "IVF" or "IVF_HNSW"
    index,    \* the members, see Untrained
    disk,     \* the files: meta, and for IVF_HNSW one for each cell
    writing,  \* the cell whose file the running save writes next, or 0
    rounds,   \* history: trainings so far
    saved     \* history: the documents the last finished save had

vars == <<training, kind, index, disk, writing, rounds, saved>>

NoFile == [round |-> 0]

\* quantizer: centroids_.  vectors: vectors_ and doc_ids_.  cells: lists_ of
\* slots of vectors, or cluster_indexes_.  count: num_vectors_.  round: history,
\* the training that centroids and cells come from, 0 if that is not one.
EmptyCell == IF kind = "IVF" THEN <<>> ELSE EmptyGraph

Untrained == [trained |-> FALSE, quantizer |-> <<>>, vectors |-> <<>>,
              cells |-> <<>>, count |-> 0, round |-> 0]

\* The documents a cell has, for a search.
DocsOf(cell) ==
    IF kind = "IVF" THEN {index.vectors[slot] : slot \in ToSet(cell)}
    ELSE {cell.nodes[n].doc : n \in DOMAIN cell.nodes}

Held == UNION {DocsOf(index.cells[c]) : c \in DOMAIN index.cells}

Init ==
    /\ KMeansInit
    /\ kind \in {"IVF", "IVF_HNSW"}
    /\ index = Untrained
    /\ disk = [meta |-> NoFile, cell |-> [c \in Cell |-> NoFile]]
    /\ writing = 0
    /\ rounds = 0
    /\ saved = [docs |-> {}, round |-> 0]

Ready == phase = "none" /\ writing = 0

-----------------------------------------------------------------------------
(* train                                                                   *)

Train(set) ==
    /\ Ready
    /\ rounds < MaxTrainings
    /\ rounds > 0 => set \in Retrainings
    /\ Begin(set)
    /\ UNCHANGED <<kind, index, disk, writing, rounds, saved>>

\* One step of kmeans_train.
Iterate == KMeansNext /\ UNCHANGED <<kind, index, disk, writing, rounds, saved>>

\* Mutant: the lists stay.
AdoptOnly ==
    /\ phase = "done"
    /\ index' = [index EXCEPT !.trained = TRUE, !.quantizer = centroids,
                              !.cells = IF @ = <<>> THEN [c \in Cell |-> EmptyCell] ELSE @,
                              !.round = rounds + 1]
    /\ rounds' = rounds + 1
    /\ Reset
    /\ UNCHANGED <<kind, disk, writing, saved>>

\* Mutant: the count starts again, the arrays do not.
AdoptRecount ==
    /\ phase = "done"
    /\ index' = [index EXCEPT !.trained = TRUE, !.quantizer = centroids, !.count = 0,
                              !.cells = [c \in Cell |-> EmptyCell],
                              !.round = rounds + 1]
    /\ rounds' = rounds + 1
    /\ Reset
    /\ UNCHANGED <<kind, disk, writing, saved>>

\* The end of train: cells start empty, stored vectors and their count stay.
Adopt ==
    /\ phase = "done"
    /\ index' = [index EXCEPT !.trained = TRUE, !.quantizer = centroids,
                              !.cells = [c \in Cell |-> EmptyCell],
                              !.round = rounds + 1]
    /\ rounds' = rounds + 1
    /\ Reset
    /\ UNCHANGED <<kind, disk, writing, saved>>

-----------------------------------------------------------------------------
(* insert and search                                                       *)

\* An index that is not trained throws.
Insert(p, level) ==
    LET c == NearestCentroid(p, index.quantizer)
    IN  /\ Ready
        /\ index.trained
        /\ p \notin Held
        /\ index.count < MaxCount
        /\ \/ /\ kind = "IVF" /\ level = 0
              /\ index' = [index EXCEPT !.vectors = Append(@, p), !.count = @ + 1,
                                        !.cells[c] = Append(@, index.count + 1)]
           \/ /\ kind = "IVF_HNSW"
              /\ index' = [index EXCEPT !.cells[c] = Inserted(@, p, p, level),
                                        !.count = @ + 1]
        /\ UNCHANGED <<training, kind, disk, writing, rounds, saved>>

\* What a search of one cell contributes.
FoundIn(cell, q, topK, efSearch, allowed) ==
    IF kind = "IVF" THEN DocsOf(cell) \cap allowed
    ELSE {cell.nodes[n].doc : n \in Search(cell, q, topK, efSearch, allowed)}

\* The nearest topK of what the probed cells contribute.
SearchCells(q, topK, efSearch, nprobe, allowed) ==
    LET found == UNION {FoundIn(index.cells[c], q, topK, efSearch, allowed) :
                           c \in NearestCentroids(q, index.quantizer, nprobe)}
    IN  {p \in found : Cardinality({r \in found : Gap(q, r) < Gap(q, p)}) < topK}

-----------------------------------------------------------------------------
(* save and load                                                           *)

\* The file of an IVFIndex, or the first one of an IVFHNSWIndex.
SaveMeta ==
    /\ Ready
    /\ index.trained
    /\ disk' = [disk EXCEPT !.meta =
                   IF kind = "IVF" THEN index ELSE [index EXCEPT !.cells = <<>>]]
    /\ IF kind = "IVF"
       THEN writing' = 0 /\ saved' = [docs |-> Held, round |-> index.round]
       ELSE writing' = 1 /\ UNCHANGED saved
    /\ UNCHANGED <<training, kind, index, rounds>>

\* The file of one cell.
SaveCell ==
    /\ writing # 0
    /\ disk' = [disk EXCEPT !.cell[writing] =
                   [graph |-> index.cells[writing], round |-> index.round]]
    /\ writing' = IF writing = Cells THEN 0 ELSE writing + 1
    /\ saved' = IF writing = Cells THEN [docs |-> Held, round |-> index.round] ELSE saved
    /\ UNCHANGED <<training, kind, index, rounds>>

\* A file that is not there is an empty cell.
LoadedCell(file) == IF file = NoFile THEN EmptyCell ELSE Loaded(file.graph)

\* Whether the cells were filled under the centroids in meta.  They were not if
\* a save behind a second training was interrupted.
Coherent ==
    \A c \in Cell : disk.cell[c] # NoFile => disk.cell[c].round = disk.meta.round

\* The process ends, at any moment, and another one loads what is there.  An end
\* in the middle of a training is one before it.
Reopen ==
    /\ phase = "none"
    /\ disk.meta # NoFile
    /\ index' = IF kind = "IVF" THEN disk.meta
                ELSE [disk.meta EXCEPT !.cells = [c \in Cell |-> LoadedCell(disk.cell[c])],
                                       !.round = IF Coherent THEN @ ELSE 0]
    /\ writing' = 0
    /\ UNCHANGED <<training, kind, disk, rounds, saved>>

-----------------------------------------------------------------------------
Next ==
    \/ \E set \in Trainings : Train(set)
    \/ Iterate
    \/ Adopt
    \/ \E p \in Points, level \in 0 .. MaxLevel : Insert(p, level)
    \/ SaveMeta
    \/ SaveCell
    \/ Reopen

Spec == Init /\ [][Next]_vars

-----------------------------------------------------------------------------
(* Properties                                                              *)

\* Type invariant; the arrays of an IVFIndex are as long as its count says, and
\* however trainings, crashes and loads follow each other, no index has more
\* documents than it counts.
TypeOK ==
    /\ phase \in {"none", "seed", "assign", "update", "done"}
    /\ Len(centroids) <= Cells /\ iteration <= MaxIter
    /\ assigned \in [DOMAIN data -> Cell]
    /\ index.trained <=> Len(index.quantizer) = Cells
    /\ index.trained <=> Len(index.cells) = Cells
    /\ writing \in 0 .. Cells
    /\ kind = "IVF" => Len(index.vectors) = index.count
    /\ Cardinality(Held) <= index.count

Wide == Cardinality(Points)

NearestOf(S, q, k) == {p \in S : Cardinality({r \in S : Gap(q, r) < Gap(q, p)}) < k}

\* A vector is inserted by one rule for the nearest centroid and looked for by
\* another.  They agree, on ties and on duplicate centroids too: a search for a
\* vector finds it in the first cell it probes.  A search that probes all cells is
\* exact, whatever trim a cell makes of its own.  And what a save has finished,
\* no interrupted save takes away.  All of this unless the cells belong to
\* another training than the centroids.
SearchIsExact ==
    Ready /\ index.round # 0 =>
        LET held == Held
        IN  /\ \A p \in held : SearchCells(p, 1, Wide, 1, Points) = {p}
            /\ \A q, out \in Points, topK \in 1 .. 2 :
                   SearchCells(q, topK, Wide, Cells, Points \ {out}) =
                       NearestOf(held \ {out}, q, topK)
            /\ saved.round = index.round => saved.docs \subseteq held
=============================================================================
