------------------------------- MODULE KMeans -------------------------------
(***************************************************************************)
(* indexes/ivf/kmeans: k-means++ and Lloyd's algorithm, step by step.      *)
(*                                                                         *)
(* Simplifications:                                                        *)
(*  - A vector is a number, and arithmetic is exact: a centroid is a sum   *)
(*    and a count.                                                         *)
(*  - A weighted draw is any draw of positive weight; if there is none,    *)
(*    any draw.                                                            *)
(*  - Training data is sorted: nothing depends on its order but draws.     *)
(***************************************************************************)
EXTENDS Naturals, Sequences, FiniteSets, SequencesExt

CONSTANTS
    Cells,     \* k, the number of centroids: nlist of the index
    MaxIter,   \* KMEANS_DEFAULT_MAX_ITER
    Trainings  \* bound: the sets of vectors to train with, sorted

ASSUME KMeansAssumption ==
    /\ {Cells, MaxIter} \subseteq Nat \ {0}
    /\ Trainings \subseteq Seq(Nat)
    /\ \A set \in Trainings : Len(set) >= Cells

VARIABLES
    phase,      \* where kmeans_train is: "none", "seed", "assign", "update" or "done"
    data,       \* the training set
    centroids,  \* those there are so far
    assigned,   \* assignments, the cell of each vector
    iteration   \* result.iterations

training == <<phase, data, centroids, assigned, iteration>>

Cell == 1 .. Cells

\* One in how many vectors may still move at the end: 1 / KMEANS_DEFAULT_TOL.
Tol == 10000

Gap(m, n) == IF m < n THEN n - m ELSE m - n

\* A vector as a centroid, and the mean of some of the data.
At(p) == [sum |-> p, count |-> 1]

MeanOf(members) ==
    [sum   |-> MapThenSumSet(LAMBDA i : data[i], members),
     count |-> Cardinality(members)]

\* The squared distance is Off(p, c) / c.count, squared.
Off(p, c) == Gap(p * c.count, c.sum)

Closer(p, a, b) == Off(p, a) * b.count < Off(p, b) * a.count

\* The cell of p, the first of the nearest.
NearestCentroid(p, seq) ==
    CHOOSE c \in DOMAIN seq : \A d \in DOMAIN seq :
        IF d < c THEN Closer(p, seq[c], seq[d]) ELSE ~Closer(p, seq[d], seq[c])

\* The nprobe nearest cells, by distance and then by number.
NearestCentroids(p, seq, nprobe) ==
    LET Before(c, d) == \/ Closer(p, seq[c], seq[d])
                        \/ ~Closer(p, seq[d], seq[c]) /\ c < d
    IN  {c \in DOMAIN seq : Cardinality({d \in DOMAIN seq : Before(d, c)}) < nprobe}

-----------------------------------------------------------------------------
KMeansInit ==
    /\ phase = "none"
    /\ data = <<>> /\ centroids = <<>> /\ assigned = <<>>
    /\ iteration = 0

\* The locals of kmeans_train are gone.
Reset ==
    /\ phase' = "none"
    /\ data' = <<>> /\ centroids' = <<>> /\ assigned' = <<>>
    /\ iteration' = 0

\* Fewer vectors than cells throw.
Begin(set) ==
    /\ phase = "none"
    /\ phase' = "seed"
    /\ data' = set
    /\ assigned' = [i \in DOMAIN set |-> 1]
    /\ UNCHANGED <<centroids, iteration>>

\* kmeans_plus_plus_init: one more centroid.
Seed ==
    LET apart == {i \in DOMAIN data :
                     \A c \in DOMAIN centroids : Off(data[i], centroids[c]) > 0}
    IN  /\ phase = "seed"
        /\ \E i \in IF apart = {} THEN DOMAIN data ELSE apart :
               centroids' = Append(centroids, At(data[i]))
        /\ phase' = IF Len(centroids) + 1 = Cells THEN "assign" ELSE "seed"
        /\ UNCHANGED <<data, assigned, iteration>>

\* Mutant: one vector that moves does not matter.
AssignLoose ==
    LET nearest == [i \in DOMAIN data |-> NearestCentroid(data[i], centroids)]
        changes == Cardinality({i \in DOMAIN data : nearest[i] # assigned[i]})
    IN  /\ phase = "assign"
        /\ assigned' = nearest
        /\ iteration' = iteration + 1
        /\ phase' = IF changes <= 1 THEN "done" ELSE "update"
        /\ UNCHANGED <<data, centroids>>

\* Every vector to its nearest centroid.  The last iteration is one in which
\* less than one vector in Tol moves.
Assign ==
    LET nearest == [i \in DOMAIN data |-> NearestCentroid(data[i], centroids)]
        changes == Cardinality({i \in DOMAIN data : nearest[i] # assigned[i]})
    IN  /\ phase = "assign"
        /\ assigned' = nearest
        /\ iteration' = iteration + 1
        /\ phase' = IF changes * Tol < Len(data) THEN "done" ELSE "update"
        /\ UNCHANGED <<data, centroids>>

Members(c) == {i \in DOMAIN data : assigned[i] = c}

Empty == {c \in Cell : Members(c) = {}}

\* Mutant: the old centroids are not cleared before vectors are added.
UpdateUncleared ==
    /\ phase = "update"
    /\ \E drawn \in [Empty -> DOMAIN data] :
           centroids' = [c \in Cell |->
               IF c \in Empty THEN At(data[drawn[c]])
               ELSE [MeanOf(Members(c)) EXCEPT !.sum = @ + centroids[c].sum]]
    /\ phase' = IF iteration = MaxIter THEN "done" ELSE "assign"
    /\ UNCHANGED <<data, assigned, iteration>>

\* Means; the centroid of an empty cell becomes any vector.
Update ==
    /\ phase = "update"
    /\ \E drawn \in [Empty -> DOMAIN data] :
           centroids' = [c \in Cell |-> IF c \in Empty THEN At(data[drawn[c]])
                                        ELSE MeanOf(Members(c))]
    /\ phase' = IF iteration = MaxIter THEN "done" ELSE "assign"
    /\ UNCHANGED <<data, assigned, iteration>>

KMeansNext == Seed \/ Assign \/ Update

-----------------------------------------------------------------------------
(* Properties                                                              *)

\* The sum of squared distances to the nearest centroids, in whole numbers:
\* every count divides scale.
Inertia(seq) ==
    LET scale == FoldLeft(LAMBDA product, n : product * n, 1, [n \in DOMAIN data |-> n])
        Part(i) == LET c == seq[NearestCentroid(data[i], seq)]
                   IN  Off(data[i], c) * (scale \div c.count)
        squares == [i \in DOMAIN data |-> Part(i) * Part(i)]
    IN  MapThenSumSet(LAMBDA i : squares[i], DOMAIN data)

\* No iteration makes the clustering worse, whatever was drawn for empty cells.
InertiaFalls ==
    [][phase = "update" /\ phase' # "none" => Inertia(centroids') <= Inertia(centroids)]_training

\* Training converges long before it is cut off, also through ties, duplicates
\* and empty cells: in the end every vector is in the cell of its nearest
\* centroid, and centroids are the means of their cells.  The exception is data
\* of which no vector ever moved from the cell all are said to be in at first.
Trained ==
    phase = "done" =>
        /\ \A i \in DOMAIN data : assigned[i] = NearestCentroid(data[i], centroids)
        /\ iteration = 1 => Members(1) = DOMAIN data
        /\ iteration > 1 => \A c \in Cell \ Empty :
               LET mean == MeanOf(Members(c))
               IN  mean.sum * centroids[c].count = centroids[c].sum * mean.count
=============================================================================
