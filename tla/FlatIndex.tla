----------------------------- MODULE FlatIndex -----------------------------
(***************************************************************************)
(* indexes/flat_index: brute-force search over an array of vectors.  An    *)
(* index is a record of its members; a vector is a number and the distance *)
(* is the difference.  Slots are numbered from 1.                          *)
(***************************************************************************)
EXTENDS Naturals, Sequences, FiniteSets

CONSTANTS
    Docs,    \* document ids
    Points,  \* the vectors
    Invalid  \* INVALID_DOC_ID

ASSUME FlatAssumption == Points \subseteq Nat /\ Invalid \notin Docs

Dist(p, q) == IF p < q THEN q - p ELSE p - q

\* The order of results is settled: no two points are as far from a third.
NoTies == \A p, q, r \in Points : Dist(p, q) = Dist(p, r) => q = r

\* A result: a document and the vector it was found with.
Hit == [doc : Docs, at : Points]

\* What a heap of size k that has seen all hits of S holds.
Nearest(S, q, k) ==
    {h \in S : Cardinality({g \in S : Dist(q, g.at) < Dist(q, h.at)}) < k}

EmptyFlat == [data |-> <<>>, ids |-> <<>>, slotOf |-> [d \in Docs |-> 0], size |-> 0]

\* resize cuts data_ behind the new vector, ids_ just grows.
FlatInsert(ix, d, p) ==
    [data   |-> Append(SubSeq(ix.data, 1, ix.size), p),
     ids    |-> Append(ix.ids, d),
     slotOf |-> [ix.slotOf EXCEPT ![d] = ix.size + 1],
     size   |-> ix.size + 1]

\* Mutant: a document that is not there is not noticed.
FlatRemoveUnguarded(ix, d) ==
    [data   |-> ix.data,
     ids    |-> [ix.ids EXCEPT ![ix.slotOf[d]] = Invalid],
     slotOf |-> [ix.slotOf EXCEPT ![d] = 0],
     size   |-> ix.size - 1]

\* The tombstone, and a decrement of the number that bounds the scan and places
\* the next vector.
FlatRemove(ix, d) ==
    IF ix.slotOf[d] = 0 THEN ix
    ELSE [data   |-> ix.data,
          ids    |-> [ix.ids EXCEPT ![ix.slotOf[d]] = Invalid],
          slotOf |-> [ix.slotOf EXCEPT ![d] = 0],
          size   |-> ix.size - 1]

\* What a scan comes across.
FlatHits(ix) ==
    {[doc |-> ix.ids[i], at |-> ix.data[i]] : i \in {j \in 1 .. ix.size : ix.ids[j] # Invalid}}

FlatSearch(ix, q, k, allowed) == Nearest({h \in FlatHits(ix) : h.doc \in allowed}, q, k)
=============================================================================
