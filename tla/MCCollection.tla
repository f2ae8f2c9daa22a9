---------------------------- MODULE MCCollection ----------------------------
(* Constants for model-checking Collection: two documents, and two         *)
(* payloads or one.                                                        *)
EXTENDS CollectionStore, TLC

CONSTANTS d1, d2, v1, v2

MCDocs == {d1, d2}
MCVecs == {v1, v2}
OneVec == {v1}

\* Documents are interchangeable, and so are payloads: no definition orders or
\* names them.
Symmetry == Permutations(MCDocs) \cup Permutations(MCVecs)
SymmetryOfDocs == Permutations(MCDocs)

\* What becomes of metadata decides nothing else: states that differ only there
\* are one state for a property that does not look at it.
BesidesMetadata ==
    <<wal, configFile, metaFile.torn, manifest, segments, mutable, nextId,
      loader, pc, call, truth, careless>>
=============================================================================
