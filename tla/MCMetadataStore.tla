-------------------------- MODULE MCMetadataStore --------------------------
(* Constants for model-checking MetadataStore.                             *)
EXTENDS MetadataStore, TLC

CONSTANTS i1, i2, red, blue, w1, w2

MCIds  == {i1, i2}
MCTags == {red, blue}
MCWriters == {w1, w2}

\* red and blue are values of two fields: a document can have both.
MCMetas == {{red}, {blue}, {red, blue}}

\* No definition orders or names documents, tags or writers.
Symmetry ==
    Permutations(MCIds) \cup Permutations(MCTags) \cup Permutations(MCWriters)
=============================================================================
