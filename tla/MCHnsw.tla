------------------------------- MODULE MCHnsw -------------------------------
(* Constants for model-checking Hnsw: marks of Golomb rulers, in which no  *)
(* distance occurs twice.                                                  *)
EXTENDS Hnsw

Ruler4 == {0, 1, 4, 6}
=============================================================================
