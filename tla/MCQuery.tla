------------------------------ MODULE MCQuery ------------------------------
(* Constants for model-checking Query: six vectors whose mutual distances  *)
(* all differ.                                                             *)
EXTENDS Query

Ruler6 == {0, 1, 4, 10, 12, 17}
=============================================================================
