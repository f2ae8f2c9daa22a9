---------------------------- MODULE MCHnswSearch ----------------------------
(* Constants for model-checking HnswSearch: marks of a Golomb ruler; a     *)
(* search for everything, and one for a single document with a filter.     *)
EXTENDS HnswSearch

Ruler3 == {0, 1, 3}

MCRequests == {[q |-> 1, topK |-> 3, allowed |-> Docs],
               [q |-> 0, topK |-> 1, allowed |-> {3}]}
=============================================================================
