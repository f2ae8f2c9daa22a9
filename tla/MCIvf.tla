-------------------------------- MODULE MCIvf --------------------------------
(* Constants for model-checking Ivf: marks of a Golomb ruler.              *)
EXTENDS Ivf

Ruler3 == {0, 1, 3}

\* Two sets that take four iterations, one with duplicates that leaves cells
\* empty, and one in which three cells compete for three different vectors.
MCTrainings == {<<0, 0, 1, 3, 7>>, <<0, 1, 3, 7, 7>>, <<0, 0, 0, 1, 1>>, <<0, 1, 1, 3>>}

MCRetrainings == {<<0, 1, 1, 3>>}
=============================================================================
