------------------------------- MODULE MCWal -------------------------------
(* Constants for model-checking Wal.                                       *)
EXTENDS Wal

\* An INSERT (a vector, metadata) and the smallest entry there is.  A DELETE
\* differs from the latter by the bytes of its "{}".
MCBodies == {[doc |-> 1, dim |-> 1, len |-> 1], [doc |-> 1, dim |-> 0, len |-> 0]}

MCInserts == {[doc |-> 1, dim |-> 1, len |-> 1]}

\* Zero, a length that stays in the file, one that leaves it.
MCJunk == {0, 1, 2, 1000}
=============================================================================
