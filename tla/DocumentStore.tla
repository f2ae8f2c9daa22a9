---------------------------- MODULE DocumentStore ----------------------------
(***************************************************************************)
(* What a collection promises about vectors, without segments, logs, files *)
(* or loads: a write takes effect for good at one moment, the indexes show *)
(* it a moment later, and the end of the process, wherever it happens,     *)
(* takes away the indexes and nothing else.                                *)
(*                                                                         *)
(* It is as weak as the code makes it.  A document that is written again   *)
(* keeps its older vectors, and one day its vectors are past removal.      *)
(***************************************************************************)
EXTENDS FiniteSets

CONSTANTS
    Docs,  \* document ids
    Vecs,  \* payloads
    None   \* "no payload"

VARIABLES
    fresh,  \* the payload of each document that a removal can still take away
    aged,   \* the payloads of each document that stay for ever
    up,     \* whether the process runs and has loaded what it is to serve
    shown   \* the payloads of each document in the indexes

vars == <<fresh, aged, up, shown>>

\* What the store holds of document d.
Held(d) == aged[d] \cup ({fresh[d]} \ {None})

Contents == [d \in Docs |-> Held(d)]
Blank    == [d \in Docs |-> {}]

Init ==
    /\ fresh = [d \in Docs |-> None]
    /\ aged = Blank
    /\ up = FALSE
    /\ shown = Blank

\* Every write so far is shown.
Settled == up /\ shown = Contents

Put(d, v) ==
    /\ fresh' = [fresh EXCEPT ![d] = v]
    /\ aged' = [aged EXCEPT ![d] = Held(d)]
    /\ UNCHANGED <<up, shown>>

Erase(d) ==
    /\ fresh' = [fresh EXCEPT ![d] = None]
    /\ UNCHANGED <<aged, up, shown>>

\* The indexes catch up with the write.
Show ==
    /\ up
    /\ shown' = Contents
    /\ UNCHANGED <<fresh, aged, up>>

\* From now on no removal reaches what the store holds.
Age ==
    /\ fresh' = [d \in Docs |-> None]
    /\ aged' = Contents
    /\ UNCHANGED <<up, shown>>

Start ==
    /\ ~up
    /\ up' = TRUE
    /\ shown' = Contents
    /\ UNCHANGED <<fresh, aged>>

Stop ==
    /\ up
    /\ up' = FALSE
    /\ shown' = Blank
    /\ UNCHANGED <<fresh, aged>>

\* Writes wait until the previous one is shown.
Write == Settled /\ (Age \/ \E d \in Docs : Erase(d) \/ \E v \in Vecs : Put(d, v))

Next == Write \/ Show \/ Start \/ Stop

Spec == Init /\ [][Next]_vars
=============================================================================
