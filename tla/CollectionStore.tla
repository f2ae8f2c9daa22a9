--------------------------- MODULE CollectionStore ---------------------------
(***************************************************************************)
(* The collection implements DocumentStore.  What the store holds is read  *)
(* off the logs on disk, so a write takes effect when its entry is in the  *)
(* log; what it shows is read off the indexes in memory.                   *)
(***************************************************************************)
EXTENDS Collection

\* The entries of d in a log.
Own(log, d) == EntriesOf(log, Len(log), d)

\* The payload a log ends with for d, and those an INSERT has superseded.
Newest(log, d) ==
    LET own == Own(log, d)
    IN  IF own = {} THEN None ELSE log[CHOOSE i \in own : \A j \in own : j <= i].vec

Superseded(log, d) ==
    LET own == Own(log, d)
        Neighbours(j, k) == j < k /\ \A i \in own : i <= j \/ k <= i
    IN  {log[j].vec : j \in {i \in own : log[i].op = "INSERT" /\
                               \E k \in own : Neighbours(i, k) /\ log[k].op = "INSERT"}}

FreshOf(d) == Newest(wal[Current], d)

AgedOf(d) ==
    Superseded(wal[Current], d) \cup
    UNION {Superseded(wal[id], d) \cup ({Newest(wal[id], d)} \ {None}) :
               id \in SegIds \ {Current}}

ShownOf(d) == UNION {NodesOf(seg, d) : seg \in AllSegments}

Store == INSTANCE DocumentStore WITH
    fresh <- [d \in Docs |-> FreshOf(d)],
    aged  <- [d \in Docs |-> AgedOf(d)],
    up    <- ~Loading,
    shown <- IF Loading THEN [d \in Docs |-> {}] ELSE [d \in Docs |-> ShownOf(d)]

\* While the process ends only when the manifest names every segment, the
\* collection is a document store: each write takes effect for good when it is
\* logged, the indexes follow before the next, and crashes in the middle of
\* calls, saves and loads lose, repeat and revive nothing.
IsDocumentStore == Store!Spec
=============================================================================
