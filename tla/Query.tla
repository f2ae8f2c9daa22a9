------------------------------- MODULE Query -------------------------------
(***************************************************************************)
(* query/query_planner and query/query_engine over a collection in memory: *)
(* its segments with their indexes, and its metadata store.                *)
(*                                                                         *)
(* Simplifications:                                                        *)
(*  - The index type is FLAT, whose searches are exact, so that what a     *)
(*    query loses is lost by planner, engine or merge.                     *)
(*  - A call runs from its beginning to its end (the Python binding runs   *)
(*    one at a time): races inside the store are in MetadataStore, and     *)
(*    crashes between steps in Collection.                                 *)
(*  - A tag is a field with a value; a query filters by one or by none.    *)
(*  - Selectivities are fractions: their rounding to float changes neither *)
(*    a comparison with 0.2f nor a ceiling for counts this small.          *)
(***************************************************************************)
EXTENDS FlatIndex

CONSTANTS
    Tags,       \* what a query can filter by
    NoFilter,   \* a query without a filter
    TopKs,      \* numbers of results asked for
    Threshold,  \* segment_size_threshold
    Busy        \* bound: from this number of upserts on nothing is removed and
                \* no document upserted again; nor is there another upsert if
                \* either has happened

ASSUME QueryAssumption ==
    /\ NoTies
    /\ NoFilter \notin Tags
    /\ TopKs \subseteq Nat \ {0}
    /\ Threshold \in Nat \ {0}
    /\ Docs \subseteq Nat
    /\ Busy \in Nat
    /\ IsFiniteSet(Docs)

VARIABLES
    segments,  \* SegmentManager::segments_: index and vector_count_ of each
    mutable,   \* SegmentManager::mutable_segment_
    tags,      \* doc_metadata_, Invalid for a document it does not have
    upserts,   \* history: the upserts, in order
    careful    \* history: nothing was removed and no document upserted twice

vars == <<segments, mutable, tags, upserts, careful>>

-----------------------------------------------------------------------------
(* Writes                                                                  *)

FreshSegment == [index |-> EmptyFlat, count |-> 0]

Init ==
    /\ segments = <<>>
    /\ mutable = FreshSegment
    /\ tags = [d \in Docs |-> Invalid]
    /\ upserts = <<>>
    /\ careful = TRUE

Seen == {upserts[i].doc : i \in DOMAIN upserts}

\* What the bounds allow: every vector is used once, and new documents come in
\* the order of their ids, which are otherwise only compared for equality.
Allowed(d, p) ==
    /\ \A i \in DOMAIN upserts : upserts[i].at # p
    /\ \A c \in Docs : c < d => c \in Seen
    /\ Len(upserts) < Busy \/ (careful /\ d \notin Seen)

Inserted(seg, d, p) == [index |-> FlatInsert(seg.index, d, p), count |-> seg.count + 1]

\* Mutant: a full segment is replaced and forgotten.
UpsertAndForget(d, p, ts) ==
    /\ Allowed(d, p)
    /\ LET filled == Inserted(mutable, d, p)
       IN  mutable' = IF filled.count >= Threshold THEN FreshSegment ELSE filled
    /\ tags' = [tags EXCEPT ![d] = ts]
    /\ upserts' = Append(upserts, [doc |-> d, at |-> p])
    /\ careful' = (careful /\ d \notin Seen)
    /\ UNCHANGED segments

Upsert(d, p, ts) ==
    /\ Allowed(d, p)
    /\ LET filled == Inserted(mutable, d, p)
       IN  IF filled.count >= Threshold
             THEN segments' = Append(segments, filled) /\ mutable' = FreshSegment
             ELSE mutable' = filled /\ UNCHANGED segments
    /\ tags' = [tags EXCEPT ![d] = ts]
    /\ upserts' = Append(upserts, [doc |-> d, at |-> p])
    /\ careful' = (careful /\ d \notin Seen)

\* Of a document of a full segment, or of none, only the count takes notice.
Remove(d) ==
    /\ Len(upserts) <= Busy
    /\ tags' = [tags EXCEPT ![d] = Invalid]
    /\ mutable' = [index |-> FlatRemove(mutable.index, d),
                   count |-> IF mutable.count > 0 THEN mutable.count - 1 ELSE 0]
    /\ careful' = FALSE
    /\ UNCHANGED <<segments, upserts>>

Next ==
    \/ \E d \in Docs, p \in Points, ts \in SUBSET Tags : Upsert(d, p, ts)
    \/ \E d \in Docs : Remove(d)

Spec == Init /\ [][Next]_vars

-----------------------------------------------------------------------------
(* Queries                                                                 *)

Present == {d \in Docs : tags[d] # Invalid}

\* get_bitmap
Matching(t) == {d \in Present : t \in tags[d]}

\* SegmentManager::search: the segments that count a vector, and the merge of
\* what they return.
SearchSegments(q, k, allowed) ==
    LET visited == {s \in {segments[i] : i \in DOMAIN segments} \cup {mutable} : s.count > 0}
    IN  Nearest(UNION {FlatSearch(s.index, q, k, allowed) : s \in visited}, q, k)

\* a / b, rounded up
CeilDiv(a, b) == (a + b - 1) \div b

Lesser(a, b) == IF a < b THEN a ELSE b

MaxOverfetch == 10

\* selectivity > 0.2f.  A tag that no document has counts as having them all.
Unselective(t) == Matching(t) = {} \/ 5 * Cardinality(Matching(t)) > Cardinality(Present)

\* Over-fetch by the inverse of the selectivity.
Overfetch(t) ==
    IF Matching(t) = {} THEN 1
    ELSE Lesser(CeilDiv(Cardinality(Present), Cardinality(Matching(t))), MaxOverfetch)

\* QueryPlanner::plan
Plan(t, k) ==
    IF t = NoFilter THEN [strategy |-> "NONE", fetch |-> k]
    ELSE IF Unselective(t) THEN [strategy |-> "POST_FILTER", fetch |-> k * Overfetch(t)]
    ELSE [strategy |-> "PRE_FILTER", fetch |-> 2 * k]

\* Mutant: the filter is applied to the results instead of the candidates.
SearchTrimmedFirst(q, k, t) ==
    LET plan == Plan(t, k)
    IN  CASE plan.strategy = "NONE" -> SearchSegments(q, k, Docs)
          [] plan.strategy = "POST_FILTER" ->
                 {h \in Nearest(SearchSegments(q, plan.fetch, Docs), q, k) : h.doc \in Matching(t)}
          [] plan.strategy = "PRE_FILTER" ->
                 Nearest(SearchSegments(q, plan.fetch, Matching(t)), q, k)

\* QueryEngine::search
Search(q, k, t) ==
    LET plan == Plan(t, k)
    IN  CASE plan.strategy = "NONE" -> SearchSegments(q, k, Docs)
          [] plan.strategy = "POST_FILTER" ->
                 Nearest({h \in SearchSegments(q, plan.fetch, Docs) : h.doc \in Matching(t)}, q, k)
          [] plan.strategy = "PRE_FILTER" ->
                 Nearest(SearchSegments(q, plan.fetch, Matching(t)), q, k)

-----------------------------------------------------------------------------
(* Properties                                                              *)

\* Both arrays reach as far as the scan and the insertion of the next vector go.
FlatLike(ix) ==
    /\ ix \in [data : Seq(Points), ids : Seq(Docs \cup {Invalid}), slotOf : [Docs -> Nat], size : Nat]
    /\ ix.size <= Len(ix.data) /\ ix.size <= Len(ix.ids)
    /\ \A d \in Docs : ix.slotOf[d] <= Len(ix.ids)

SegmentLike(seg) == FlatLike(seg.index) /\ seg.count \in 0 .. seg.index.size

\* Type invariant: whatever was removed and inserted, no index is scanned or
\* written behind the end of an array, and none counts more than it scans.
TypeOK ==
    /\ \A i \in DOMAIN segments : SegmentLike(segments[i])
    /\ SegmentLike(mutable)
    /\ tags \in [Docs -> (SUBSET Tags) \cup {Invalid}]
    /\ upserts \in Seq(Hit)
    /\ careful \in BOOLEAN

\* The collection as a set of results, and those a filter leaves.
Stored == {upserts[i] : i \in DOMAIN upserts}
Wanted(t) == IF t = NoFilter THEN Stored ELSE {h \in Stored : h.doc \in Matching(t)}

\* As long as nothing was replaced or removed: without a filter, and with one
\* that at most a fifth of the documents match, a query returns exactly the
\* nearest documents that match, as many as asked for, however they are spread
\* over segments.
SelectiveExact ==
    careful => \A q \in Points, k \in TopKs, t \in Tags \cup {NoFilter} :
        t = NoFilter \/ 5 * Cardinality(Matching(t)) <= Cardinality(Present) =>
            Search(q, k, t) = Nearest(Wanted(t), q, k)

\* Under the same condition, with any filter: no document that matches is nearer
\* than one a query returns, unless it is returned too; and one that is missing
\* from an incomplete answer was not among the documents fetched.
NearestFirst ==
    careful => \A q \in Points, k \in TopKs, t \in Tags :
        LET found == Search(q, k, t)
        IN  /\ found \subseteq Nearest(Wanted(t), q, k)
            /\ \A h \in Nearest(Wanted(t), q, k) \ found :
                   /\ \A g \in found : Dist(q, g.at) < Dist(q, h.at)
                   /\ h \notin Nearest(Stored, q, k * Overfetch(t))

=============================================================================
