--------------------------- MODULE MetadataStore ---------------------------
(***************************************************************************)
(* storage/metadata_store: the inverted index over document metadata, one  *)
(* mutex-protected section per step.  Writers insert and remove; readers   *)
(* intersect filters, one locked lookup per filter; save and load copy the *)
(* whole store.                                                            *)
(*                                                                         *)
(* A tag is a field with one of its values, in the string form the store   *)
(* indexes (a number by its dump, a string as it is).  A document's        *)
(* metadata is the set of its tags: text that does not parse, and fields   *)
(* that are neither strings nor numbers, give none.                        *)
(***************************************************************************)
EXTENDS Integers, Sequences, FiniteSets

CONSTANTS
    Ids,       \* document ids (32 bits wide in the code and in the bitmaps)
    Tags,      \* <<field, value>> pairs
    Metas,     \* the sets of tags that documents are inserted with
    NoDoc,     \* "not in doc_metadata_"
    Writers,   \* threads that insert and remove
    Readers,   \* threads that call intersect_filters
    MaxTotal   \* bound: total_docs_ at which no further insert begins

ASSUME MetadataAssumption ==
    /\ IsFiniteSet(Ids)
    /\ Metas \subseteq SUBSET Tags
    /\ NoDoc \notin Metas
    /\ MaxTotal \in Nat

VARIABLES
    index,    \* index_: a pair <<t, id>> for each id in the bitmap of tag t
    docMeta,  \* doc_metadata_
    total,    \* total_docs_
    file,     \* what the last save wrote
    writer,   \* writer[w]: where w's insert is, of which id, with which tags
    reader,   \* reader[r]: filters still to look up, result so far, and the
              \* ids written since the call began (history)
    clash     \* history: a call began to write a document that another
              \* writer's insert was in the middle of

store == <<index, docMeta, total>>
vars  == <<store, file, writer, reader, clash>>

IdleWriter == [at |-> "idle", id |-> NoDoc, meta |-> {}]
IdleReader == [at |-> "idle", asked |-> {}, left |-> {}, result |-> {}, touched |-> {}]

Empty == [index |-> {}, docMeta |-> [id \in Ids |-> NoDoc], total |-> 0]

Init ==
    /\ index = Empty.index
    /\ docMeta = Empty.docMeta
    /\ total = Empty.total
    /\ file = Empty
    /\ writer = [w \in Writers |-> IdleWriter]
    /\ reader = [r \in Readers |-> IdleReader]
    /\ clash = FALSE

-----------------------------------------------------------------------------
Present == {id \in Ids : docMeta[id] # NoDoc}

Bitmap(t) == {id \in Ids : <<t, id>> \in index}

\* A bitmap that becomes empty is erased, so "not found" is "empty".
\* selectivity as a fraction, numerator first.
Selectivity(t) ==
    IF total = 0 \/ Bitmap(t) = {} THEN <<1, 1>> ELSE <<Cardinality(Bitmap(t)), total>>

\* Every reader in the middle of a call sees id being written.
Touch(id) ==
    reader' = [r \in Readers |->
                  IF reader[r].at = "idle" THEN reader[r]
                  ELSE [reader[r] EXCEPT !.touched = @ \cup {id}]]

\* The call of w finds another insert of id under way, or not.
Meet(w, id) ==
    clash' = (clash \/ \E o \in Writers \ {w} : writer[o].at # "idle" /\ writer[o].id = id)

\* Mutant: only a document that is new is counted.
AddCountsNew(id, meta) ==
    /\ index' = index \cup (meta \X {id})
    /\ docMeta' = [docMeta EXCEPT ![id] = meta]
    /\ total' = IF docMeta[id] = NoDoc THEN total + 1 ELSE total
    /\ Touch(id)

\* The end of insert: it adds, whether or not a document of that id is there.
Add(id, meta) ==
    /\ index' = index \cup (meta \X {id})
    /\ docMeta' = [docMeta EXCEPT ![id] = meta]
    /\ total' = total + 1
    /\ Touch(id)

\* Mutant: the bitmaps keep the removed id.
DropKeepsTags(id) ==
    IF docMeta[id] = NoDoc
      THEN UNCHANGED <<store, reader>>
      ELSE /\ index' = index
           /\ docMeta' = [docMeta EXCEPT ![id] = NoDoc]
           /\ total' = total - 1
           /\ Touch(id)

\* The body of remove.
Drop(id) ==
    IF docMeta[id] = NoDoc
      THEN UNCHANGED <<store, reader>>
      ELSE /\ index' = index \ (docMeta[id] \X {id})
           /\ docMeta' = [docMeta EXCEPT ![id] = NoDoc]
           /\ total' = total - 1
           /\ Touch(id)

-----------------------------------------------------------------------------
(* insert.  A new id is inserted under one lock; a known one is removed    *)
(* and inserted under three locks, with the store open in between.         *)

\* Mutant: an id that is known is inserted without being removed.
InsertNewBlind(w, id, meta) ==
    /\ writer[w].at = "idle"
    /\ total < MaxTotal
    /\ Add(id, meta)
    /\ Meet(w, id)
    /\ UNCHANGED <<file, writer>>

InsertNew(w, id, meta) ==
    /\ writer[w].at = "idle"
    /\ docMeta[id] = NoDoc
    /\ total < MaxTotal
    /\ Add(id, meta)
    /\ Meet(w, id)
    /\ UNCHANGED <<file, writer>>

InsertKnown(w, id, meta) ==
    /\ writer[w].at = "idle"
    /\ docMeta[id] # NoDoc
    /\ total < MaxTotal
    /\ writer' = [writer EXCEPT ![w] = [at |-> "unlocked", id |-> id, meta |-> meta]]
    /\ Meet(w, id)
    /\ UNCHANGED <<store, file, reader>>

RemoveOld(w) ==
    /\ writer[w].at = "unlocked"
    /\ Drop(writer[w].id)
    /\ writer' = [writer EXCEPT ![w].at = "relock"]
    /\ UNCHANGED <<file, clash>>

InsertAgain(w) ==
    /\ writer[w].at = "relock"
    /\ Add(writer[w].id, writer[w].meta)
    /\ writer' = [writer EXCEPT ![w] = IdleWriter]
    /\ UNCHANGED <<file, clash>>

Remove(w, id) ==
    /\ writer[w].at = "idle"
    /\ Drop(id)
    /\ Meet(w, id)
    /\ UNCHANGED <<file, writer>>

-----------------------------------------------------------------------------
(* intersect_filters: one get_bitmap per filter, in any order.             *)

\* Mutant: bitmaps are united.
LookupUnites(r, asked, left, before, t) ==
    reader' = [reader EXCEPT ![r] =
                 [at      |-> IF left = {t} THEN "done" ELSE "reading",
                  asked   |-> asked,
                  left    |-> left \ {t},
                  result  |-> before.result \cup Bitmap(t),
                  touched |-> before.touched]]

\* Mutant: the end is noticed one filter late.
LookupLate(r, asked, left, before, t) ==
    reader' = [reader EXCEPT ![r] =
                 [at      |-> IF left = {} THEN "done" ELSE "reading",
                  asked   |-> asked,
                  left    |-> left \ {t},
                  result  |-> before.result \cap Bitmap(t),
                  touched |-> before.touched]]

Lookup(r, asked, left, before, t) ==
    reader' = [reader EXCEPT ![r] =
                 [at      |-> IF left = {t} THEN "done" ELSE "reading",
                  asked   |-> asked,
                  left    |-> left \ {t},
                  result  |-> IF left = asked THEN Bitmap(t) ELSE before.result \cap Bitmap(t),
                  touched |-> before.touched]]

FirstFilter(r, filters) ==
    /\ reader[r].at = "idle"
    /\ \E t \in filters : Lookup(r, filters, filters, IdleReader, t)
    /\ UNCHANGED <<store, file, writer, clash>>

NextFilter(r) ==
    /\ reader[r].at = "reading"
    /\ \E t \in reader[r].left :
           Lookup(r, reader[r].asked, reader[r].left, reader[r], t)
    /\ UNCHANGED <<store, file, writer, clash>>

Return(r) ==
    /\ reader[r].at = "done"
    /\ reader' = [reader EXCEPT ![r] = IdleReader]
    /\ UNCHANGED <<store, file, writer, clash>>

-----------------------------------------------------------------------------
(* save copies the store under the lock; a restart starts from that copy.  *)

Save ==
    /\ file' = [index |-> index, docMeta |-> docMeta, total |-> total]
    /\ UNCHANGED <<store, writer, reader, clash>>

\* Mutant: the bitmaps are not restored.
LoadForgetsIndex ==
    /\ index' = {}
    /\ docMeta' = file.docMeta
    /\ total' = file.total
    /\ writer' = [w \in Writers |-> IdleWriter]
    /\ reader' = [r \in Readers |-> IdleReader]
    /\ UNCHANGED <<file, clash>>

Load ==
    /\ index' = file.index
    /\ docMeta' = file.docMeta
    /\ total' = file.total
    /\ writer' = [w \in Writers |-> IdleWriter]
    /\ reader' = [r \in Readers |-> IdleReader]
    /\ UNCHANGED <<file, clash>>

Next ==
    \/ \E w \in Writers, id \in Ids :
           \/ \E meta \in Metas : InsertNew(w, id, meta) \/ InsertKnown(w, id, meta)
           \/ Remove(w, id)
    \/ \E w \in Writers : RemoveOld(w) \/ InsertAgain(w)
    \/ \E r \in Readers :
           \/ \E filters \in SUBSET Tags : FirstFilter(r, filters)
           \/ NextFilter(r)
           \/ Return(r)
    \/ Save
    \/ Load

Spec == Init /\ [][Next]_vars

-----------------------------------------------------------------------------
(* Properties                                                              *)

\* A call that is reading has filters left to look up.
ReaderState ==
    {state \in [at : {"idle", "reading", "done"}, asked : SUBSET Tags, left : SUBSET Tags,
                result : SUBSET Ids, touched : SUBSET Ids] :
        state.at = "reading" <=> state.left # {}}

\* Type invariant.
TypeOK ==
    /\ index \subseteq Tags \X Ids
    /\ docMeta \in [Ids -> Metas \cup {NoDoc}]
    /\ total \in Int
    /\ file \in [index : SUBSET (Tags \X Ids), docMeta : [Ids -> Metas \cup {NoDoc}], total : Int]
    /\ writer \in [Writers -> {IdleWriter} \cup
                              [at : {"unlocked", "relock"}, id : Ids, meta : Metas]]
    /\ reader \in [Readers -> ReaderState]
    /\ clash \in BOOLEAN

\* As long as no two calls on the same document overlapped, the bitmaps are
\* exactly what the stored metadata says, however many writers work on other
\* documents inside the gaps of an insert: no stale tag survives an update or a
\* removal, also across save and load.
IndexExact ==
    ~clash => index = {p \in Tags \X Ids : docMeta[p[2]] # NoDoc /\ p[1] \in docMeta[p[2]]}

\* Under the same condition total_docs_, the denominator of every selectivity,
\* counts the stored documents.
TotalExact == ~clash => total = Cardinality(Present)

\* However writers clash, no document is missing from the bitmap of one of its
\* tags: a pre-filtered search cannot lose it.
IndexComplete == \A id \in Present : docMeta[id] \X {id} \subseteq index

\* However writers clash, the planner is never handed a selectivity above one or
\* below zero: tags that a clash leaks are outweighed by documents it counts
\* twice.
SelectivityIsFraction ==
    \A t \in Tags : 0 <= Selectivity(t)[1] /\ Selectivity(t)[1] <= Selectivity(t)[2]

\* Unless calls clashed, an intersection of filters, though it looks each filter
\* up under a lock of its own, is right about every document that nobody wrote
\* while it ran.
IntersectStable ==
    ~clash =>
        \A r \in Readers : reader[r].at = "done" =>
            \A id \in Ids \ reader[r].touched :
                id \in reader[r].result <=> id \in Present /\ reader[r].asked \subseteq docMeta[id]
=============================================================================
