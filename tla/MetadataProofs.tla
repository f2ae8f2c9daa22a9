--------------------------- MODULE MetadataProofs ---------------------------
(* Proofs about MetadataStore: unless calls on one document overlap, the   *)
(* bitmaps, the document count and the intersections of filters are exact; *)
(* in any case no bitmap misses a document and no selectivity is above one.*)
EXTENDS MetadataStore, FiniteSetTheorems, TLAPS

ReaderStates == [Readers -> ReaderState]

WriterStates == [Writers -> {IdleWriter} \cup
                            [at : {"unlocked", "relock"}, id : Ids, meta : Metas]]

DocMetas == [Ids -> Metas \cup {NoDoc}]

\* What index_ and total_docs_ have to be for some doc_metadata_.
TagsOf(dm)    == {p \in Tags \X Ids : dm[p[2]] # NoDoc /\ p[1] \in dm[p[2]]}
PresentIn(dm) == {id \in Ids : dm[id] # NoDoc}

-----------------------------------------------------------------------------
(* Type correctness.                                                       *)

LEMMA IdleReaderType == IdleReader \in ReaderState
    BY DEF IdleReader, ReaderState

LEMMA TouchType ==
    ASSUME reader \in ReaderStates, NEW id \in Ids, Touch(id)
    PROVE  reader' \in ReaderStates
    <1> DEFINE touch(r) == IF reader[r].at = "idle" THEN reader[r]
                           ELSE [reader[r] EXCEPT !.touched = @ \cup {id}]
    <1>1. ASSUME NEW r \in Readers PROVE touch(r) \in ReaderState
        <2>1. reader[r] \in ReaderState
            BY DEF ReaderStates
        <2> QED
            BY <2>1 DEF ReaderState
    <1>2. reader' = [r \in Readers |-> touch(r)]
        BY DEF Touch
    <1> HIDE DEF touch
    <1> QED
        BY <1>1, <1>2 DEF ReaderStates

LEMMA AddType ==
    ASSUME TypeOK, NEW id \in Ids, NEW meta \in Metas, Add(id, meta)
    PROVE  /\ index' \subseteq Tags \X Ids
           /\ docMeta' \in DocMetas
           /\ total' \in Int
           /\ reader' \in ReaderStates
    <1>1. meta \subseteq Tags
        BY MetadataAssumption
    <1>2. reader' \in ReaderStates
        BY TouchType DEF Add, TypeOK, ReaderStates
    <1> QED
        BY <1>1, <1>2 DEF Add, TypeOK, DocMetas

LEMMA DropType ==
    ASSUME TypeOK, NEW id \in Ids, Drop(id)
    PROVE  /\ index' \subseteq Tags \X Ids
           /\ docMeta' \in DocMetas
           /\ total' \in Int
           /\ reader' \in ReaderStates
    <1>1. CASE docMeta[id] = NoDoc
        BY <1>1 DEF Drop, TypeOK, store, DocMetas, ReaderStates
    <1>2. CASE docMeta[id] # NoDoc
        <2>1. Touch(id)
            BY <1>2 DEF Drop
        <2>2. reader' \in ReaderStates
            BY <2>1, TouchType DEF TypeOK, ReaderStates
        <2> QED
            BY <1>2, <2>2 DEF Drop, TypeOK, DocMetas
    <1> QED
        BY <1>1, <1>2

LEMMA ClashType == TypeOK /\ [Next]_vars => clash' \in BOOLEAN
    <1> SUFFICES ASSUME TypeOK, [Next]_vars PROVE clash' \in BOOLEAN
        OBVIOUS
    <1>1. clash \in BOOLEAN
        BY DEF TypeOK
    <1>2. ASSUME NEW w, NEW id, Meet(w, id) PROVE clash' \in BOOLEAN
        BY <1>2 DEF Meet
    <1>3. (\E w, id : Meet(w, id)) \/ clash' = clash
        BY DEF Next, vars, InsertNew, InsertKnown, RemoveOld, InsertAgain, Remove,
               FirstFilter, NextFilter, Return, Save, Load
    <1> QED
        BY <1>1, <1>2, <1>3

LEMMA StepType == TypeOK /\ [Next]_vars => TypeOK'
    <1> SUFFICES ASSUME TypeOK, [Next]_vars PROVE TypeOK'
        OBVIOUS
    <1> DEFINE FileType == [index : SUBSET (Tags \X Ids), docMeta : DocMetas, total : Int]
    <1>0. writer \in WriterStates /\ reader \in ReaderStates /\ file \in FileType
        BY DEF TypeOK, WriterStates, ReaderStates, DocMetas
    <1>13. clash' \in BOOLEAN
        BY ClashType
    <1>1. CASE UNCHANGED vars
        BY <1>1, <1>13 DEF vars, store, TypeOK
    <1>2. ASSUME NEW w \in Writers, NEW id \in Ids, NEW meta \in Metas, InsertNew(w, id, meta)
          PROVE  TypeOK'
        BY <1>0, <1>2, <1>13, AddType DEF InsertNew, TypeOK, ReaderStates, DocMetas
    <1>3. ASSUME NEW w \in Writers, NEW id \in Ids, NEW meta \in Metas, InsertKnown(w, id, meta)
          PROVE  TypeOK'
        BY <1>0, <1>3, <1>13 DEF InsertKnown, store, TypeOK, WriterStates
    <1>4. ASSUME NEW w \in Writers, RemoveOld(w)
          PROVE  TypeOK'
        <2>1. writer[w].id \in Ids /\ writer[w].meta \in Metas
            BY <1>0, <1>4 DEF RemoveOld, WriterStates, IdleWriter
        <2>2. writer' \in WriterStates
            BY <1>0, <1>4, <2>1 DEF RemoveOld, WriterStates, IdleWriter
        <2> QED
            BY <1>4, <1>13, <2>1, <2>2, DropType DEF RemoveOld, TypeOK, WriterStates, ReaderStates, DocMetas
    <1>5. ASSUME NEW w \in Writers, InsertAgain(w)
          PROVE  TypeOK'
        <2>1. writer[w].id \in Ids /\ writer[w].meta \in Metas
            BY <1>0, <1>5 DEF InsertAgain, WriterStates, IdleWriter
        <2>2. writer' \in WriterStates
            BY <1>0, <1>5 DEF InsertAgain, WriterStates
        <2> QED
            BY <1>5, <1>13, <2>1, <2>2, AddType DEF InsertAgain, TypeOK, WriterStates, ReaderStates, DocMetas
    <1>6. ASSUME NEW w \in Writers, NEW id \in Ids, Remove(w, id)
          PROVE  TypeOK'
        BY <1>0, <1>6, <1>13, DropType DEF Remove, TypeOK, ReaderStates, DocMetas
    <1>7. ASSUME NEW r \in Readers, NEW asked \in SUBSET Tags, NEW left \in SUBSET Tags,
                 NEW before \in ReaderState,
                 NEW t \in left, Lookup(r, asked, left, before, t),
                 UNCHANGED <<store, file, writer, clash>>
          PROVE  TypeOK'
        <2>1. Bitmap(t) \in SUBSET Ids
            BY DEF Bitmap
        <2> DEFINE after == [at      |-> IF left = {t} THEN "done" ELSE "reading",
                             asked   |-> asked,
                             left    |-> left \ {t},
                             result  |-> IF left = asked THEN Bitmap(t)
                                         ELSE before.result \cap Bitmap(t),
                             touched |-> before.touched]
        <2>3. after \in ReaderState
            <3>1. before.touched \in SUBSET Ids /\ before.result \in SUBSET Ids
                BY DEF ReaderState
            <3>2. left = {t} <=> left \ {t} = {}
                OBVIOUS
            <3> QED
                BY <2>1, <3>1, <3>2 DEF ReaderState
        <2>4. reader' = [reader EXCEPT ![r] = after]
            BY <1>7 DEF Lookup
        <2> HIDE DEF after
        <2>2. reader' \in ReaderStates
            BY <1>0, <2>3, <2>4 DEF ReaderStates
        <2> QED
            BY <1>7, <1>13, <2>2 DEF TypeOK, store, ReaderStates
    <1>8. ASSUME NEW r \in Readers, NEW filters \in SUBSET Tags, FirstFilter(r, filters)
          PROVE  TypeOK'
        BY <1>7, <1>8, IdleReaderType DEF FirstFilter
    <1>9. ASSUME NEW r \in Readers, NextFilter(r)
          PROVE  TypeOK'
        <2>1. reader[r] \in ReaderState
            BY <1>0 DEF ReaderStates
        <2>2. reader[r].asked \in SUBSET Tags /\ reader[r].left \in SUBSET Tags
            BY <2>1 DEF ReaderState
        <2> QED
            BY <1>7, <1>9, <2>1, <2>2 DEF NextFilter
    <1>10. ASSUME NEW r \in Readers, Return(r)
           PROVE  TypeOK'
        <2>1. reader' \in ReaderStates
            BY <1>0, <1>10, IdleReaderType DEF Return, ReaderStates
        <2> QED
            BY <1>10, <1>13, <2>1 DEF Return, store, TypeOK, ReaderStates
    <1>11. CASE Save
        BY <1>11, <1>13 DEF Save, store, TypeOK
    <1>12. CASE Load
        <2>1. reader' \in ReaderStates /\ writer' \in WriterStates
            BY <1>12, IdleReaderType DEF Load, ReaderStates, WriterStates
        <2> QED
            BY <1>0, <1>12, <1>13, <2>1 DEF Load, TypeOK, ReaderStates, WriterStates, DocMetas
    <1> QED
        BY <1>1, <1>2, <1>3, <1>4, <1>5, <1>6, <1>8, <1>9, <1>10, <1>11, <1>12 DEF Next

LEMMA InitType == Init => TypeOK
    <1> SUFFICES ASSUME Init PROVE TypeOK
        OBVIOUS
    <1>1. clash \in BOOLEAN
        BY DEF Init
    <1> QED
        BY <1>1, IdleReaderType DEF Init, TypeOK, Empty

\* Type correctness.
THEOREM TypeCorrect == Spec => []TypeOK
    BY InitType, StepType, PTL DEF Spec

-----------------------------------------------------------------------------
(* While no calls on one document overlap the index and the count are      *)
(* exact.  The store may be open between the locks of an update, but only  *)
(* without the document, and no two writers are at the same document.      *)

ExactIn(ix, dm, n) == ix = TagsOf(dm) /\ n = Cardinality(PresentIn(dm))

Gap == \A w \in Writers : writer[w].at = "relock" => docMeta[writer[w].id] = NoDoc

Apart ==
    \A w, o \in Writers :
        w # o /\ writer[w].at # "idle" /\ writer[o].at # "idle" => writer[w].id # writer[o].id

MInv ==
    ~clash => /\ ExactIn(index, docMeta, total)
              /\ ExactIn(file.index, file.docMeta, file.total)
              /\ Gap
              /\ Apart

LEMMA AddExact ==
    ASSUME TypeOK, ExactIn(index, docMeta, total), NEW id \in Ids, NEW meta \in Metas,
           docMeta[id] = NoDoc, Add(id, meta)
    PROVE  /\ ExactIn(index', docMeta', total')
           /\ \A other \in Ids \ {id} : docMeta'[other] = docMeta[other]
    <1>1. meta \subseteq Tags /\ meta # NoDoc
        BY MetadataAssumption
    <1>2. docMeta' = [docMeta EXCEPT ![id] = meta] /\ docMeta \in [Ids -> Metas \cup {NoDoc}]
        BY DEF Add, TypeOK
    <1>3. TagsOf(docMeta') = TagsOf(docMeta) \cup (meta \X {id})
        BY <1>1, <1>2 DEF TagsOf
    <1>4. PresentIn(docMeta') = PresentIn(docMeta) \cup {id} /\ id \notin PresentIn(docMeta)
        BY <1>1, <1>2 DEF PresentIn
    <1>5. IsFiniteSet(PresentIn(docMeta))
        BY FS_Subset, MetadataAssumption DEF PresentIn
    <1>6. Cardinality(PresentIn(docMeta')) = Cardinality(PresentIn(docMeta)) + 1
        BY <1>4, <1>5, FS_AddElement
    <1> QED
        BY <1>2, <1>3, <1>6 DEF ExactIn, Add

LEMMA DropExact ==
    ASSUME TypeOK, ExactIn(index, docMeta, total), NEW id \in Ids, Drop(id)
    PROVE  ExactIn(index', docMeta', total') /\ docMeta'[id] = NoDoc
           /\ \A other \in Ids : docMeta[other] = NoDoc => docMeta'[other] = NoDoc
    <1>1. CASE docMeta[id] = NoDoc
        BY <1>1 DEF Drop, store
    <1>2. CASE docMeta[id] # NoDoc
        <2>1. /\ index' = index \ (docMeta[id] \X {id})
              /\ docMeta' = [docMeta EXCEPT ![id] = NoDoc]
              /\ total' = total - 1
            BY <1>2 DEF Drop
        <2>2. docMeta \in [Ids -> Metas \cup {NoDoc}]
            BY DEF TypeOK
        <2>3. TagsOf(docMeta') = TagsOf(docMeta) \ (docMeta[id] \X {id})
            BY <1>2, <2>1, <2>2 DEF TagsOf
        <2>4. PresentIn(docMeta') = PresentIn(docMeta) \ {id} /\ id \in PresentIn(docMeta)
            BY <1>2, <2>1, <2>2 DEF PresentIn
        <2>5. IsFiniteSet(PresentIn(docMeta))
            BY FS_Subset, MetadataAssumption DEF PresentIn
        <2>6. Cardinality(PresentIn(docMeta')) = Cardinality(PresentIn(docMeta)) - 1
            BY <2>4, <2>5, FS_RemoveElement
        <2> QED
            BY <2>1, <2>2, <2>3, <2>6 DEF ExactIn
    <1> QED
        BY <1>1, <1>2

LEMMA InitMInv == Init => MInv
    <1> SUFFICES ASSUME Init PROVE MInv
        OBVIOUS
    <1>1. TagsOf(Empty.docMeta) = {} /\ PresentIn(Empty.docMeta) = {}
        BY DEF TagsOf, PresentIn, Empty
    <1>2. ExactIn(Empty.index, Empty.docMeta, Empty.total)
        BY <1>1, FS_EmptySet DEF ExactIn, Empty
    <1> QED
        BY <1>2 DEF Init, MInv, Gap, Apart, IdleWriter

LEMMA StepMInv == TypeOK /\ MInv /\ [Next]_vars => MInv'
    <1> SUFFICES ASSUME TypeOK, MInv, [Next]_vars, ~clash' PROVE MInv'
        BY DEF MInv
    <1>0. /\ writer \in WriterStates
          /\ \A w \in Writers :
                 writer[w].at # "idle" => writer[w].id \in Ids /\ writer[w].meta \in Metas
        BY DEF TypeOK, WriterStates, IdleWriter
    <1>1. CASE UNCHANGED <<store, file, writer, clash>>
        BY <1>1 DEF store, MInv, Gap, Apart
    <1>2. ASSUME NEW w \in Writers, NEW id \in Ids, NEW meta \in Metas, InsertNew(w, id, meta)
          PROVE  MInv'
        <2>1. /\ writer' = writer /\ writer[w].at = "idle" /\ file' = file /\ ~clash
              /\ \A o \in Writers \ {w} : writer[o].at # "idle" => writer[o].id # id
            BY <1>2 DEF InsertNew, Meet
        <2>2. /\ ExactIn(index', docMeta', total')
              /\ \A other \in Ids \ {id} : docMeta'[other] = docMeta[other]
            BY <1>2, <2>1, AddExact DEF InsertNew, MInv
        <2>3. Gap'
            BY <1>0, <2>1, <2>2 DEF MInv, Gap
        <2> QED
            BY <2>1, <2>2, <2>3 DEF MInv, Apart
    <1>3. ASSUME NEW w \in Writers, NEW id \in Ids, NEW meta \in Metas, InsertKnown(w, id, meta)
          PROVE  MInv'
        <2>1. /\ UNCHANGED <<store, file>> /\ ~clash
              /\ writer' = [writer EXCEPT ![w] = [at |-> "unlocked", id |-> id, meta |-> meta]]
              /\ \A o \in Writers \ {w} : writer[o].at # "idle" => writer[o].id # id
            BY <1>3 DEF InsertKnown, Meet
        <2>2. /\ writer'[w].at = "unlocked" /\ writer'[w].id = id
              /\ \A o \in Writers \ {w} : writer'[o] = writer[o]
            BY <1>0, <2>1 DEF WriterStates
        <2>3. Gap'
            BY <2>1, <2>2 DEF store, MInv, Gap
        <2>4. Apart'
            BY <2>1, <2>2 DEF MInv, Apart
        <2> QED
            BY <2>1, <2>3, <2>4 DEF store, MInv
    <1>4. ASSUME NEW w \in Writers, RemoveOld(w)
          PROVE  MInv'
        <2>1. /\ writer[w].at = "unlocked" /\ writer[w].id \in Ids /\ ~clash
              /\ Drop(writer[w].id) /\ file' = file
              /\ writer' = [writer EXCEPT ![w].at = "relock"]
            BY <1>0, <1>4 DEF RemoveOld
        <2>2. /\ ExactIn(index', docMeta', total') /\ docMeta'[writer[w].id] = NoDoc
              /\ \A other \in Ids : docMeta[other] = NoDoc => docMeta'[other] = NoDoc
            BY <2>1, DropExact DEF MInv
        <2>3. /\ writer'[w].id = writer[w].id
              /\ \A o \in Writers \ {w} : writer'[o] = writer[o]
            BY <1>0, <2>1 DEF WriterStates
        <2>4. Gap'
            BY <1>0, <2>1, <2>2, <2>3 DEF MInv, Gap
        <2>5. Apart'
            BY <2>1, <2>3 DEF MInv, Apart
        <2> QED
            BY <2>1, <2>2, <2>4, <2>5 DEF MInv
    <1>5. ASSUME NEW w \in Writers, InsertAgain(w)
          PROVE  MInv'
        <2>1. /\ writer[w].at = "relock" /\ ~clash
              /\ writer[w].id \in Ids /\ writer[w].meta \in Metas
              /\ Add(writer[w].id, writer[w].meta) /\ file' = file
              /\ writer' = [writer EXCEPT ![w] = IdleWriter]
            BY <1>0, <1>5 DEF InsertAgain
        <2>2. docMeta[writer[w].id] = NoDoc
            BY <2>1 DEF MInv, Gap
        <2>3. /\ ExactIn(index', docMeta', total')
              /\ \A other \in Ids \ {writer[w].id} : docMeta'[other] = docMeta[other]
            BY <2>1, <2>2, AddExact DEF MInv
        <2>4. /\ writer'[w].at = "idle"
              /\ \A o \in Writers \ {w} : writer'[o] = writer[o]
            BY <1>0, <2>1 DEF WriterStates, IdleWriter
        <2>5. \A o \in Writers \ {w} :
                  writer[o].at # "idle" => writer[o].id \in Ids /\ writer[o].id # writer[w].id
            BY <1>0, <2>1 DEF MInv, Apart
        <2>6. Gap'
            BY <2>1, <2>3, <2>4, <2>5 DEF MInv, Gap
        <2>7. Apart'
            BY <2>1, <2>4 DEF MInv, Apart
        <2> QED
            BY <2>1, <2>3, <2>6, <2>7 DEF MInv
    <1>6. ASSUME NEW w \in Writers, NEW id \in Ids, Remove(w, id)
          PROVE  MInv'
        <2>1. Drop(id) /\ UNCHANGED <<file, writer>> /\ ~clash
            BY <1>6 DEF Remove, Meet
        <2>2. /\ ExactIn(index', docMeta', total')
              /\ \A other \in Ids : docMeta[other] = NoDoc => docMeta'[other] = NoDoc
            BY <2>1, DropExact DEF MInv
        <2>3. Gap'
            BY <1>0, <2>1, <2>2 DEF MInv, Gap
        <2> QED
            BY <2>1, <2>2, <2>3 DEF MInv, Apart
    <1>7. CASE Save
        BY <1>7 DEF Save, store, MInv, Gap, Apart
    <1>8. CASE Load
        BY <1>8 DEF Load, MInv, Gap, Apart, IdleWriter
    <1>9. \A r \in Readers : (\E filters \in SUBSET Tags : FirstFilter(r, filters)) \/ NextFilter(r) \/ Return(r)
              => UNCHANGED <<store, file, writer, clash>>
        BY DEF FirstFilter, NextFilter, Return
    <1>10. UNCHANGED vars => UNCHANGED <<store, file, writer, clash>>
        BY DEF vars
    <1> QED
        BY <1>1, <1>2, <1>3, <1>4, <1>5, <1>6, <1>7, <1>8, <1>9, <1>10 DEF Next

\* Unless calls on one document overlapped, the bitmaps are what the stored
\* metadata says, with any number of writers.
THEOREM IndexIsExact == Spec => []IndexExact
    <1>1. MInv => IndexExact
        BY DEF MInv, ExactIn, TagsOf, IndexExact
    <1> QED
        BY <1>1, StepMInv, InitMInv, TypeCorrect, PTL DEF Spec

\* Unless calls on one document overlapped, total_docs_ is the number of stored
\* documents, with any number of writers.
THEOREM TotalIsExact == Spec => []TotalExact
    <1>1. MInv => TotalExact
        BY DEF MInv, ExactIn, PresentIn, TotalExact, Present
    <1> QED
        BY <1>1, StepMInv, InitMInv, TypeCorrect, PTL DEF Spec

-----------------------------------------------------------------------------
(* Any number of writers: no bitmap misses a document.                     *)

CompleteIn(ix, dm) == \A id \in Ids : dm[id] # NoDoc => dm[id] \X {id} \subseteq ix

CInv == CompleteIn(index, docMeta) /\ CompleteIn(file.index, file.docMeta)

LEMMA AddComplete ==
    ASSUME TypeOK, CInv, NEW id \in Ids, NEW meta \in Metas, Add(id, meta), file' = file
    PROVE  CInv'
    <1>1. docMeta' = [docMeta EXCEPT ![id] = meta] /\ docMeta \in [Ids -> Metas \cup {NoDoc}]
        BY DEF Add, TypeOK
    <1>2. index' = index \cup (meta \X {id})
        BY DEF Add
    <1>3. CompleteIn(index', docMeta')
        BY <1>1, <1>2 DEF CInv, CompleteIn
    <1> QED
        BY <1>3 DEF CInv

LEMMA DropComplete ==
    ASSUME TypeOK, CInv, NEW id \in Ids, Drop(id), file' = file
    PROVE  CInv'
    <1>1. CASE docMeta[id] = NoDoc
        BY <1>1 DEF Drop, store, CInv
    <1>2. CASE docMeta[id] # NoDoc
        <2>1. docMeta' = [docMeta EXCEPT ![id] = NoDoc] /\ docMeta \in [Ids -> Metas \cup {NoDoc}]
            BY <1>2 DEF Drop, TypeOK
        <2>2. index' = index \ (docMeta[id] \X {id})
            BY <1>2 DEF Drop
        <2>3. CompleteIn(index', docMeta')
            BY <2>1, <2>2 DEF CInv, CompleteIn
        <2> QED
            BY <2>3 DEF CInv
    <1> QED
        BY <1>1, <1>2

LEMMA StepCInv == TypeOK /\ CInv /\ [Next]_vars => CInv'
    <1> SUFFICES ASSUME TypeOK, CInv, [Next]_vars PROVE CInv'
        OBVIOUS
    <1>0. \A w \in Writers : writer[w].at # "idle" => writer[w].id \in Ids /\ writer[w].meta \in Metas
        BY DEF TypeOK, IdleWriter
    <1>1. CASE UNCHANGED <<store, file>>
        BY <1>1 DEF store, CInv
    <1>2. ASSUME NEW w \in Writers, NEW id \in Ids, NEW meta \in Metas,
                 InsertNew(w, id, meta) \/ InsertKnown(w, id, meta)
          PROVE  CInv'
        BY <1>1, <1>2, AddComplete DEF InsertNew, InsertKnown
    <1>3. ASSUME NEW w \in Writers, RemoveOld(w) \/ InsertAgain(w)
          PROVE  CInv'
        BY <1>0, <1>3, AddComplete, DropComplete DEF RemoveOld, InsertAgain
    <1>4. ASSUME NEW w \in Writers, NEW id \in Ids, Remove(w, id)
          PROVE  CInv'
        BY <1>4, DropComplete DEF Remove
    <1>5. CASE Save \/ Load
        BY <1>5 DEF Save, Load, store, CInv
    <1>6. \A r \in Readers : (\E filters \in SUBSET Tags : FirstFilter(r, filters)) \/ NextFilter(r) \/ Return(r)
              => UNCHANGED <<store, file>>
        BY DEF FirstFilter, NextFilter, Return
    <1>7. UNCHANGED vars => UNCHANGED <<store, file>>
        BY DEF vars
    <1> QED
        BY <1>1, <1>2, <1>3, <1>4, <1>5, <1>6, <1>7 DEF Next

\* Whatever writers race, every stored document is in the bitmap of each of its
\* tags.
THEOREM NoDocumentMissed == Spec => []IndexComplete
    <1>1. Init => CInv
        BY DEF Init, Empty, CInv, CompleteIn
    <1>2. CInv => IndexComplete
        BY DEF CInv, CompleteIn, IndexComplete, Present
    <1> QED
        BY <1>1, <1>2, StepCInv, TypeCorrect, PTL DEF Spec

-----------------------------------------------------------------------------
(* Any number of writers: selectivities are fractions.  A tag that outlives *)
(* its document was left by an insert over a stored one, which total_docs_  *)
(* counted once more.                                                       *)

\* Ids that some bitmap holds without their metadata saying so.
LeakedIn(ix, dm) ==
    {id \in Ids : \E t \in Tags : <<t, id>> \in ix /\ (dm[id] = NoDoc \/ t \notin dm[id])}

Outweighed(ix, dm, n) ==
    n >= Cardinality(PresentIn(dm)) + Cardinality(LeakedIn(ix, dm))

WInv == Outweighed(index, docMeta, total) /\ Outweighed(file.index, file.docMeta, file.total)

\* Finite sets of ids.
LEMMA IdSets ==
    ASSUME NEW S, S \subseteq Ids
    PROVE  IsFiniteSet(S) /\ Cardinality(S) \in Nat
    BY MetadataAssumption, FS_Subset, FS_CardinalityType

LEMMA FewerIds ==
    ASSUME NEW S, NEW T, S \subseteq T, T \subseteq Ids
    PROVE  Cardinality(S) <= Cardinality(T)
    BY IdSets, FS_Subset

LEMMA InWeights ==
    ASSUME NEW ix, NEW dm
    PROVE  /\ PresentIn(dm) \subseteq Ids /\ LeakedIn(ix, dm) \subseteq Ids
           /\ Cardinality(PresentIn(dm)) \in Nat /\ Cardinality(LeakedIn(ix, dm)) \in Nat
    <1>1. PresentIn(dm) \subseteq Ids /\ LeakedIn(ix, dm) \subseteq Ids
        BY DEF PresentIn, LeakedIn
    <1> QED
        BY <1>1, IdSets

LEMMA AddOutweighed ==
    ASSUME TypeOK, Outweighed(index, docMeta, total), NEW id \in Ids, NEW meta \in Metas,
           Add(id, meta)
    PROVE  Outweighed(index', docMeta', total')
    <1> DEFINE P == PresentIn(docMeta)
               K == LeakedIn(index, docMeta)
    <1>1. /\ index' = index \cup (meta \X {id})
          /\ docMeta' = [docMeta EXCEPT ![id] = meta] /\ docMeta \in [Ids -> Metas \cup {NoDoc}]
          /\ total' = total + 1 /\ total \in Int /\ meta # NoDoc
        BY MetadataAssumption DEF Add, TypeOK
    <1>2. /\ P \subseteq Ids /\ K \subseteq Ids /\ IsFiniteSet(P) /\ IsFiniteSet(K)
          /\ Cardinality(P) \in Nat /\ Cardinality(K) \in Nat
        BY InWeights, IdSets
    <1>3. Cardinality(PresentIn(docMeta')) \in Nat /\ Cardinality(LeakedIn(index', docMeta')) \in Nat
        BY InWeights
    <1>4. total >= Cardinality(P) + Cardinality(K)
        BY DEF Outweighed
    <1>5. CASE docMeta[id] = NoDoc
        <2>1. PresentIn(docMeta') = P \cup {id} /\ id \notin P
            BY <1>1, <1>5 DEF PresentIn
        <2>2. LeakedIn(index', docMeta') \subseteq K
            BY <1>1, <1>5 DEF LeakedIn
        <2> HIDE DEF P, K
        <2>3. Cardinality(PresentIn(docMeta')) = Cardinality(P) + 1
            BY <1>2, <2>1, FS_AddElement
        <2>4. Cardinality(LeakedIn(index', docMeta')) <= Cardinality(K)
            BY <1>2, <2>2, FewerIds
        <2> QED
            BY <1>1, <1>2, <1>3, <1>4, <2>3, <2>4 DEF Outweighed
    <1>6. CASE docMeta[id] # NoDoc
        <2>1. PresentIn(docMeta') = P
            BY <1>1, <1>6 DEF PresentIn
        <2>2. LeakedIn(index', docMeta') \subseteq K \cup {id}
            BY <1>1 DEF LeakedIn
        <2> HIDE DEF P, K
        <2>3. Cardinality(K \cup {id}) <= Cardinality(K) + 1
            <3>1. Cardinality(K \cup {id}) = IF id \in K THEN Cardinality(K) ELSE Cardinality(K) + 1
                BY <1>2, FS_AddElement
            <3> QED
                BY <1>2, <3>1
        <2>4. Cardinality(LeakedIn(index', docMeta')) <= Cardinality(K \cup {id})
            BY <1>2, <2>2, FewerIds
        <2>5. Cardinality(K \cup {id}) \in Nat
            BY <1>2, IdSets
        <2> QED
            BY <1>1, <1>2, <1>3, <1>4, <2>1, <2>3, <2>4, <2>5 DEF Outweighed
    <1> QED
        BY <1>5, <1>6

LEMMA DropOutweighed ==
    ASSUME TypeOK, Outweighed(index, docMeta, total), NEW id \in Ids, Drop(id)
    PROVE  Outweighed(index', docMeta', total')
    <1>1. CASE docMeta[id] = NoDoc
        BY <1>1 DEF Drop, store
    <1>2. CASE docMeta[id] # NoDoc
        <2> DEFINE P == PresentIn(docMeta)
                   K == LeakedIn(index, docMeta)
        <2>1. /\ index' = index \ (docMeta[id] \X {id}) /\ total' = total - 1
              /\ docMeta' = [docMeta EXCEPT ![id] = NoDoc] /\ docMeta \in [Ids -> Metas \cup {NoDoc}]
              /\ total \in Int
            BY <1>2 DEF Drop, TypeOK
        <2>2. /\ P \subseteq Ids /\ K \subseteq Ids /\ IsFiniteSet(P)
              /\ Cardinality(P) \in Nat /\ Cardinality(K) \in Nat
            BY InWeights, IdSets
        <2>3. Cardinality(PresentIn(docMeta')) \in Nat /\ Cardinality(LeakedIn(index', docMeta')) \in Nat
            BY InWeights
        <2>4. total >= Cardinality(P) + Cardinality(K)
            BY DEF Outweighed
        <2>5. PresentIn(docMeta') = P \ {id} /\ id \in P
            BY <1>2, <2>1 DEF PresentIn
        <2>6. LeakedIn(index', docMeta') \subseteq K
            BY <1>2, <2>1 DEF LeakedIn
        <2> HIDE DEF P, K
        <2>7. Cardinality(PresentIn(docMeta')) = Cardinality(P) - 1
            BY <2>2, <2>5, FS_RemoveElement
        <2>8. Cardinality(LeakedIn(index', docMeta')) <= Cardinality(K)
            BY <2>2, <2>6, FewerIds
        <2> QED
            BY <2>1, <2>2, <2>3, <2>4, <2>7, <2>8 DEF Outweighed
    <1> QED
        BY <1>1, <1>2

LEMMA InitWInv == Init => WInv
    <1> SUFFICES ASSUME Init PROVE WInv
        OBVIOUS
    <1>1. PresentIn(Empty.docMeta) = {} /\ LeakedIn(Empty.index, Empty.docMeta) = {} /\ Empty.total = 0
        BY DEF PresentIn, LeakedIn, Empty
    <1> QED
        BY <1>1, FS_EmptySet DEF Init, WInv, Outweighed

LEMMA StepWInv == TypeOK /\ WInv /\ [Next]_vars => WInv'
    <1> SUFFICES ASSUME TypeOK, WInv, [Next]_vars PROVE WInv'
        OBVIOUS
    <1>0. \A w \in Writers : writer[w].at # "idle" => writer[w].id \in Ids /\ writer[w].meta \in Metas
        BY DEF TypeOK, IdleWriter
    <1>1. CASE UNCHANGED <<store, file>>
        BY <1>1 DEF store, WInv
    <1>2. ASSUME NEW id \in Ids, file' = file, (\E meta \in Metas : Add(id, meta)) \/ Drop(id)
          PROVE  WInv'
        BY <1>2, AddOutweighed, DropOutweighed DEF WInv
    <1>3. ASSUME NEW w \in Writers, NEW id \in Ids,
                 \/ \E meta \in Metas : InsertNew(w, id, meta) \/ InsertKnown(w, id, meta)
                 \/ Remove(w, id)
          PROVE  WInv'
        BY <1>1, <1>2, <1>3 DEF InsertNew, InsertKnown, Remove
    <1>4. ASSUME NEW w \in Writers, RemoveOld(w) \/ InsertAgain(w)
          PROVE  WInv'
        BY <1>0, <1>2, <1>4 DEF RemoveOld, InsertAgain
    <1>5. CASE Save \/ Load
        BY <1>5 DEF Save, Load, store, WInv
    <1>6. \A r \in Readers : (\E filters \in SUBSET Tags : FirstFilter(r, filters)) \/ NextFilter(r) \/ Return(r)
              => UNCHANGED <<store, file>>
        BY DEF FirstFilter, NextFilter, Return
    <1>7. UNCHANGED vars => UNCHANGED <<store, file>>
        BY DEF vars
    <1> QED
        BY <1>1, <1>3, <1>4, <1>5, <1>6, <1>7 DEF Next

\* However writers clash, every selectivity lies between zero and one.
THEOREM SelectivityInRange == Spec => []SelectivityIsFraction
    <1>1. TypeOK /\ WInv => SelectivityIsFraction
        <2> SUFFICES ASSUME TypeOK, WInv, NEW t \in Tags
                     PROVE  0 <= Selectivity(t)[1] /\ Selectivity(t)[1] <= Selectivity(t)[2]
            BY DEF SelectivityIsFraction
        <2> DEFINE B == Bitmap(t)
                   P == PresentIn(docMeta)
                   K == LeakedIn(index, docMeta)
        <2>1. B \subseteq P \cup K /\ P \subseteq Ids /\ K \subseteq Ids
            BY DEF Bitmap, PresentIn, LeakedIn
        <2>2. total >= Cardinality(P) + Cardinality(K) /\ total \in Int
            BY DEF WInv, Outweighed, TypeOK
        <2>3. Selectivity(t) = IF total = 0 \/ B = {} THEN <<1, 1>> ELSE <<Cardinality(B), total>>
            BY DEF Selectivity
        <2> HIDE DEF B, P, K
        <2>4. Cardinality(B) <= Cardinality(P \cup K)
            BY <2>1, FewerIds
        <2>5. Cardinality(P \cup K) = Cardinality(P) + Cardinality(K) - Cardinality(P \cap K)
            BY <2>1, IdSets, FS_Union
        <2>6. /\ Cardinality(B) \in Nat /\ Cardinality(P) \in Nat /\ Cardinality(K) \in Nat
              /\ Cardinality(P \cap K) \in Nat
            BY <2>1, IdSets
        <2>7. Cardinality(B) <= total
            BY <2>2, <2>4, <2>5, <2>6
        <2> QED
            BY <2>3, <2>6, <2>7
    <1> QED
        BY <1>1, InitWInv, StepWInv, TypeCorrect, PTL DEF Spec

-----------------------------------------------------------------------------
(* Readers.                                                                *)

\* What a reader has so far is right about every document that nobody wrote
\* since it began, for the filters it has looked up.
ReaderRight(state) ==
    state.at # "idle" =>
        /\ state.left \subseteq state.asked /\ state.left # state.asked
        /\ \A id \in Ids \ state.touched :
               id \in state.result <=>
                   docMeta[id] # NoDoc /\ state.asked \ state.left \subseteq docMeta[id]

RInv == ~clash => \A r \in Readers : ReaderRight(reader[r])

\* A write is seen by every reader in the middle of a call.
LEMMA TouchRight ==
    ASSUME TypeOK, RInv, ~clash, NEW id \in Ids, Touch(id),
           \A other \in Ids \ {id} : docMeta'[other] = docMeta[other]
    PROVE  RInv'
    <1> SUFFICES ASSUME NEW r \in Readers, reader'[r].at # "idle" PROVE ReaderRight(reader[r])'
        BY DEF RInv, ReaderRight
    <1>1. reader[r] \in ReaderState
        BY DEF TypeOK
    <1>2. reader'[r] = IF reader[r].at = "idle" THEN reader[r]
                       ELSE [reader[r] EXCEPT !.touched = @ \cup {id}]
        BY DEF Touch
    <1>3. /\ reader[r].at # "idle" /\ reader'[r].left = reader[r].left
          /\ reader'[r].asked = reader[r].asked /\ reader'[r].result = reader[r].result
          /\ reader'[r].touched = reader[r].touched \cup {id}
        BY <1>1, <1>2 DEF ReaderState
    <1>4. ReaderRight(reader[r])
        BY DEF RInv
    <1> QED
        BY <1>3, <1>4 DEF ReaderRight

LEMMA WriteRight ==
    ASSUME TypeOK, RInv, ~clash, NEW id \in Ids, (\E meta \in Metas : Add(id, meta)) \/ Drop(id)
    PROVE  RInv'
    <1>1. docMeta \in [Ids -> Metas \cup {NoDoc}]
        BY DEF TypeOK
    <1>2. CASE \E meta \in Metas : Add(id, meta)
        BY <1>1, <1>2, TouchRight DEF Add
    <1>3. CASE Drop(id) /\ docMeta[id] # NoDoc
        BY <1>1, <1>3, TouchRight DEF Drop
    <1>4. CASE Drop(id) /\ docMeta[id] = NoDoc
        BY <1>4 DEF Drop, store, RInv, ReaderRight
    <1> QED
        BY <1>2, <1>3, <1>4

\* While the index is exact a lookup narrows the result down to its tag.
LEMMA LookupRight ==
    ASSUME TypeOK, MInv, RInv, ~clash, NEW r \in Readers, NEW t \in Tags, UNCHANGED docMeta,
           NEW asked \in SUBSET Tags, NEW left \in SUBSET Tags, t \in left, left \subseteq asked,
           NEW before, Lookup(r, asked, left, before, t),
           IF left = asked THEN TRUE
           ELSE \A id \in Ids \ before.touched :
                    id \in before.result <=>
                        docMeta[id] # NoDoc /\ asked \ left \subseteq docMeta[id]
    PROVE  RInv'
    <1>1. /\ reader'[r].at # "idle" /\ reader'[r].asked = asked /\ reader'[r].left = left \ {t}
          /\ reader'[r].result = IF left = asked THEN Bitmap(t) ELSE before.result \cap Bitmap(t)
          /\ reader'[r].touched = before.touched
          /\ \A o \in Readers \ {r} : reader'[o] = reader[o]
        BY DEF Lookup, TypeOK
    <1>2. \A id \in Ids : id \in Bitmap(t) <=> docMeta[id] # NoDoc /\ t \in docMeta[id]
        BY DEF MInv, ExactIn, TagsOf, Bitmap
    <1>3. \A id \in Ids \ before.touched :
              id \in reader'[r].result <=>
                  docMeta[id] # NoDoc /\ asked \ (left \ {t}) \subseteq docMeta[id]
        <2>1. CASE left = asked
            <3>1. asked \ (left \ {t}) = {t}
                BY <2>1
            <3> QED
                BY <1>1, <1>2, <2>1, <3>1
        <2>2. CASE left # asked
            <3>1. asked \ (left \ {t}) = (asked \ left) \cup {t}
                OBVIOUS
            <3> QED
                BY <1>1, <1>2, <2>2, <3>1
        <2> QED
            BY <2>1, <2>2
    <1>4. ReaderRight(reader[r])'
        BY <1>1, <1>3 DEF ReaderRight
    <1>5. \A o \in Readers \ {r} : ReaderRight(reader[o])'
        BY <1>1 DEF RInv, ReaderRight
    <1> QED
        BY <1>4, <1>5 DEF RInv

LEMMA StepRInv == TypeOK /\ MInv /\ RInv /\ [Next]_vars => RInv'
    <1> SUFFICES ASSUME TypeOK, MInv, RInv, [Next]_vars, ~clash' PROVE RInv'
        BY DEF RInv
    <1>0. \A w \in Writers : writer[w].at # "idle" => writer[w].id \in Ids /\ writer[w].meta \in Metas
        BY DEF TypeOK, IdleWriter
    <1>1. ASSUME ~clash, UNCHANGED <<docMeta, reader>> PROVE RInv'
        BY <1>1 DEF RInv, ReaderRight
    <1>2. ASSUME NEW w \in Writers, NEW id \in Ids,
                 \/ \E meta \in Metas : InsertNew(w, id, meta) \/ InsertKnown(w, id, meta)
                 \/ Remove(w, id)
          PROVE  RInv'
        <2>1. ~clash
            BY <1>2 DEF InsertNew, InsertKnown, Remove, Meet
        <2> QED
            BY <1>1, <1>2, <2>1, WriteRight DEF InsertNew, InsertKnown, Remove, store
    <1>3. ASSUME NEW w \in Writers, RemoveOld(w) \/ InsertAgain(w)
          PROVE  RInv'
        BY <1>0, <1>3, WriteRight DEF RemoveOld, InsertAgain
    <1>4. ASSUME NEW r \in Readers, NEW filters \in SUBSET Tags, FirstFilter(r, filters)
          PROVE  RInv'
        <2>1. PICK t \in filters : Lookup(r, filters, filters, IdleReader, t)
            BY <1>4 DEF FirstFilter
        <2>2. t \in Tags /\ ~clash /\ UNCHANGED docMeta
            BY <1>4 DEF FirstFilter, store
        <2> QED
            BY <2>1, <2>2, LookupRight
    <1>5. ASSUME NEW r \in Readers, NextFilter(r)
          PROVE  RInv'
        <2>1. PICK t \in reader[r].left :
                  Lookup(r, reader[r].asked, reader[r].left, reader[r], t)
            BY <1>5 DEF NextFilter
        <2>2. reader[r] \in ReaderState /\ reader[r].at # "idle" /\ ~clash /\ UNCHANGED docMeta
            BY <1>5 DEF NextFilter, store, TypeOK
        <2>3. reader[r].asked \in SUBSET Tags /\ reader[r].left \in SUBSET Tags /\ t \in Tags
            BY <2>2 DEF ReaderState
        <2>4. ReaderRight(reader[r])
            BY <2>2 DEF RInv
        <2>5. /\ reader[r].left \subseteq reader[r].asked
              /\ \A id \in Ids \ reader[r].touched :
                    id \in reader[r].result <=>
                        docMeta[id] # NoDoc /\ reader[r].asked \ reader[r].left \subseteq docMeta[id]
            BY <2>2, <2>4 DEF ReaderRight
        <2> QED
            BY <2>1, <2>2, <2>3, <2>5, LookupRight
    <1>6. ASSUME NEW r \in Readers, Return(r)
          PROVE  RInv'
        BY <1>6 DEF Return, store, TypeOK, RInv, ReaderRight, IdleReader
    <1>7. CASE Save
        BY <1>1, <1>7 DEF Save, store
    <1>8. CASE Load
        BY <1>8 DEF Load, RInv, ReaderRight, IdleReader
    <1>9. CASE UNCHANGED vars
        BY <1>1, <1>9 DEF vars, store
    <1> QED
        BY <1>2, <1>3, <1>4, <1>5, <1>6, <1>7, <1>8, <1>9 DEF Next

\* Unless calls clashed, an intersection of filters is right about every
\* document that nobody wrote while it ran.
THEOREM IntersectionIsStable == Spec => []IntersectStable
    <1>1. Init => RInv
        BY DEF Init, RInv, ReaderRight, IdleReader
    <1>2. Spec => [](TypeOK /\ MInv)
        BY InitMInv, StepMInv, TypeCorrect, PTL DEF Spec
    <1>3. TypeOK /\ RInv => IntersectStable
        <2> SUFFICES ASSUME TypeOK, RInv, ~clash, NEW r \in Readers, reader[r].at = "done",
                            NEW id \in Ids \ reader[r].touched
                     PROVE  id \in reader[r].result <=>
                                id \in Present /\ reader[r].asked \subseteq docMeta[id]
            BY DEF IntersectStable
        <2>1. reader[r].left = {}
            BY DEF TypeOK, ReaderState
        <2>2. ReaderRight(reader[r])
            BY DEF RInv
        <2> QED
            BY <2>1, <2>2 DEF ReaderRight, Present
    <1> QED
        BY <1>1, <1>2, <1>3, StepRInv, PTL DEF Spec
=============================================================================
