-------------------------- MODULE CollectionProofs --------------------------
(***************************************************************************)
(* Proofs about Collection.                                                *)
(*                                                                         *)
(* Of everything the collection may go through (Spec): its type invariant  *)
(* and the order of its segments, that no two of them share a log, that    *)
(* nothing writes a log the manifest lists as sealed, and that the         *)
(* metadata is what was last logged.                                       *)
(*                                                                         *)
(* Of a process that ends only while the manifest names every segment, and *)
(* removes nothing from a segment whose log a failed seal has closed       *)
(* (SpecListed): a rotated log is final, every index and every count is    *)
(* its log, the collection implements DocumentStore, and searches and      *)
(* sizes are exact for a careful client.  Calls that fail are part of      *)
(* both.                                                                   *)
(***************************************************************************)
EXTENDS CollectionStore, FiniteSetTheorems, WellFoundedInduction, TLAPS

-----------------------------------------------------------------------------
(* The inductive invariant, in named parts.                                *)

\* Segment ids increase, in memory and ahead of a load, up to the next id.  (A
\* rotation that threw leaves a gap.)
SegmentOrder ==
    /\ \A i, j \in 1 .. Len(segments) : i < j => segments[i].id < segments[j].id
    /\ \A i \in 1 .. Len(segments) : segments[i].id < mutable.id
    /\ \A i, j \in 1 .. Len(queue) : i < j => queue[i] < queue[j]
    /\ \A i \in 1 .. Len(queue) : mutable.id < queue[i] /\ queue[i] < nextId
    /\ mutable.id < nextId

ManifestOrder ==
    /\ \A i, j \in 1 .. Len(manifest.sealed) :
           i < j => manifest.sealed[i] < manifest.sealed[j]
    /\ \A i \in 1 .. Len(manifest.sealed) : manifest.sealed[i] < manifest.mutable
    /\ manifest.mutable < manifest.next

\* A load works its way to the mutable segment of the manifest.
LoadOrder ==
    pc = "replay" =>
        /\ nextId = manifest.next
        /\ queue = <<>> => mutable.id = manifest.mutable
        /\ queue # <<>> => queue[Len(queue)] = manifest.mutable

\* The running call has its arguments.
CallOK ==
    /\ pc \in {"index", "seal", "rotate", "meta"} => call.doc \in Docs /\ call.vec \in Vecs
    /\ pc \in {"rmLog", "rmIndex"} => call.doc \in Docs

\* A rotation always finds an id within the bound.
Room ==
    /\ pc = "index" => nextId < MaxSegs \/ mutable.count + 1 < Threshold
    /\ pc = "seal" => nextId < MaxSegs \/ mutable.count < Threshold
    /\ pc = "rotate" => nextId < MaxSegs

\* Nothing is queued unless a load is under way.
QueueIdle == pc # "replay" => queue = <<>>

IInv ==
    /\ TypeOK
    /\ SegmentOrder
    /\ ManifestOrder
    /\ CallOK
    /\ Room
    /\ LoadOrder
    /\ QueueIdle

-----------------------------------------------------------------------------
(* What the segment operators return.                                      *)

LEMMA SegIdsAreNats == SegIds \subseteq Nat
    BY CollectionAssumption DEF SegIds

LEMMA NextIdsAreNats == 1 .. MaxSegs \subseteq Nat \ {0}
    BY CollectionAssumption

LEMMA FreshSegmentType ==
    ASSUME NEW id \in SegIds
    PROVE  /\ FreshSegment(id) \in Segment
           /\ FreshSegment(id).id = id
           /\ FreshSegment(id).state = "MUTABLE"
           /\ FreshSegment(id).count = 0
    BY DEF FreshSegment, Segment, Nothing, Payload

LEMMA IndexedType ==
    ASSUME NEW seg \in Segment, NEW d \in Docs, NEW v \in Vecs
    PROVE  /\ Indexed(seg, d, v) \in Segment
           /\ Indexed(seg, d, v).id = seg.id
           /\ Indexed(seg, d, v).state = seg.state
           /\ Indexed(seg, d, v).count = seg.count + 1
    <1> DEFINE c  == [seg.cur EXCEPT ![d] = v]
               st == [seg.stale EXCEPT ![d] = @ \cup ({seg.cur[d]} \ {None})]
    <1>1. c \in [Docs -> Payload]
        BY DEF Segment, Payload
    <1>2. st \in [Docs -> SUBSET Vecs]
        BY DEF Segment, Payload
    <1>3. seg.count + 1 \in Nat
        BY DEF Segment
    <1> HIDE DEF c, st
    <1>4. Indexed(seg, d, v) = [id |-> seg.id, state |-> seg.state,
                                cur |-> c, stale |-> st, count |-> seg.count + 1]
        BY DEF Indexed, c, st
    <1>5. /\ Indexed(seg, d, v) \in Segment
          /\ Indexed(seg, d, v).id = seg.id
          /\ Indexed(seg, d, v).state = seg.state
          /\ Indexed(seg, d, v).count = seg.count + 1
        BY <1>1, <1>2, <1>3, <1>4 DEF Segment
    <1> QED
        BY <1>5 DEF c, st

\* Neither changes the id.
LEMMA IdsStay ==
    \A seg, d, v : Indexed(seg, d, v).id = seg.id /\ Unindexed(seg, d).id = seg.id
    BY DEF Indexed, Unindexed

LEMMA UnindexedType ==
    ASSUME NEW seg \in Segment, NEW d \in Docs
    PROVE  /\ Unindexed(seg, d) \in Segment
           /\ Unindexed(seg, d).id = seg.id
           /\ Unindexed(seg, d).state = seg.state
    <1> DEFINE c == [seg.cur EXCEPT ![d] = None]
               n == IF seg.count > 0 THEN seg.count - 1 ELSE 0
    <1>1. c \in [Docs -> Payload]
        BY DEF Segment, Payload
    <1>2. n \in Nat
        BY DEF Segment
    <1> HIDE DEF c, n
    <1>3. Unindexed(seg, d) = [id |-> seg.id, state |-> seg.state,
                               cur |-> c, stale |-> seg.stale, count |-> n]
        BY DEF Unindexed, c, n
    <1>4. /\ Unindexed(seg, d) \in Segment
          /\ Unindexed(seg, d).id = seg.id
          /\ Unindexed(seg, d).state = seg.state
        BY <1>1, <1>2, <1>3 DEF Segment
    <1> QED
        BY <1>4 DEF c, n

-----------------------------------------------------------------------------
LEMMA InitIInv == Init => IInv
    <1> SUFFICES ASSUME Init PROVE IInv
        OBVIOUS
    <1>0. 0 \in SegIds
        BY CollectionAssumption DEF SegIds
    <1>1. mutable \in Segment /\ mutable.id = 0 /\ mutable.state = "MUTABLE"
        BY <1>0, FreshSegmentType DEF Init
    <1>2. TypeOK
        <2>1. Nothing \in Contents
            BY DEF Nothing, Contents, Payload
        <2>2. BlankManifest \in Manifest
            BY <1>0, CollectionAssumption DEF BlankManifest, Manifest, SegIds
        <2>3. NoCall \in Call
            BY DEF NoCall, Call, Payload
        <2>4. wal \in [SegIds -> Seq(Entry)]
            BY DEF Init
        <2>5. nextId \in 1 .. MaxSegs
            BY CollectionAssumption DEF Init
        <2>6. metaFile \in [torn : BOOLEAN, data : Contents]
            BY <2>1 DEF Init
        <2>7. segments \in Seq(Segment) /\ queue \in Seq(SegIds) /\ pos \in Nat
            BY DEF Init
        <2>8. /\ pc \in PCs /\ configFile \in {"absent", "torn", "stored"}
              /\ careless \in BOOLEAN /\ unsaved \in SUBSET Docs /\ adrift \in SUBSET Docs
            BY DEF Init, PCs
        <2>9. manifest \in Manifest /\ call \in Call /\ docMeta \in Contents /\ truth \in Contents
            BY <2>1, <2>2, <2>3 DEF Init
        <2> QED
            BY <1>1, <2>4, <2>5, <2>6, <2>7, <2>8, <2>9 DEF TypeOK
    <1>3. SegmentOrder /\ ManifestOrder
        BY <1>1 DEF Init, SegmentOrder, ManifestOrder, BlankManifest
    <1> QED
        BY <1>1, <1>2, <1>3 DEF Init, IInv, CallOK, Room, LoadOrder, QueueIdle

-----------------------------------------------------------------------------
(* Each action preserves the invariant.                                    *)

\* mutable_segment_ joins segments_, and a later segment takes its place.
LEMMA AppendedOrder ==
    ASSUME IInv, segments' = Append(segments, mutable), mutable.id < mutable'.id,
           mutable'.id \in Nat
    PROVE  /\ \A i, j \in 1 .. Len(segments') : i < j => segments'[i].id < segments'[j].id
           /\ \A i \in 1 .. Len(segments') : segments'[i].id < mutable'.id
    <1>1. /\ Len(segments') = Len(segments) + 1 /\ Len(segments) \in Nat
          /\ \A i \in 1 .. Len(segments) : segments'[i] = segments[i]
          /\ segments'[Len(segments) + 1] = mutable
        BY DEF IInv, TypeOK
    <1>2. mutable.id \in Nat /\ \A i \in 1 .. Len(segments) : segments[i].id \in Nat
        <2>1. mutable \in Segment /\ \A i \in 1 .. Len(segments) : segments[i] \in Segment
            BY DEF IInv, TypeOK
        <2> QED
            BY <2>1, SegIdsAreNats DEF Segment
    <1>3. /\ \A i, j \in 1 .. Len(segments) : i < j => segments[i].id < segments[j].id
          /\ \A i \in 1 .. Len(segments) : segments[i].id < mutable.id
        BY DEF IInv, SegmentOrder
    <1> QED
        BY <1>1, <1>2, <1>3

LEMMA ConstructStep ==
    ASSUME IInv, Construct
    PROVE  IInv'
    <1>1. 0 \in SegIds /\ MaxSegs \in Nat \ {0}
        BY CollectionAssumption DEF SegIds
    <1>2. mutable' \in Segment /\ mutable'.id = 0 /\ mutable'.state = "MUTABLE"
        BY <1>1, FreshSegmentType DEF Construct
    <1>3. Nothing \in Contents /\ call' \in Call
        BY DEF Construct, Nothing, Contents, Payload, NoCall, Call
    <1>4. TypeOK'
        BY <1>1, <1>2, <1>3 DEF IInv, TypeOK, Construct, loader, PCs
    <1>5. queue = <<>>
        BY DEF IInv, QueueIdle, Construct
    <1>6. SegmentOrder' /\ ManifestOrder'
        BY <1>2, <1>5 DEF IInv, SegmentOrder, ManifestOrder, Construct, loader
    <1> QED
        BY <1>2, <1>4, <1>5, <1>6
        DEF IInv, CallOK, Room, LoadOrder, QueueIdle, Construct, loader

LEMMA LogType ==
    ASSUME TypeOK, NEW op, NEW d \in Docs, NEW v \in Payload, Log(op, d, v),
           [op |-> op, doc |-> d, vec |-> v] \in Entry
    PROVE  wal' \in [SegIds -> Seq(Entry)] /\ truth' \in Contents /\ unsaved' \in SUBSET Docs
    <1>1. mutable.id \in SegIds
        BY DEF TypeOK, Segment
    <1> QED
        BY <1>1 DEF TypeOK, Log, Contents

LEMMA UpsertLogStep ==
    ASSUME IInv, NEW d \in Docs, NEW v \in Vecs, UpsertLog(d, v)
    PROVE  IInv'
    <1>1. wal' \in [SegIds -> Seq(Entry)] /\ truth' \in Contents /\ unsaved' \in SUBSET Docs
        BY LogType DEF IInv, UpsertLog, Entry, Payload
    <1>2. call' \in Call
        BY DEF UpsertLog, Call, Payload
    <1>3. careless' \in BOOLEAN
        BY DEF UpsertLog
    <1>4. TypeOK'
        BY <1>1, <1>2, <1>3 DEF IInv, TypeOK, UpsertLog, memory, loader, PCs
    <1> QED
        BY <1>4
        DEF IInv, UpsertLog, memory, loader, SegmentOrder, ManifestOrder,
            CallOK, Room, LoadOrder, QueueIdle

LEMMA UpsertIndexStep ==
    ASSUME IInv, UpsertIndex
    PROVE  IInv'
    <1>1. mutable \in Segment /\ call.doc \in Docs /\ call.vec \in Vecs
        BY DEF IInv, TypeOK, CallOK, UpsertIndex
    <1>2. /\ mutable' \in Segment
          /\ mutable'.id = mutable.id
          /\ mutable'.state = mutable.state
          /\ mutable'.count = mutable.count + 1
        <2> DEFINE new == Indexed(mutable, call.doc, call.vec)
        <2>1. /\ new \in Segment
              /\ new.id = mutable.id
              /\ new.state = mutable.state
              /\ new.count = mutable.count + 1
            BY <1>1, IndexedType
        <2> HIDE DEF new
        <2>2. mutable' = new
            BY DEF UpsertIndex, new
        <2> QED
            BY <2>1, <2>2
    <1>3. TypeOK'
        BY <1>2 DEF IInv, TypeOK, UpsertIndex, disk, loader, history, PCs
    <1> QED
        BY <1>2, <1>3
        DEF IInv, UpsertIndex, disk, loader, SegmentOrder, ManifestOrder,
            CallOK, Room, LoadOrder, QueueIdle

LEMMA SealStep ==
    ASSUME IInv, Seal
    PROVE  IInv'
    <1>1. /\ mutable' \in Segment
          /\ mutable'.id = mutable.id
          /\ mutable'.count = mutable.count
          /\ pc' \in {"rotate", "meta"}
        BY DEF IInv, TypeOK, Seal, Segment
    <1>2. TypeOK'
        BY <1>1 DEF IInv, TypeOK, Seal, disk, loader, history, PCs
    <1>3. pc' = "rotate" => mutable.count >= Threshold
        BY DEF Seal
    <1>4. pc' = "rotate" => nextId < MaxSegs
        BY <1>3, CollectionAssumption DEF IInv, TypeOK, Room, Seal, Segment
    <1> QED
        BY <1>1, <1>2, <1>4
        DEF IInv, Seal, disk, loader, SegmentOrder, ManifestOrder,
            CallOK, Room, LoadOrder, QueueIdle

LEMMA SealThrowsStep ==
    ASSUME IInv, SealThrows
    PROVE  IInv'
    <1>1. mutable' \in Segment /\ mutable'.id = mutable.id
        BY DEF IInv, TypeOK, SealThrows, Segment
    <1>2. call.doc \in Docs /\ call' \in Call
        BY DEF IInv, CallOK, SealThrows, Return, NoCall, Call, Payload
    <1>3. TypeOK'
        BY <1>1, <1>2 DEF IInv, TypeOK, SealThrows, Return, disk, loader, PCs
    <1> QED
        BY <1>1, <1>3
        DEF IInv, SealThrows, Return, disk, loader, SegmentOrder, ManifestOrder,
            CallOK, Room, LoadOrder, QueueIdle

LEMMA RotateStep ==
    ASSUME IInv, Rotate
    PROVE  IInv'
    <1>1. nextId \in SegIds /\ nextId + 1 \in 1 .. MaxSegs /\ queue = <<>>
        BY CollectionAssumption
        DEF IInv, TypeOK, Room, QueueIdle, Rotate, SegIds
    <1>2. mutable' \in Segment /\ mutable'.id = nextId /\ mutable'.state = "MUTABLE"
        BY <1>1, FreshSegmentType DEF Rotate
    <1>3. segments' \in Seq(Segment)
        BY DEF IInv, TypeOK, Rotate
    <1>4. TypeOK'
        BY <1>1, <1>2, <1>3 DEF IInv, TypeOK, Rotate, disk, loader, history, PCs
    <1>5. SegmentOrder'
        <2>1. /\ segments' = Append(segments, mutable) /\ mutable.id < mutable'.id
              /\ mutable'.id \in Nat
            BY <1>1, <1>2, SegIdsAreNats DEF Rotate, IInv, SegmentOrder
        <2>2. /\ \A i, j \in 1 .. Len(segments') : i < j => segments'[i].id < segments'[j].id
              /\ \A i \in 1 .. Len(segments') : segments'[i].id < mutable'.id
            BY <2>1, AppendedOrder
        <2>3. Len(queue') = 0
            BY <1>1 DEF Rotate, loader
        <2>4. mutable'.id < nextId'
            BY <1>1, <1>2, <2>1 DEF Rotate
        <2> QED
            BY <2>2, <2>3, <2>4 DEF SegmentOrder
    <1> QED
        BY <1>1, <1>2, <1>4, <1>5
        DEF IInv, Rotate, disk, loader, ManifestOrder, CallOK, Room, LoadOrder, QueueIdle

LEMMA RotateThrowsStep ==
    ASSUME IInv, RotateThrows
    PROVE  IInv'
    <1>1. nextId' \in 1 .. MaxSegs /\ nextId < nextId'
        BY CollectionAssumption DEF IInv, TypeOK, Room, RotateThrows
    <1>2. call.doc \in Docs /\ call' \in Call
        BY DEF IInv, CallOK, RotateThrows, Return, NoCall, Call, Payload
    <1>3. TypeOK'
        BY <1>1, <1>2 DEF IInv, TypeOK, RotateThrows, Return, disk, loader, PCs
    <1>4. queue = <<>> /\ mutable.id \in SegIds /\ nextId \in 1 .. MaxSegs
        BY DEF IInv, TypeOK, QueueIdle, RotateThrows, Segment
    <1>5. SegmentOrder'
        BY <1>1, <1>4 DEF IInv, SegmentOrder, RotateThrows, loader, SegIds
    <1> QED
        BY <1>3, <1>5
        DEF IInv, RotateThrows, Return, disk, loader, ManifestOrder,
            CallOK, Room, LoadOrder, QueueIdle

LEMMA UpsertMetaStep ==
    ASSUME IInv, UpsertMeta
    PROVE  IInv'
    <1>1. docMeta' \in Contents /\ call' \in Call
        BY DEF IInv, TypeOK, CallOK, UpsertMeta, Return, Contents, Payload, NoCall, Call
    <1>2. TypeOK'
        BY <1>1 DEF IInv, TypeOK, UpsertMeta, Return, disk, loader, PCs
    <1> QED
        BY <1>2
        DEF IInv, UpsertMeta, Return, disk, loader, SegmentOrder, ManifestOrder,
            CallOK, Room, LoadOrder, QueueIdle

LEMMA RemoveMetaStep ==
    ASSUME IInv, NEW d \in Docs, RemoveMeta(d)
    PROVE  IInv'
    <1>1. docMeta' \in Contents /\ call' \in Call
        BY DEF IInv, TypeOK, RemoveMeta, Contents, Payload, Call
    <1>4. careless' \in BOOLEAN /\ truth' = truth
        BY DEF RemoveMeta
    <1>2. TypeOK'
        BY <1>1, <1>4 DEF IInv, TypeOK, RemoveMeta, disk, loader, PCs
    <1>3. call'.doc \in Docs
        BY DEF RemoveMeta
    <1> QED
        BY <1>2, <1>3
        DEF IInv, RemoveMeta, disk, loader, SegmentOrder, ManifestOrder,
            CallOK, Room, LoadOrder, QueueIdle

LEMMA RemoveLogStep ==
    ASSUME IInv, RemoveLog
    PROVE  IInv'
    <1>1. call.doc \in Docs /\ None \in Payload
        BY DEF IInv, CallOK, RemoveLog, Payload
    <1>2. wal' \in [SegIds -> Seq(Entry)] /\ truth' \in Contents /\ unsaved' \in SUBSET Docs
        BY <1>1, LogType DEF IInv, RemoveLog, Entry
    <1>3. TypeOK'
        BY <1>2 DEF IInv, TypeOK, RemoveLog, memory, loader, PCs
    <1> QED
        BY <1>3
        DEF IInv, RemoveLog, memory, loader, SegmentOrder, ManifestOrder,
            CallOK, Room, LoadOrder, QueueIdle

LEMMA RemoveCutStep ==
    ASSUME IInv, RemoveUnlogged \/ RemoveStops
    PROVE  IInv'
    <1>1. /\ call.doc \in Docs /\ call' \in Call /\ call' \in {call, NoCall}
          /\ pc = "rmLog" /\ pc' \in {"rmIndex", "idle"}
          /\ pc' = "rmIndex" => call' = call
          /\ adrift' = adrift \cup {call.doc}
          /\ UNCHANGED <<disk, memory, loader, truth, careless, unsaved>>
        BY DEF IInv, TypeOK, CallOK, RemoveUnlogged, RemoveStops, Return, NoCall, Call, Payload
    <1>2. TypeOK'
        BY <1>1 DEF IInv, TypeOK, disk, memory, loader, PCs
    <1> QED
        BY <1>1, <1>2
        DEF IInv, disk, memory, loader, SegmentOrder, ManifestOrder,
            CallOK, Room, LoadOrder, QueueIdle

LEMMA RemoveIndexStep ==
    ASSUME IInv, RemoveIndex
    PROVE  IInv'
    <1>1. /\ mutable' \in Segment
          /\ mutable'.id = mutable.id
          /\ mutable'.state = mutable.state
        BY UnindexedType DEF IInv, TypeOK, CallOK, RemoveIndex
    <1>2. TypeOK'
        BY <1>1
        DEF IInv, TypeOK, RemoveIndex, Return, disk, loader, history, PCs, NoCall, Call, Payload
    <1> QED
        BY <1>1, <1>2
        DEF IInv, RemoveIndex, Return, disk, loader, SegmentOrder, ManifestOrder,
            CallOK, Room, LoadOrder, QueueIdle

LEMMA SaveStep ==
    ASSUME IInv, Save
    PROVE  IInv'
    <1>1. call' \in Call
        BY DEF Save, NoCall, Call, Payload
    <1>2. TypeOK'
        BY <1>1 DEF IInv, TypeOK, Save, memory, loader, history, PCs
    <1> QED
        BY <1>2
        DEF IInv, Save, memory, loader,
            SegmentOrder, ManifestOrder, CallOK, Room, LoadOrder, QueueIdle

LEMMA WriteConfigStep ==
    ASSUME IInv, WriteConfig
    PROVE  IInv'
    <1>1. call' \in Call /\ pc' \in {"idle", "openMeta"}
        BY DEF IInv, TypeOK, WriteConfig, AfterConfig, Return, NoCall, Call, Payload
    <1>2. TypeOK'
        BY <1>1 DEF IInv, TypeOK, WriteConfig, memory, loader, history, PCs
    <1> QED
        BY <1>1, <1>2
        DEF IInv, WriteConfig, memory, loader,
            SegmentOrder, ManifestOrder, CallOK, Room, LoadOrder, QueueIdle

LEMMA MetaFileStep ==
    ASSUME IInv, OpenMeta \/ WriteMeta
    PROVE  IInv'
    <1>1. metaFile' \in [torn : BOOLEAN, data : Contents]
        <2>1. Nothing \in Contents /\ docMeta \in Contents
            BY DEF IInv, TypeOK, Nothing, Contents, Payload
        <2>2. CASE OpenMeta
            BY <2>1, <2>2 DEF OpenMeta
        <2>3. CASE WriteMeta
            BY <2>1, <2>3 DEF WriteMeta
        <2> QED
            BY <2>2, <2>3
    <1>2. TypeOK'
        BY <1>1 DEF IInv, TypeOK, OpenMeta, WriteMeta, memory, loader, history, PCs
    <1> QED
        BY <1>2
        DEF IInv, OpenMeta, WriteMeta, memory, loader,
            SegmentOrder, ManifestOrder, CallOK, Room, LoadOrder, QueueIdle

LEMMA OpenManifestStep ==
    ASSUME IInv, OpenManifest
    PROVE  IInv'
    <1>1. BlankManifest \in Manifest
        BY CollectionAssumption DEF BlankManifest, Manifest, SegIds
    <1>2. TypeOK'
        BY <1>1 DEF IInv, TypeOK, OpenManifest, memory, loader, history, PCs
    <1>3. ManifestOrder'
        BY DEF OpenManifest, ManifestOrder, BlankManifest
    <1> QED
        BY <1>2, <1>3
        DEF IInv, OpenManifest, memory, loader,
            SegmentOrder, CallOK, Room, LoadOrder, QueueIdle

\* Steps of a save that leave the files as they are.
LEMMA SaveFailsStep ==
    ASSUME IInv, SaveStops \/ WriteLost
    PROVE  IInv'
    <1>1. /\ call' \in Call
          /\ pc \notin {"replay", "index", "seal", "rotate", "meta", "rmLog", "rmIndex"}
          /\ pc' \in {"idle", "openMeta", "openManifest"}
          /\ UNCHANGED <<disk, memory, loader, history>>
        BY DEF IInv, TypeOK, SaveStops, WriteLost, AfterConfig, Return, NoCall, Call, Payload
    <1>2. TypeOK'
        BY <1>1 DEF IInv, TypeOK, disk, memory, loader, history, PCs
    <1> QED
        BY <1>1, <1>2
        DEF IInv, disk, memory, loader, SegmentOrder, ManifestOrder,
            CallOK, Room, LoadOrder, QueueIdle

LEMMA IdsOfSegments ==
    ASSUME IInv
    PROVE  LET ids == [i \in DOMAIN segments |-> segments[i].id]
           IN  /\ ids \in Seq(SegIds)
               /\ Len(ids) = Len(segments)
               /\ \A i \in 1 .. Len(segments) : ids[i] = segments[i].id
    <1> DEFINE ids == [i \in DOMAIN segments |-> segments[i].id]
    <1>1. DOMAIN segments = 1 .. Len(segments) /\ Len(segments) \in Nat
        BY DEF IInv, TypeOK
    <1>2. \A i \in 1 .. Len(segments) : segments[i] \in Segment
        BY <1>1 DEF IInv, TypeOK
    <1>3. \A i \in 1 .. Len(segments) : segments[i].id \in SegIds
        BY <1>2 DEF Segment
    <1>4. ids = [i \in 1 .. Len(segments) |-> segments[i].id]
        BY <1>1
    <1>5. \A n \in Nat : \A f \in [1 .. n -> SegIds] : f \in Seq(SegIds) /\ Len(f) = n
        OBVIOUS
    <1>6. ids \in [1 .. Len(segments) -> SegIds]
        BY <1>3, <1>4
    <1>7. \A i \in 1 .. Len(segments) : ids[i] = segments[i].id
        BY <1>4
    <1> QED
        BY <1>1, <1>5, <1>6, <1>7

LEMMA WriteManifestStep ==
    ASSUME IInv, WriteManifest
    PROVE  IInv'
    <1> DEFINE ids == [i \in DOMAIN segments |-> segments[i].id]
    <1>1. ids \in Seq(SegIds) /\ Len(ids) = Len(segments)
        BY IdsOfSegments
    <1>2. \A i \in 1 .. Len(segments) : ids[i] = segments[i].id
        BY IdsOfSegments
    <1> HIDE DEF ids
    <1>3. manifest' = [next |-> nextId, sealed |-> ids, mutable |-> mutable.id]
        BY DEF WriteManifest, ids
    <1>4. manifest' \in Manifest
        BY <1>1, <1>3 DEF IInv, TypeOK, Manifest, Segment
    <1>5. TypeOK'
        <2>1. pc' \in PCs /\ call' \in Call
            BY DEF IInv, TypeOK, WriteManifest, Return, PCs, NoCall, Call, Payload
        <2> QED
            BY <1>4, <2>1 DEF IInv, TypeOK, WriteManifest, memory, loader, history
    <1>6. queue = <<>>
        BY DEF IInv, QueueIdle, WriteManifest
    <1>7. ManifestOrder'
        BY <1>1, <1>2, <1>3 DEF IInv, SegmentOrder, ManifestOrder
    <1> QED
        BY <1>5, <1>6, <1>7
        DEF IInv, WriteManifest, Return, memory, loader,
            SegmentOrder, CallOK, Room, LoadOrder, QueueIdle

\* A step that ends with empty memory and no call.
LEMMA ForgetStep ==
    ASSUME IInv, Forget, pc' \in {"down", "failed"}, adrift' \in SUBSET Docs,
           UNCHANGED <<disk, truth, careless, unsaved>>
    PROVE  IInv'
    <1>1. 0 \in SegIds /\ MaxSegs \in Nat \ {0}
        BY CollectionAssumption DEF SegIds
    <1>2. mutable' \in Segment /\ mutable'.id = 0
        BY <1>1, FreshSegmentType DEF Forget
    <1>3. Nothing \in Contents /\ call' \in Call
        BY DEF Forget, Nothing, Contents, Payload, NoCall, Call
    <1>4. TypeOK'
        BY <1>1, <1>2, <1>3 DEF IInv, TypeOK, Forget, disk, PCs
    <1> QED
        BY <1>2, <1>4
        DEF IInv, Forget, disk, SegmentOrder, ManifestOrder,
            CallOK, Room, LoadOrder, QueueIdle

LEMMA LoadOpenStep ==
    ASSUME IInv, LoadOpen
    PROVE  IInv'
    <1> DEFINE ids == Append(manifest.sealed, manifest.mutable)
    <1>1. manifest.sealed \in Seq(SegIds) /\ manifest.mutable \in SegIds /\ manifest.next \in 1 .. MaxSegs
        BY DEF IInv, TypeOK, Manifest
    <1>2. ids \in Seq(SegIds) /\ Len(ids) = Len(manifest.sealed) + 1
        BY <1>1
    <1>3. /\ \A i, j \in 1 .. Len(ids) : i < j => ids[i] < ids[j]
          /\ \A i \in 1 .. Len(ids) : ids[i] < manifest.next
          /\ ids[Len(ids)] = manifest.mutable
        <2>1. /\ \A i \in 1 .. Len(manifest.sealed) : ids[i] = manifest.sealed[i]
              /\ ids[Len(manifest.sealed) + 1] = manifest.mutable
              /\ \A i \in 1 .. Len(ids) :
                     i \in 1 .. Len(manifest.sealed) \/ i = Len(manifest.sealed) + 1
            BY <1>1
        <2>2. /\ Len(manifest.sealed) \in Nat /\ manifest.next \in Nat /\ manifest.mutable \in Nat
              /\ \A i \in 1 .. Len(manifest.sealed) : manifest.sealed[i] \in Nat
            <3>1. \A i \in 1 .. Len(manifest.sealed) : manifest.sealed[i] \in SegIds
                BY <1>1
            <3>2. \A i \in 1 .. Len(manifest.sealed) : manifest.sealed[i] \in Nat
                BY <3>1, SegIdsAreNats
            <3>3. Len(manifest.sealed) \in Nat
                BY <1>1
            <3>4. manifest.next \in Nat
                BY <1>1, NextIdsAreNats
            <3>5. manifest.mutable \in Nat
                BY <1>1, SegIdsAreNats
            <3> QED
                BY <3>2, <3>3, <3>4, <3>5
        <2>3. /\ \A i, j \in 1 .. Len(manifest.sealed) :
                     i < j => manifest.sealed[i] < manifest.sealed[j]
              /\ \A i \in 1 .. Len(manifest.sealed) : manifest.sealed[i] < manifest.mutable
              /\ manifest.mutable < manifest.next
            BY DEF IInv, ManifestOrder
        <2> HIDE DEF ids
        <2>4. \A i \in 1 .. Len(ids) : ids[i] < manifest.next
            BY <2>1, <2>2, <2>3
        <2>5. \A i, j \in 1 .. Len(ids) : i < j => ids[i] < ids[j]
            <3>1. \A i, j \in 1 .. Len(ids) : i < j => i \in 1 .. Len(manifest.sealed)
                BY <1>2, <2>2
            <3> QED
                BY <2>1, <2>3, <3>1
        <2> QED
            BY <1>2, <2>1, <2>4, <2>5
    <1> HIDE DEF ids
    <1>4. /\ mutable' = FreshSegment(Head(ids)) /\ queue' = Tail(ids)
          /\ segments' = <<>> /\ nextId' = manifest.next /\ docMeta' = metaFile.data
          /\ pos' = 0 /\ pc' = "replay" /\ call' = [NoCall EXCEPT !.op = "load"]
          /\ UNCHANGED <<wal, configFile, metaFile, manifest, truth, careless, unsaved, adrift>>
        BY DEF LoadOpen, ids, disk, history
    <1>5. Head(ids) \in SegIds /\ Head(ids) = ids[1]
        BY <1>1, <1>2
    <1>6. mutable' \in Segment /\ mutable'.id = ids[1]
        BY <1>4, <1>5, FreshSegmentType
    <1>7. /\ queue' \in Seq(SegIds)
          /\ Len(queue') = Len(manifest.sealed)
          /\ \A i \in 1 .. Len(queue') : queue'[i] = ids[i + 1]
        <2>1. /\ Tail(ids) \in Seq(SegIds) /\ Len(Tail(ids)) = Len(ids) - 1
              /\ \A i \in 1 .. Len(ids) - 1 : Tail(ids)[i] = ids[i + 1]
            BY <1>2
        <2>2. queue' = Tail(ids)
            BY <1>4
        <2> QED
            BY <1>1, <1>2, <2>1, <2>2
    <1>8. TypeOK'
        <2>1. call' \in Call
            BY <1>4 DEF NoCall, Call, Payload
        <2>2. /\ wal' \in [SegIds -> Seq(Entry)] /\ configFile' \in {"absent", "torn", "stored"}
              /\ metaFile' \in [torn : BOOLEAN, data : Contents] /\ manifest' \in Manifest
              /\ truth' \in Contents /\ careless' \in BOOLEAN
              /\ unsaved' \in SUBSET Docs /\ adrift' \in SUBSET Docs
            BY <1>4 DEF IInv, TypeOK
        <2>3. docMeta' \in Contents
            BY <1>4 DEF IInv, TypeOK
        <2>4. segments' \in Seq(Segment) /\ pos' \in Nat /\ pc' \in PCs
            BY <1>4 DEF PCs
        <2>5. nextId' \in 1 .. MaxSegs
            BY <1>1, <1>4
        <2> QED
            BY <1>6, <1>7, <2>1, <2>2, <2>3, <2>4, <2>5, Zenon DEF TypeOK
    <1>9. SegmentOrder'
        <2>1. Len(segments') = 0 /\ nextId' = manifest.next /\ mutable'.id = ids[1]
            BY <1>4, <1>6
        <2>2. Len(queue') \in Nat /\ Len(ids) = Len(queue') + 1
            BY <1>2, <1>7
        <2>3. /\ \A i, j \in 1 .. Len(queue') : i < j => queue'[i] < queue'[j]
              /\ \A i \in 1 .. Len(queue') : ids[1] < queue'[i] /\ queue'[i] < manifest.next
              /\ ids[1] < manifest.next
            <3>1. \A i \in 1 .. Len(queue') : i + 1 \in 1 .. Len(ids) /\ 1 < i + 1
                BY <2>2
            <3>2. 1 \in 1 .. Len(ids)
                BY <2>2
            <3> QED
                BY <1>3, <1>7, <2>2, <3>1, <3>2
        <2> QED
            BY <2>1, <2>3 DEF SegmentOrder
    <1>10. LoadOrder'
        <2>1. queue' = <<>> => Len(queue') = 0
            OBVIOUS
        <2>2. queue' # <<>> => Len(queue') \in 1 .. Len(queue')
            BY <1>7
        <2>3. nextId' = manifest'.next /\ ids[Len(ids)] = manifest'.mutable
            BY <1>3, <1>4
        <2>4. queue' = <<>> => mutable'.id = ids[Len(ids)]
            BY <1>2, <1>6, <1>7, <2>1
        <2>5. queue' # <<>> => queue'[Len(queue')] = ids[Len(ids)]
            <3>1. Len(queue') \in Nat /\ Len(queue') + 1 = Len(ids)
                BY <1>2, <1>7
            <3> QED
                BY <1>7, <2>2, <3>1
        <2> QED
            BY <2>3, <2>4, <2>5 DEF LoadOrder
    <1> QED
        BY <1>4, <1>8, <1>9, <1>10 DEF IInv, ManifestOrder, CallOK, Room, QueueIdle

LEMMA LoadThrowsStep ==
    ASSUME IInv, LoadThrows
    PROVE  IInv'
    <1>1. TypeOK'
        BY DEF IInv, TypeOK, LoadThrows, disk, memory, loader, history, PCs
    <1> QED
        BY <1>1
        DEF IInv, LoadThrows, disk, memory, loader, SegmentOrder, ManifestOrder,
            CallOK, Room, LoadOrder, QueueIdle

LEMMA ReplayThrowsStep ==
    ASSUME IInv, ReplayThrows
    PROVE  IInv'
    <1>1. /\ Forget /\ pc' \in {"down", "failed"} /\ adrift' \in SUBSET Docs
          /\ UNCHANGED <<disk, truth, careless, unsaved>>
        BY DEF IInv, TypeOK, ReplayThrows, history
    <1> QED
        BY <1>1, ForgetStep

LEMMA ReplayEntryStep ==
    ASSUME IInv, ReplayEntry
    PROVE  IInv'
    <1> DEFINE entry == wal[mutable.id][pos + 1]
    <1>1. mutable \in Segment /\ mutable.id \in SegIds /\ pos \in Nat
        BY DEF IInv, TypeOK, Segment
    <1>2. entry \in Entry
        <2>1. wal[mutable.id] \in Seq(Entry)
            BY <1>1 DEF IInv, TypeOK
        <2> QED
            BY <1>1, <2>1 DEF ReplayEntry
    <1>3. /\ entry.doc \in Docs
          /\ entry.op = "INSERT" => entry.vec \in Vecs
        BY <1>2 DEF Entry
    <1> HIDE DEF entry
    <1>4. \/ /\ entry.op = "INSERT"
             /\ mutable' = Indexed(mutable, entry.doc, entry.vec)
             /\ pos' = pos + 1
             /\ pc' = pc
          \/ /\ mutable' = Unindexed(mutable, entry.doc)
             /\ pos' = pos + 1
             /\ pc' = pc
        BY DEF ReplayEntry, entry
    <1>5. /\ mutable' \in Segment
          /\ mutable'.id = mutable.id
          /\ mutable'.state = mutable.state
          /\ pos' \in Nat
          /\ pc = "replay" /\ pc' = "replay"
        BY <1>1, <1>3, <1>4, IndexedType, UnindexedType DEF ReplayEntry
    <1>6. TypeOK'
        BY <1>5 DEF IInv, TypeOK, ReplayEntry, disk, history, PCs
    <1> QED
        BY <1>5, <1>6
        DEF IInv, ReplayEntry, disk, SegmentOrder, ManifestOrder,
            CallOK, Room, LoadOrder, QueueIdle

LEMMA ReplayNextStep ==
    ASSUME IInv, ReplayNext
    PROVE  IInv'
    <1>1. CASE queue = <<>>
        <2>1. pc' = "idle" /\ call' = NoCall /\ UNCHANGED <<segments, mutable, queue>>
            BY <1>1 DEF ReplayNext, Return
        <2>2. TypeOK'
            BY <2>1 DEF IInv, TypeOK, ReplayNext, disk, history, PCs, NoCall, Call, Payload
        <2> QED
            BY <1>1, <2>1, <2>2
            DEF IInv, ReplayNext, disk, SegmentOrder, ManifestOrder,
                CallOK, Room, LoadOrder, QueueIdle
    <1>2. CASE queue # <<>>
        <2>1. /\ segments' = Append(segments, mutable)
              /\ mutable' = FreshSegment(Head(queue))
              /\ queue' = Tail(queue)
              /\ pc' = "replay" /\ pc = "replay" /\ call' = call
              /\ nextId' = nextId
            BY <1>2 DEF ReplayNext
        <2>2. queue \in Seq(SegIds) /\ segments \in Seq(Segment) /\ mutable \in Segment
            BY DEF IInv, TypeOK
        <2>3. /\ Head(queue) \in SegIds
              /\ Head(queue) = queue[1]
              /\ queue' \in Seq(SegIds)
              /\ Len(queue') = Len(queue) - 1
              /\ \A i \in 1 .. Len(queue') : queue'[i] = queue[i + 1]
            BY <1>2, <2>1, <2>2
        <2>4. mutable' \in Segment /\ mutable'.id = Head(queue) /\ mutable'.state = "MUTABLE"
            BY <2>1, <2>3, FreshSegmentType
        <2>5. /\ segments' \in Seq(Segment)
              /\ Len(segments') = Len(segments) + 1
              /\ \A i \in 1 .. Len(segments) : segments'[i] = segments[i]
              /\ segments'[Len(segments) + 1] = mutable
            BY <2>1, <2>2
        <2>6. TypeOK'
            BY <2>1, <2>3, <2>4, <2>5 DEF IInv, TypeOK, ReplayNext, disk, history, PCs
        <2>7. SegmentOrder'
            <3>1. /\ Len(queue) \in Nat \ {0} /\ Len(queue) = Len(queue') + 1
                  /\ Len(queue') \in Nat
                BY <1>2, <2>2, <2>3
            <3>2. /\ \A i, j \in 1 .. Len(queue) : i < j => queue[i] < queue[j]
                  /\ \A i \in 1 .. Len(queue) : mutable.id < queue[i] /\ queue[i] < nextId
                BY DEF IInv, SegmentOrder
            <3>3. mutable.id < mutable'.id /\ mutable'.id < nextId'
                BY <2>1, <2>3, <2>4, <3>1, <3>2
            <3>4. /\ \A i, j \in 1 .. Len(segments') : i < j => segments'[i].id < segments'[j].id
                  /\ \A i \in 1 .. Len(segments') : segments'[i].id < mutable'.id
                <4>1. mutable'.id \in Nat
                    BY <2>3, <2>4, SegIdsAreNats
                <4> QED
                    BY <2>1, <3>3, <4>1, AppendedOrder
            <3>5. /\ \A i, j \in 1 .. Len(queue') : i < j => queue'[i] < queue'[j]
                  /\ \A i \in 1 .. Len(queue') : mutable'.id < queue'[i] /\ queue'[i] < nextId'
                BY <2>1, <2>3, <2>4, <3>1, <3>2
            <3> QED
                BY <3>3, <3>4, <3>5 DEF SegmentOrder
        <2>8. LoadOrder'
            <3>1. Len(queue) \in Nat \ {0} /\ Len(queue) = Len(queue') + 1 /\ Len(queue') \in Nat
                BY <1>2, <2>2, <2>3
            <3>2. queue[Len(queue)] = manifest.mutable /\ nextId = manifest.next
                BY <1>2, <2>1 DEF IInv, LoadOrder
            <3>3. manifest' = manifest
                BY DEF ReplayNext, disk
            <3>4. queue' = <<>> => Len(queue') = 0
                OBVIOUS
            <3>5. queue' # <<>> => Len(queue') \in 1 .. Len(queue')
                BY <2>3, <3>1
            <3> QED
                BY <2>1, <2>3, <2>4, <3>1, <3>2, <3>3, <3>4, <3>5 DEF LoadOrder
        <2> QED
            BY <2>1, <2>6, <2>7, <2>8
            DEF IInv, ReplayNext, disk, ManifestOrder, CallOK, Room, QueueIdle
    <1> QED
        BY <1>1, <1>2

LEMMA StopStep ==
    ASSUME IInv, Stop
    PROVE  IInv'
    <1>1. adrift' \in SUBSET Docs
        BY DEF IInv, TypeOK, Stop
    <1> QED
        BY <1>1, ForgetStep DEF IInv, Stop

LEMMA StepIInv == IInv /\ [Next]_vars => IInv'
    <1> SUFFICES ASSUME IInv, [Next]_vars PROVE IInv'
        OBVIOUS
    <1>1. CASE UNCHANGED vars
        BY <1>1
        DEF vars, disk, memory, loader, history, IInv, TypeOK, SegmentOrder,
            ManifestOrder, CallOK, Room, LoadOrder, QueueIdle
    <1>2. CASE Upsert
        BY <1>2, UpsertLogStep DEF Upsert
    <1>3. CASE Remove
        BY <1>3, RemoveMetaStep DEF Remove
    <1>4. CASE Manage
        BY <1>4, ConstructStep, SaveStep, LoadOpenStep, LoadThrowsStep DEF Manage, Create
    <1>8. CASE Fail
        BY <1>8, SealThrowsStep, RotateThrowsStep, RemoveCutStep, SaveFailsStep, ReplayThrowsStep
        DEF Fail
    <1>9. CASE RemoveUnlogged
        BY <1>9, RemoveCutStep
    <1>5. CASE Advance
        BY <1>5, UpsertIndexStep, SealStep, RotateStep, UpsertMetaStep, RemoveLogStep,
           RemoveIndexStep, WriteConfigStep, MetaFileStep, OpenManifestStep,
           WriteManifestStep, ReplayEntryStep, ReplayNextStep
        DEF Advance
    <1>6. CASE Stop
        BY <1>6, StopStep
    <1>7. CASE Recreate
        BY <1>7, ConstructStep DEF Recreate
    <1> QED
        BY <1>1, <1>2, <1>3, <1>4, <1>5, <1>6, <1>7, <1>8, <1>9 DEF Next, NextCrash

-----------------------------------------------------------------------------
(* Theorems.                                                               *)

LEMMA Invariance == Spec => []IInv
    BY InitIInv, StepIInv, PTL DEF Spec

\* Type correctness, whatever is saved, interrupted, loaded or recreated.
THEOREM TypeCorrect == Spec => []TypeOK
    <1>1. IInv => TypeOK
        BY DEF IInv
    <1> QED
        BY <1>1, Invariance, PTL

\* No two segments ever append to the same log file: ids increase from the sealed
\* segments over the mutable one to those a load has queued, below the next id.
THEOREM LogsDistinct == Spec => []DistinctLogs
    <1>1. IInv => DistinctLogs
        <2> SUFFICES ASSUME IInv PROVE DistinctLogs
            OBVIOUS
        <2> DEFINE front == [i \in DOMAIN segments |-> segments[i].id]
                   ids   == front \o <<mutable.id>> \o queue
                   n     == Len(front)
                   m     == Len(queue)
        <2>1. /\ front \in Seq(SegIds) /\ n = Len(segments)
              /\ \A i \in 1 .. Len(segments) : front[i] = segments[i].id
            BY IdsOfSegments
        <2> HIDE DEF front
        <2>2. queue \in Seq(SegIds) /\ mutable.id \in SegIds /\ nextId \in Nat
            BY DEF IInv, TypeOK, Segment
        <2>3. n \in Nat /\ m \in Nat
            BY <2>1, <2>2
        <2>4. /\ DOMAIN ids = 1 .. n + 1 + m
              /\ \A i \in 1 .. n + 1 + m :
                     ids[i] = IF i <= n THEN front[i]
                              ELSE IF i = n + 1 THEN mutable.id
                              ELSE queue[i - n - 1]
            <3>1. /\ front \o <<mutable.id>> \in Seq(SegIds)
                  /\ Len(front \o <<mutable.id>>) = n + 1
                  /\ \A i \in 1 .. n + 1 :
                         (front \o <<mutable.id>>)[i] = IF i <= n THEN front[i] ELSE mutable.id
                BY <2>1, <2>2, <2>3
            <3> DEFINE left == front \o <<mutable.id>>
            <3> HIDE DEF left
            <3>2. left \in Seq(SegIds) /\ Len(left) = n + 1
                BY <3>1 DEF left
            <3>3. /\ DOMAIN (left \o queue) = 1 .. n + 1 + m
                  /\ \A i \in 1 .. n + 1 + m :
                         (left \o queue)[i] = IF i <= n + 1 THEN left[i] ELSE queue[i - (n + 1)]
                BY <2>2, <2>3, <3>2
            <3>4. \A i \in 1 .. n + 1 : left[i] = IF i <= n THEN front[i] ELSE mutable.id
                BY <3>1 DEF left
            <3>5. ids = left \o queue
                BY DEF left
            <3> HIDE DEF ids
            <3> QED
                BY <2>3, <3>3, <3>4, <3>5
        <2>5. /\ \A i, j \in 1 .. n : i < j => front[i] < front[j]
              /\ \A i \in 1 .. n : front[i] < mutable.id
              /\ \A i, j \in 1 .. m : i < j => queue[i] < queue[j]
              /\ \A i \in 1 .. m : mutable.id < queue[i] /\ queue[i] < nextId
              /\ mutable.id < nextId
            BY <2>1 DEF IInv, SegmentOrder
        <2>6. /\ \A i \in 1 .. n : front[i] \in Nat
              /\ \A i \in 1 .. m : queue[i] \in Nat
              /\ mutable.id \in Nat
            <3>1. /\ \A i \in 1 .. n : front[i] \in SegIds
                  /\ \A i \in 1 .. m : queue[i] \in SegIds
                BY <2>1, <2>2
            <3> QED
                BY <2>2, <3>1, SegIdsAreNats
        <2> HIDE DEF ids, n, m
        <2>7. ASSUME NEW i \in 1 .. n + 1 + m
              PROVE  /\ ids[i] \in Nat /\ ids[i] < nextId
                     /\ i <= n => ids[i] < mutable.id
                     /\ i > n + 1 => mutable.id < ids[i]
            <3>1. CASE i <= n
                <4>1. ids[i] = front[i] /\ i \in 1 .. n /\ ~(i > n + 1)
                    BY <2>3, <2>4, <3>1
                <4> QED
                    BY <2>2, <2>5, <2>6, <4>1
            <3>2. CASE i = n + 1
                BY <2>2, <2>3, <2>4, <2>5, <2>6, <3>2
            <3>3. CASE i > n + 1
                <4>1. ids[i] = queue[i - n - 1] /\ i - n - 1 \in 1 .. m /\ ~(i <= n)
                    BY <2>3, <2>4, <3>3
                <4> QED
                    BY <2>2, <2>5, <2>6, <4>1
            <3> QED
                BY <2>3, <3>1, <3>2, <3>3
        <2>8. ASSUME NEW i \in 1 .. n + 1 + m, NEW j \in 1 .. n + 1 + m, i < j
              PROVE  ids[i] < ids[j]
            <3>1. CASE j <= n
                <4>1. /\ ids[i] = front[i] /\ ids[j] = front[j]
                      /\ i \in 1 .. n /\ j \in 1 .. n
                    BY <2>3, <2>4, <2>8, <3>1
                <4> QED
                    BY <2>5, <2>8, <4>1
            <3>2. CASE i > n + 1
                <4>1. /\ ids[i] = queue[i - n - 1] /\ ids[j] = queue[j - n - 1]
                      /\ i - n - 1 \in 1 .. m /\ j - n - 1 \in 1 .. m
                      /\ i - n - 1 < j - n - 1
                    BY <2>3, <2>4, <2>8, <3>2
                <4> QED
                    BY <2>5, <4>1
            <3>3. CASE j > n /\ i <= n + 1
                <4>1. ids[n + 1] = mutable.id
                    BY <2>3, <2>4
                <4> QED
                    BY <2>3, <2>6, <2>7, <2>8, <3>3, <4>1
            <3> QED
                BY <2>3, <3>1, <3>2, <3>3
        <2>9. \A i \in DOMAIN ids :
                 /\ ids[i] < nextId
                 /\ \A j \in DOMAIN ids : ids[i] = ids[j] => i = j
            <3>1. ASSUME NEW i \in DOMAIN ids, NEW j \in DOMAIN ids, ids[i] = ids[j] PROVE i = j
                <4>1. i \in 1 .. n + 1 + m /\ j \in 1 .. n + 1 + m
                    BY <2>4
                <4>2. ~(i < j) /\ ~(j < i)
                    BY <2>7, <2>8, <3>1, <4>1
                <4> QED
                    BY <2>3, <4>1, <4>2
            <3> QED
                BY <2>4, <2>7, <3>1
        <2> QED
            BY <2>9 DEF DistinctLogs, ids, front
    <1> QED
        BY <1>1, Invariance, PTL

-----------------------------------------------------------------------------
(* Logs of sealed segments.                                                *)

\* Only the mutable segment's log is ever written, and only while it is open.
LEMMA OnlyMutableLogWritten ==
    ASSUME IInv, [Next]_vars, wal' # wal
    PROVE  /\ pc \in {"idle", "rmLog"}
           /\ mutable.state = "MUTABLE"
           /\ pc' \in {"index", "rmIndex"}
           /\ UNCHANGED <<memory, manifest>>
           /\ \A id \in SegIds : id # mutable.id => wal'[id] = wal[id]
    <1>1. \/ RemoveLog
          \/ \E d \in Docs, v \in Vecs : UpsertLog(d, v)
        BY DEF Next, NextCrash, Advance, Fail, Manage, Upsert, Remove, vars, disk,
               UpsertIndex, Seal, SealThrows, Rotate, RotateThrows, UpsertMeta, RemoveMeta,
               RemoveUnlogged, RemoveStops, RemoveIndex, Create, Recreate, Construct, Save,
               WriteConfig, OpenMeta, WriteMeta, OpenManifest, WriteManifest, SaveStops,
               WriteLost, LoadOpen, LoadThrows, ReplayEntry, ReplayNext, ReplayThrows, Stop
    <1>2. PICK op, d, v : /\ Log(op, d, v) /\ pc \in {"idle", "rmLog"}
                          /\ mutable.state = "MUTABLE" /\ pc' \in {"index", "rmIndex"}
                          /\ UNCHANGED <<memory, manifest>>
        BY <1>1 DEF UpsertLog, RemoveLog
    <1> QED
        BY <1>2 DEF Log, IInv, TypeOK

\* What the manifest lists as sealed comes before the segment that takes writes,
\* unless the directory was recreated.
SealedBelow ==
    /\ pc = "rotate" => mutable.state = "SEALED"
    /\ ~Loading /\ mutable.state = "MUTABLE" /\ ~Behind =>
           \A i \in 1 .. Len(manifest.sealed) : manifest.sealed[i] < mutable.id

LEMMA InitSealedBelow == Init => SealedBelow
    BY DEF Init, SealedBelow, Loading

\* Steps that leave the order of things alone.
LEMMA SameSealedBelow ==
    ASSUME SealedBelow, UNCHANGED <<nextId, manifest>>, Loading => Loading', pc' # "rotate",
           mutable'.id = mutable.id, mutable'.state = "MUTABLE" => mutable.state = "MUTABLE"
    PROVE  SealedBelow'
    BY DEF SealedBelow, Behind

LEMMA StepSealedBelow == IInv /\ SealedBelow /\ [Next]_vars => SealedBelow'
    <1> SUFFICES ASSUME IInv, SealedBelow, [Next]_vars PROVE SealedBelow'
        OBVIOUS
    <1>0. /\ nextId \in Nat \ {0} /\ manifest.next \in Nat /\ manifest.mutable \in Nat
          /\ Len(manifest.sealed) \in Nat
          /\ \A i \in 1 .. Len(manifest.sealed) : manifest.sealed[i] \in Nat
        <2>1. /\ manifest.sealed \in Seq(SegIds) /\ manifest.mutable \in SegIds
              /\ manifest.next \in 1 .. MaxSegs /\ nextId \in 1 .. MaxSegs
            BY DEF IInv, TypeOK, Manifest
        <2>2. \A i \in 1 .. Len(manifest.sealed) : manifest.sealed[i] \in SegIds
            BY <2>1
        <2>3. \A i \in 1 .. Len(manifest.sealed) : manifest.sealed[i] \in Nat
            BY <2>2, SegIdsAreNats
        <2>4. Len(manifest.sealed) \in Nat
            BY <2>1
        <2>5. nextId \in Nat \ {0} /\ manifest.next \in Nat
            BY <2>1, NextIdsAreNats
        <2>6. manifest.mutable \in Nat
            BY <2>1, SegIdsAreNats
        <2> QED
            BY <2>3, <2>4, <2>5, <2>6
    <1>00. /\ \A i \in 1 .. Len(manifest.sealed) : manifest.sealed[i] < manifest.mutable
           /\ manifest.mutable < manifest.next
        BY DEF IInv, ManifestOrder
    <1>1. CASE UNCHANGED vars
        BY <1>1 DEF vars, disk, memory, SealedBelow, Loading, Behind
    <1>2. CASE Upsert
        BY <1>2, SameSealedBelow DEF Upsert, UpsertLog, memory, Loading
    <1>3. CASE Remove \/ RemoveUnlogged
        BY <1>3, SameSealedBelow DEF Remove, RemoveMeta, RemoveUnlogged, disk, memory, Loading
    <1>4. CASE Create \/ Recreate
        <2>1. nextId' = 1 /\ manifest' = manifest
            BY <1>4 DEF Create, Recreate, Construct
        <2>2. ~Behind' => manifest.mutable = 0
            BY <1>0, <1>00, <2>1 DEF Behind
        <2> QED
            BY <1>0, <1>00, <1>4, <2>1, <2>2 DEF Create, Recreate, Construct, SealedBelow
    <1>5. CASE Save
        BY <1>5, SameSealedBelow DEF Save, memory, Loading
    <1>6. CASE LoadOpen \/ LoadThrows \/ Stop \/ ReplayThrows
        BY <1>6 DEF LoadOpen, LoadThrows, Stop, ReplayThrows, SealedBelow, Loading
    <1>7. CASE UpsertIndex
        BY <1>7, SameSealedBelow DEF UpsertIndex, Indexed, disk, Loading
    <1>8. CASE Seal \/ SealThrows
        <2>1. /\ mutable'.id = mutable.id
              /\ mutable'.state = "MUTABLE" => mutable.state = "MUTABLE"
              /\ pc' = "rotate" => mutable'.state = "SEALED"
              /\ UNCHANGED <<nextId, manifest>> /\ ~Loading
            BY <1>8 DEF Seal, SealThrows, Return, disk, Loading, IInv, TypeOK, Segment
        <2> QED
            BY <2>1 DEF SealedBelow, Behind
    <1>9. CASE UpsertMeta \/ RemoveLog
        BY <1>9, SameSealedBelow DEF UpsertMeta, RemoveLog, Return, disk, memory, Loading
    <1>10. CASE RemoveStops \/ SaveStops \/ WriteLost
        BY <1>10, SameSealedBelow DEF RemoveStops, SaveStops, WriteLost, AfterConfig, Return, disk, memory, Loading
    <1>11. CASE RemoveIndex
        BY <1>11, SameSealedBelow DEF RemoveIndex, Return, Unindexed, disk, Loading
    <1>12. CASE Rotate
        <2>1. /\ nextId' = nextId + 1 /\ mutable'.id = nextId /\ manifest' = manifest
            BY <1>12 DEF Rotate, disk, FreshSegment
        <2> QED
            BY <1>0, <1>00, <1>12, <2>1 DEF Rotate, SealedBelow, Behind
    <1>13. CASE RotateThrows
        <2>1. mutable' = mutable /\ mutable.state # "MUTABLE"
            BY <1>13 DEF RotateThrows, SealedBelow
        <2> QED
            BY <1>13, <2>1 DEF RotateThrows, Return, SealedBelow
    <1>14. CASE WriteConfig \/ OpenMeta \/ WriteMeta
        BY <1>14, SameSealedBelow DEF WriteConfig, AfterConfig, Return, OpenMeta, WriteMeta, memory, Loading
    <1>15. CASE OpenManifest
        <2>1. Len(manifest'.sealed) = 0
            BY <1>15 DEF OpenManifest, BlankManifest
        <2> QED
            BY <1>15, <2>1 DEF OpenManifest, SealedBelow
    <1>16. CASE WriteManifest
        <2> DEFINE ids == [i \in DOMAIN segments |-> segments[i].id]
        <2>1. /\ Len(ids) = Len(segments)
              /\ \A i \in 1 .. Len(segments) : ids[i] = segments[i].id
            BY IdsOfSegments
        <2> HIDE DEF ids
        <2>2. manifest'.sealed = ids /\ mutable' = mutable
            BY <1>16 DEF WriteManifest, memory, ids
        <2> QED
            BY <1>16, <2>1, <2>2 DEF WriteManifest, Return, IInv, SegmentOrder, SealedBelow
    <1>17. CASE ReplayEntry
        BY <1>17 DEF ReplayEntry, SealedBelow, Loading
    <1>18. CASE ReplayNext
        <2>1. CASE queue # <<>>
            BY <1>18, <2>1 DEF ReplayNext, SealedBelow, Loading
        <2>2. CASE queue = <<>>
            <3>1. mutable.id = manifest.mutable
                BY <1>18, <2>2 DEF ReplayNext, IInv, LoadOrder
            <3>2. mutable' = mutable /\ manifest' = manifest
                BY <1>18, <2>2 DEF ReplayNext, disk
            <3> QED
                BY <1>00, <1>18, <2>2, <3>1, <3>2 DEF ReplayNext, Return, SealedBelow
        <2> QED
            BY <2>1, <2>2
    <1> QED
        BY <1>1, <1>2, <1>3, <1>4, <1>5, <1>6, <1>7, <1>8, <1>9, <1>10, <1>11, <1>12, <1>13,
           <1>14, <1>15, <1>16, <1>17, <1>18
        DEF Next, NextCrash, Advance, Fail, Manage

\* As long as the manifest on disk lists a segment as sealed, nothing writes its
\* log, wherever calls fail and the process ends, unless the directory was
\* recreated.
THEOREM ListedLogsFrozen == Spec => ListedFrozen
    <1> DEFINE Frozen == Behind \/ \A i \in DOMAIN manifest.sealed :
                             wal'[manifest.sealed[i]] = wal[manifest.sealed[i]]
    <1>1. IInv /\ SealedBelow /\ [Next]_vars => [Frozen]_vars
        <2> SUFFICES ASSUME IInv, SealedBelow, [Next]_vars, wal' # wal, ~Behind,
                            NEW i \in DOMAIN manifest.sealed
                     PROVE  wal'[manifest.sealed[i]] = wal[manifest.sealed[i]]
            OBVIOUS
        <2> HIDE DEF Frozen
        <2>1. i \in 1 .. Len(manifest.sealed) /\ manifest.sealed[i] \in SegIds
            BY DEF IInv, TypeOK, Manifest
        <2>2. /\ pc \in {"idle", "rmLog"} /\ mutable.state = "MUTABLE"
              /\ \A id \in SegIds : id # mutable.id => wal'[id] = wal[id]
            BY OnlyMutableLogWritten
        <2>3. manifest.sealed[i] < mutable.id
            BY <2>1, <2>2 DEF SealedBelow, Loading
        <2>4. manifest.sealed[i] # mutable.id
            BY <2>1, <2>3 DEF IInv, TypeOK, Segment, SegIds
        <2> QED
            BY <2>1, <2>2, <2>4
    <1>2. Spec => []SealedBelow
        BY Invariance, InitSealedBelow, StepSealedBelow, PTL DEF Spec
    <1> QED
        BY <1>1, <1>2, Invariance, PTL DEF Spec, ListedFrozen, Frozen

-----------------------------------------------------------------------------
(* A directory that is only ever loaded.                                   *)

\* Memory is never behind the manifest: a load starts from it and rotations
\* only move ahead.
Ahead ==
    /\ configFile = "absent" => pc = "down" /\ manifest = BlankManifest
    /\ pc \notin {"down", "failed"} => ~Behind

LEMMA CrashImpliesAny == SpecCrash => Spec
    BY PTL DEF SpecCrash, Spec, Next

LEMMA InitAhead == Init => Ahead
    BY DEF Init, Ahead

LEMMA StepAhead == IInv /\ Ahead /\ [NextCrash]_vars => Ahead'
    <1> SUFFICES ASSUME IInv, Ahead, [NextCrash]_vars PROVE Ahead'
        OBVIOUS
    <1>1. nextId \in Nat \ {0} /\ manifest.next \in Nat
        BY DEF IInv, TypeOK, Manifest
    <1>2. CASE UNCHANGED vars
        BY <1>2 DEF vars, disk, memory, Ahead, Behind
    <1>3. CASE Upsert
        BY <1>3 DEF Upsert, UpsertLog, memory, Ahead, Behind
    <1>4. CASE Remove \/ RemoveUnlogged
        BY <1>4 DEF Remove, RemoveMeta, RemoveUnlogged, disk, memory, Ahead, Behind
    <1>5. CASE Create
        BY <1>1, <1>5 DEF Create, Construct, BlankManifest, Ahead, Behind
    <1>6. CASE Save
        BY <1>6 DEF Save, memory, Ahead, Behind
    <1>7. CASE LoadOpen
        BY <1>1, <1>7 DEF LoadOpen, disk, Ahead, Behind
    <1>8. CASE LoadThrows
        BY <1>8 DEF LoadThrows, disk, Ahead, Behind
    <1>9. CASE Stop
        BY <1>9 DEF Stop, disk, Ahead, Behind
    <1>10. CASE Advance
        <2>1. CASE UpsertIndex
            BY <2>1 DEF UpsertIndex, disk, Ahead, Behind
        <2>2. CASE Seal \/ UpsertMeta \/ RemoveIndex
            BY <2>2 DEF Seal, UpsertMeta, RemoveIndex, disk, Ahead, Behind
        <2>3. CASE RemoveLog
            BY <2>3 DEF RemoveLog, memory, Ahead, Behind
        <2>4. CASE Rotate
            BY <1>1, <2>4 DEF Rotate, disk, Ahead, Behind
        <2>5. CASE WriteConfig
            BY <2>5 DEF WriteConfig, memory, Ahead, Behind
        <2>6. CASE OpenMeta \/ WriteMeta
            BY <2>6 DEF OpenMeta, WriteMeta, memory, Ahead, Behind
        <2>7. CASE OpenManifest
            BY <1>1, <2>7 DEF OpenManifest, BlankManifest, memory, Ahead, Behind
        <2>8. CASE WriteManifest
            BY <1>1, <2>8 DEF WriteManifest, memory, Ahead, Behind
        <2>9. CASE ReplayEntry
            BY <2>9 DEF ReplayEntry, disk, Ahead, Behind
        <2>10. CASE ReplayNext
            BY <2>10 DEF ReplayNext, disk, Ahead, Behind
        <2> QED
            BY <1>10, <2>1, <2>2, <2>3, <2>4, <2>5, <2>6, <2>7, <2>8, <2>9, <2>10 DEF Advance
    <1>11. CASE Fail
        <2>1. CASE RotateThrows
            BY <1>1, <2>1 DEF RotateThrows, disk, Ahead, Behind
        <2>2. CASE SealThrows
            BY <2>2 DEF SealThrows, disk, Ahead, Behind
        <2>3. CASE RemoveStops \/ SaveStops \/ WriteLost
            BY <2>3 DEF RemoveStops, SaveStops, WriteLost, disk, memory, Ahead, Behind
        <2>4. CASE ReplayThrows
            BY <2>4 DEF ReplayThrows, disk, Ahead, Behind
        <2> QED
            BY <1>11, <2>1, <2>2, <2>3, <2>4 DEF Fail
    <1> QED
        BY <1>2, <1>3, <1>4, <1>5, <1>6, <1>7, <1>8, <1>9, <1>10, <1>11 DEF NextCrash, Manage

LEMMA AheadInvariance == SpecCrash => []Ahead
    BY CrashImpliesAny, Invariance, InitAhead, StepAhead, PTL DEF SpecCrash

\* However often it crashes, a collection that is loaded and never recreated
\* numbers its segments from where its manifest leaves off: together with
\* ListedLogsFrozen, no log the manifest lists as sealed is ever written.
THEOREM LoadedNeverBehind == SpecCrash => [](pc \notin {"down", "failed"} => ~Behind)
    <1>1. Ahead => (pc \notin {"down", "failed"} => ~Behind)
        BY DEF Ahead
    <1> QED
        BY <1>1, AheadInvariance, PTL

-----------------------------------------------------------------------------
(* A process that ends only while the manifest names every segment.        *)

LEMMA ListedImpliesCrash == SpecListed => SpecCrash
    <1>1. NextListed => NextCrash
        BY DEF NextListed, NextCrash
    <1> QED
        BY <1>1, PTL DEF SpecListed, SpecCrash

LEMMA CurrentIsId == IInv => Current \in SegIds
    BY DEF Current, IInv, TypeOK, Segment, Manifest

\* The segment that takes writes only ever moves on to a later one.
LEMMA CurrentMoves ==
    ASSUME IInv, Ahead, [NextListed]_vars
    PROVE  Current <= Current'
    <1>0. /\ Current \in Nat /\ mutable.id \in Nat /\ manifest.mutable \in Nat
          /\ mutable.id < nextId
        <2>1. Current \in SegIds /\ mutable.id \in SegIds /\ manifest.mutable \in SegIds
            BY CurrentIsId DEF IInv, TypeOK, Segment, Manifest
        <2>2. mutable.id < nextId
            BY DEF IInv, SegmentOrder
        <2> QED
            BY <2>1, <2>2, SegIdsAreNats
    <1>1. CASE UNCHANGED vars
        BY <1>0, <1>1 DEF vars, disk, memory, Current, Loading
    <1>2. CASE Upsert \/ (mutable.state # "CLOSED" /\ Remove)
        BY <1>0, <1>2
        DEF Upsert, UpsertLog, Remove, RemoveMeta, disk, memory, Current, Loading
    <1>3. CASE Create
        <2>1. Current = 0
            BY <1>3 DEF Create, Construct, Ahead, BlankManifest, Current, Loading
        <2>2. Current' = 0
            BY <1>3 DEF Create, Construct, FreshSegment, Current, Loading
        <2> QED
            BY <2>1, <2>2
    <1>4. CASE Save \/ LoadOpen \/ LoadThrows
        BY <1>0, <1>4 DEF Save, LoadOpen, LoadThrows, disk, memory, Current, Loading
    <1>5. CASE Listed /\ Stop
        BY <1>0, <1>5 DEF Listed, Stop, disk, Current, Loading
    <1>6. CASE UpsertIndex \/ RemoveIndex
        BY <1>0, <1>6, IdsStay
        DEF UpsertIndex, RemoveIndex, Return, disk, Current, Loading
    <1>7. CASE Seal \/ SealThrows
        <2>1. mutable'.id = mutable.id /\ ~Loading /\ ~Loading'
            BY <1>7 DEF Seal, SealThrows, Return, Loading, IInv, TypeOK, Segment
        <2> QED
            BY <1>0, <2>1 DEF Current
    <1>8. CASE Rotate
        BY <1>0, <1>8 DEF Rotate, FreshSegment, Current, Loading, IInv, TypeOK
    <1>9. CASE RotateThrows \/ UpsertMeta \/ RemoveLog \/ RemoveStops \/ SaveStops \/ WriteLost
        BY <1>0, <1>9
        DEF RotateThrows, UpsertMeta, RemoveLog, RemoveStops, SaveStops, WriteLost,
            AfterConfig, Return, disk, memory, Current, Loading
    <1>10. CASE WriteConfig \/ OpenMeta \/ WriteMeta \/ OpenManifest \/ WriteManifest
        BY <1>0, <1>10
        DEF WriteConfig, OpenMeta, WriteMeta, OpenManifest, WriteManifest, AfterConfig,
            Return, memory, Current, Loading
    <1>11. CASE ReplayEntry \/ ReplayThrows
        BY <1>0, <1>11 DEF ReplayEntry, ReplayThrows, disk, Current, Loading
    <1>12. CASE ReplayNext
        BY <1>0, <1>12 DEF ReplayNext, Return, IInv, LoadOrder, disk, Current, Loading
    <1> QED
        BY <1>1, <1>2, <1>3, <1>4, <1>5, <1>6, <1>7, <1>8, <1>9, <1>10, <1>11, <1>12
        DEF NextListed, Advance, Fail, Manage

\* While the process ends only with every segment named in the manifest, the
\* log of a segment that was rotated out is final: saves that fail or are cut
\* short, crashes and loads never make it the segment that takes writes again.
THEOREM SealedLogsFrozen == SpecListed => SealedFrozen
    <1> DEFINE Final == \A id \in SegIds : id < Current => wal'[id] = wal[id] /\ id < Current'
    <1>1. IInv /\ Ahead /\ [NextListed]_vars => [Final]_vars
        <2> SUFFICES ASSUME IInv, Ahead, [NextListed]_vars, NEW id \in SegIds, id < Current
                     PROVE  wal'[id] = wal[id] /\ id < Current'
            OBVIOUS
        <2>1. [Next]_vars
            BY DEF NextListed, NextCrash, Next
        <2>2. id \in Nat /\ Current \in Nat /\ IInv'
            BY <2>1, CurrentIsId, StepIInv DEF SegIds
        <2>3. Current' \in Nat
            <3>1. (IInv => Current \in SegIds)'
                BY CurrentIsId, PTL
            <3> QED
                BY <2>2, <3>1, SegIdsAreNats
        <2>4. Current <= Current'
            BY CurrentMoves
        <2>5. CASE wal' = wal
            BY <2>2, <2>3, <2>4, <2>5
        <2>6. CASE wal' # wal
            <3>1. /\ pc \in {"idle", "rmLog"}
                  /\ \A i \in SegIds : i # mutable.id => wal'[i] = wal[i]
                BY <2>1, <2>6, OnlyMutableLogWritten
            <3>2. id # mutable.id
                BY <2>2, <3>1 DEF Current, Loading
            <3> QED
                BY <2>2, <2>3, <2>4, <3>1, <3>2
        <2> QED
            BY <2>5, <2>6
    <1>2. SpecListed => []IInv
        BY ListedImpliesCrash, CrashImpliesAny, Invariance, PTL
    <1>3. SpecListed => []Ahead
        BY ListedImpliesCrash, AheadInvariance, PTL
    <1> QED
        BY <1>1, <1>2, <1>3, PTL DEF SpecListed, SealedFrozen, Final

-----------------------------------------------------------------------------
(* The metadata store.                                                     *)

\* For documents that are not adrift, memory follows the writes, each one at
\* its step of the call; the file has what is not unsaved, and without memory,
\* nothing is.
MetaTruth ==
    /\ \A d \in Docs \ (adrift \cup unsaved) : metaFile.torn \/ metaFile.data[d] = truth[d]
    /\ pc \notin {"down", "failed"} =>
           \A d \in Docs \ adrift :
               \/ docMeta[d] = truth[d]
               \/ d = call.doc /\ pc \in {"index", "seal", "rotate", "meta", "rmLog"}
    /\ pc \in {"index", "seal", "rotate", "meta"} =>
           truth[call.doc] = call.vec /\ call.doc \in unsaved
    /\ pc = "rmLog" => docMeta[call.doc] = None
    /\ pc \in {"down", "failed", "replay"} => unsaved \subseteq adrift

LEMMA InitMetaTruth == Init => MetaTruth
    BY DEF Init, MetaTruth

LEMMA StepMetaTruth == IInv /\ MetaTruth /\ [Next]_vars => MetaTruth'
    <1> SUFFICES ASSUME IInv, MetaTruth, [Next]_vars PROVE MetaTruth'
        OBVIOUS
    <1>0. docMeta \in [Docs -> Payload] /\ truth \in [Docs -> Payload]
        BY DEF IInv, TypeOK, Contents
    <1>1. CASE UNCHANGED vars
        BY <1>1 DEF vars, disk, memory, history, MetaTruth
    <1>2. ASSUME NEW d \in Docs, NEW v \in Vecs, UpsertLog(d, v) PROVE MetaTruth'
        <2>1. /\ pc = "idle" /\ pc' = "index" /\ UNCHANGED <<metaFile, docMeta, adrift>>
              /\ truth' = [truth EXCEPT ![d] = v] /\ unsaved' = unsaved \cup {d}
              /\ call'.doc = d /\ call'.vec = v
            BY <1>2 DEF UpsertLog, Log, memory
        <2> QED
            BY <1>0, <2>1 DEF MetaTruth
    <1>3. CASE UpsertIndex \/ Seal \/ Rotate
        BY <1>3 DEF UpsertIndex, Seal, Rotate, disk, history, MetaTruth
    <1>4. CASE UpsertMeta
        <2>1. /\ pc = "meta" /\ pc' = "idle" /\ UNCHANGED <<metaFile, truth, unsaved>>
              /\ docMeta' = [docMeta EXCEPT ![call.doc] = call.vec]
              /\ adrift' = adrift \ {call.doc}
            BY <1>4 DEF UpsertMeta, Return, disk
        <2> QED
            BY <1>0, <2>1 DEF MetaTruth
    <1>5. ASSUME NEW d \in Docs, RemoveMeta(d) PROVE MetaTruth'
        <2>1. /\ pc = "idle" /\ pc' = "rmLog"
              /\ UNCHANGED <<metaFile, truth, unsaved, adrift>>
              /\ docMeta' = [docMeta EXCEPT ![d] = None] /\ call'.doc = d
            BY <1>5 DEF RemoveMeta, disk
        <2> QED
            BY <1>0, <2>1 DEF MetaTruth
    <1>6. CASE RemoveLog
        <2>1. /\ pc = "rmLog" /\ pc' = "rmIndex" /\ UNCHANGED <<metaFile, docMeta>>
              /\ truth' = [truth EXCEPT ![call.doc] = None]
              /\ unsaved' = unsaved \cup {call.doc} /\ adrift' = adrift \ {call.doc}
            BY <1>6 DEF RemoveLog, Log, memory
        <2> QED
            BY <1>0, <2>1 DEF MetaTruth
    <1>7. CASE SealThrows \/ RotateThrows \/ RemoveUnlogged \/ RemoveStops
        <2>1. /\ pc' \in {"idle", "rmIndex"} /\ pc \in {"seal", "rotate", "rmLog"}
              /\ UNCHANGED <<metaFile, docMeta, truth, unsaved>>
              /\ adrift' = adrift \cup {call.doc}
            BY <1>7 DEF SealThrows, RotateThrows, RemoveUnlogged, RemoveStops, Return, disk, memory
        <2> QED
            BY <2>1 DEF MetaTruth
    <1>8. CASE RemoveIndex \/ OpenManifest \/ WriteManifest \/ ReplayEntry
        BY <1>8 DEF RemoveIndex, OpenManifest, WriteManifest, ReplayEntry, Return,
                    disk, memory, history, MetaTruth
    <1>9. CASE ReplayNext
        BY <1>9 DEF ReplayNext, Return, disk, history, MetaTruth
    <1>10. CASE Save \/ WriteConfig \/ SaveStops \/ WriteLost
        BY <1>10 DEF Save, WriteConfig, SaveStops, WriteLost, AfterConfig, Return,
                     disk, memory, history, MetaTruth
    <1>11. CASE OpenMeta
        BY <1>11 DEF OpenMeta, memory, history, MetaTruth
    <1>12. CASE WriteMeta
        BY <1>12 DEF WriteMeta, memory, MetaTruth
    <1>13. CASE Create \/ Recreate
        <2>1. /\ pc' = "writeConfig" /\ UNCHANGED <<metaFile, truth, unsaved>>
              /\ docMeta' = Nothing
              /\ adrift' = adrift \cup {d \in Docs : truth[d] # None}
            BY <1>13 DEF Create, Recreate, Construct
        <2> QED
            BY <2>1 DEF MetaTruth, Nothing
    <1>14. CASE LoadOpen
        <2>1. /\ pc = "down" /\ pc' = "replay" /\ ~metaFile.torn /\ docMeta' = metaFile.data
              /\ UNCHANGED <<metaFile, truth, unsaved, adrift>>
            BY <1>14 DEF LoadOpen, disk, history
        <2> QED
            BY <2>1 DEF MetaTruth
    <1>15. CASE LoadThrows \/ ReplayThrows
        BY <1>15 DEF LoadThrows, ReplayThrows, disk, history, MetaTruth
    <1>16. CASE Stop
        BY <1>16 DEF Stop, disk, MetaTruth
    <1> QED
        BY <1>1, <1>2, <1>3, <1>4, <1>5, <1>6, <1>7, <1>8, <1>9, <1>10, <1>11, <1>12,
           <1>13, <1>14, <1>15, <1>16
        DEF Next, NextCrash, Advance, Fail, Manage, Upsert, Remove

\* Whatever fails, ends or is constructed a second time, the metadata store has
\* what was last logged for every document whose own last write was neither cut
\* short nor lost with a process before it was saved.
THEOREM MetadataIsKept == Spec => []MetadataAgrees
    <1>1. Spec => []MetaTruth
        BY Invariance, InitMetaTruth, StepMetaTruth, PTL DEF Spec
    <1>2. MetaTruth => MetadataAgrees
        BY DEF MetaTruth, MetadataAgrees
    <1> QED
        BY <1>1, <1>2, PTL

-----------------------------------------------------------------------------
(* Replaying one more entry.                                               *)

\* Nothing was applied yet.
LEMMA MatchesFresh ==
    ASSUME NEW id, NEW log
    PROVE  MatchesLog(FreshSegment(id), log, 0)
    <1>1. \A d \in Docs : EntriesOf(log, 0, d) = {}
        BY DEF EntriesOf
    <1>2. \A d \in Docs : FreshSegment(id).cur[d] = None /\ FreshSegment(id).stale[d] = {}
        BY DEF FreshSegment, Nothing
    <1> QED
        BY <1>1, <1>2 DEF MatchesLog, MatchesDoc

\* Only the first n entries matter.
LEMMA MatchesPrefix ==
    ASSUME NEW seg, NEW log, NEW longer, NEW n \in Nat, MatchesLog(seg, log, n),
           \A i \in 1 .. n : longer[i] = log[i]
    PROVE  MatchesLog(seg, longer, n)
    <1>1. \A d \in Docs : EntriesOf(longer, n, d) = EntriesOf(log, n, d)
        BY DEF EntriesOf
    <1>2. \A d \in Docs, i \in 1 .. n : IsLastOf(i, longer, n, d) <=> IsLastOf(i, log, n, d)
        BY <1>1 DEF IsLastOf
    <1>3. \A d \in Docs, i, k \in 1 .. n : Follows(i, k, longer, n, d) <=> Follows(i, k, log, n, d)
        BY <1>1 DEF Follows
    <1> QED
        BY <1>1, <1>2, <1>3 DEF MatchesLog, MatchesDoc

\* An entry of d adds one entry to d's and none to the others'.
LEMMA EntriesGrow ==
    ASSUME NEW log, NEW n \in Nat, NEW d \in Docs
    PROVE  EntriesOf(log, n + 1, d) =
               IF log[n + 1].doc = d THEN EntriesOf(log, n, d) \cup {n + 1}
               ELSE EntriesOf(log, n, d)
    <1>1. 1 .. n + 1 = (1 .. n) \cup {n + 1}
        OBVIOUS
    <1> QED
        BY <1>1 DEF EntriesOf

\* An entry of another document changes nothing for d.
LEMMA OtherDocument ==
    ASSUME NEW seg, NEW new, NEW log, NEW n \in Nat, NEW d \in Docs,
           MatchesDoc(seg, log, n, d), log[n + 1].doc # d,
           new.cur[d] = seg.cur[d], new.stale[d] = seg.stale[d]
    PROVE  MatchesDoc(new, log, n + 1, d)
    <1>1. EntriesOf(log, n + 1, d) = EntriesOf(log, n, d)
        BY EntriesGrow
    <1>2. EntriesOf(log, n, d) \subseteq 1 .. n
        BY DEF EntriesOf
    <1>3. \A i \in 1 .. n + 1 :
              IsLastOf(i, log, n + 1, d) <=> i \in 1 .. n /\ IsLastOf(i, log, n, d)
        BY <1>1, <1>2 DEF IsLastOf
    <1>4. \A i, k \in 1 .. n + 1 :
              Follows(i, k, log, n + 1, d)
                  <=> i \in 1 .. n /\ k \in 1 .. n /\ Follows(i, k, log, n, d)
        BY <1>1, <1>2 DEF Follows
    <1>5. \A i \in 1 .. n : i \in 1 .. n + 1
        OBVIOUS
    <1> QED
        BY <1>1, <1>3, <1>4, <1>5 DEF MatchesDoc

\* The neighbours among d's entries once an entry of d follows the first n.
LEMMA FollowsGrow ==
    ASSUME NEW log, NEW n \in Nat, NEW d \in Docs, log[n + 1].doc = d,
           NEW i \in 1 .. n + 1, NEW k \in 1 .. n + 1
    PROVE  Follows(i, k, log, n + 1, d) <=>
               \/ i \in 1 .. n /\ k \in 1 .. n /\ Follows(i, k, log, n, d)
               \/ i \in 1 .. n /\ k = n + 1 /\ IsLastOf(i, log, n, d)
    <1>1. EntriesOf(log, n + 1, d) = EntriesOf(log, n, d) \cup {n + 1}
        BY EntriesGrow
    <1>2. EntriesOf(log, n, d) \subseteq 1 .. n
        BY DEF EntriesOf
    <1>3. CASE k = n + 1
        BY <1>1, <1>2, <1>3 DEF Follows, IsLastOf
    <1>4. CASE k # n + 1
        BY <1>1, <1>2, <1>4 DEF Follows, IsLastOf
    <1> QED
        BY <1>3, <1>4

LEMMA LastIsNew ==
    ASSUME NEW log, NEW n \in Nat, NEW d \in Docs, log[n + 1].doc = d
    PROVE  n + 1 \in 1 .. n + 1 /\ IsLastOf(n + 1, log, n + 1, d)
    <1>1. EntriesOf(log, n + 1, d) = EntriesOf(log, n, d) \cup {n + 1}
        BY EntriesGrow
    <1> QED
        BY <1>1 DEF IsLastOf, EntriesOf

\* The nodes that d loses track of when an entry of d is applied.
LEMMA SameDocument ==
    ASSUME NEW seg \in Segment, NEW new \in Segment, NEW n \in Nat, NEW d \in Docs,
           NEW log \in Seq(Entry), n + 1 <= Len(log),
           MatchesDoc(seg, log, n, d), log[n + 1].doc = d,
           new.cur[d] = log[n + 1].vec,
           new.stale[d] = seg.stale[d] \cup
               (IF log[n + 1].op = "INSERT" THEN {seg.cur[d]} \ {None} ELSE {})
    PROVE  MatchesDoc(new, log, n + 1, d)
    <1>1. \E i \in 1 .. n + 1 : IsLastOf(i, log, n + 1, d) /\ new.cur[d] = log[i].vec
        BY LastIsNew
    <1> DEFINE Pair(i, k, v) == /\ log[i] = [op |-> "INSERT", doc |-> d, vec |-> v]
                                /\ log[k].op = "INSERT"
    <1>2. ASSUME NEW v \in Vecs, v \in new.stale[d]
          PROVE  \E i, k \in 1 .. n + 1 : Follows(i, k, log, n + 1, d) /\ Pair(i, k, v)
        <2>1. CASE v \in seg.stale[d]
            <3>1. PICK i \in 1 .. n, k \in 1 .. n : Follows(i, k, log, n, d) /\ Pair(i, k, v)
                BY <2>1 DEF MatchesDoc
            <3>2. i \in 1 .. n + 1 /\ k \in 1 .. n + 1
                OBVIOUS
            <3>3. Follows(i, k, log, n + 1, d)
                BY <3>1, <3>2, FollowsGrow
            <3> QED
                BY <3>1, <3>2, <3>3
        <2>2. CASE v \notin seg.stale[d]
            <3>1. log[n + 1].op = "INSERT" /\ seg.cur[d] = v
                BY <1>2, <2>2
            <3>2. seg.cur[d] # None
                BY <3>1, CollectionAssumption
            <3>3. PICK i \in 1 .. n : IsLastOf(i, log, n, d) /\ seg.cur[d] = log[i].vec
                BY <3>2 DEF MatchesDoc
            <3>4. i \in 1 .. n + 1 /\ n + 1 \in 1 .. n + 1 /\ i \in 1 .. Len(log)
                OBVIOUS
            <3>5. log[i] \in Entry /\ log[i].doc = d
                BY <3>3, <3>4 DEF IsLastOf, EntriesOf
            <3>6. log[i] = [op |-> "INSERT", doc |-> d, vec |-> v]
                BY <3>1, <3>3, <3>5, CollectionAssumption DEF Entry
            <3>7. Follows(i, n + 1, log, n + 1, d)
                BY <3>3, <3>4, FollowsGrow
            <3> QED
                BY <3>1, <3>4, <3>6, <3>7
        <2> QED
            BY <2>1, <2>2
    <1>3. ASSUME NEW v \in Vecs, NEW i \in 1 .. n + 1, NEW k \in 1 .. n + 1,
                 Follows(i, k, log, n + 1, d), Pair(i, k, v)
          PROVE  v \in new.stale[d]
        <2>1. CASE i \in 1 .. n /\ k \in 1 .. n /\ Follows(i, k, log, n, d)
            BY <1>3, <2>1 DEF MatchesDoc
        <2>2. CASE i \in 1 .. n /\ k = n + 1 /\ IsLastOf(i, log, n, d)
            <3>1. EntriesOf(log, n, d) # {}
                BY <2>2 DEF IsLastOf
            <3>2. PICK j \in 1 .. n : IsLastOf(j, log, n, d) /\ seg.cur[d] = log[j].vec
                BY <3>1 DEF MatchesDoc
            <3>3. j = i
                BY <2>2, <3>2 DEF IsLastOf, EntriesOf
            <3>4. seg.cur[d] = v /\ log[n + 1].op = "INSERT"
                BY <1>3, <2>2, <3>2, <3>3
            <3> QED
                BY <3>4, CollectionAssumption
        <2> QED
            BY <1>3, <2>1, <2>2, FollowsGrow
    <1> QED
        BY <1>1, <1>2, <1>3 DEF MatchesDoc

\* Applying an INSERT, then a DELETE, as the code does.
LEMMA ApplyInsert ==
    ASSUME NEW seg \in Segment, NEW log \in Seq(Entry), NEW n \in Nat, n + 1 <= Len(log),
           log[n + 1].op = "INSERT", MatchesLog(seg, log, n)
    PROVE  MatchesLog(Indexed(seg, log[n + 1].doc, log[n + 1].vec), log, n + 1)
    <1> DEFINE e == log[n + 1]
               new == Indexed(seg, e.doc, e.vec)
    <1>1. e \in Entry
        OBVIOUS
    <1>2. e.doc \in Docs /\ e.vec \in Vecs
        BY <1>1 DEF Entry
    <1>3. new \in Segment
        BY <1>2, IndexedType
    <1>4. /\ new.cur = [seg.cur EXCEPT ![e.doc] = e.vec]
          /\ new.stale = [seg.stale EXCEPT ![e.doc] = @ \cup ({seg.cur[e.doc]} \ {None})]
        BY DEF Indexed
    <1>5. seg.cur \in [Docs -> Payload] /\ seg.stale \in [Docs -> SUBSET Vecs]
        BY DEF Segment
    <1>6. ASSUME NEW d \in Docs PROVE MatchesDoc(new, log, n + 1, d)
        <2>1. MatchesDoc(seg, log, n, d)
            BY DEF MatchesLog
        <2> HIDE DEF new
        <2>2. CASE e.doc = d
            <3>1. new.cur[d] = e.vec /\ new.stale[d] = seg.stale[d] \cup ({seg.cur[d]} \ {None})
                BY <1>4, <1>5, <2>2
            <3> QED
                BY <1>3, <2>1, <2>2, <3>1, SameDocument
        <2>3. CASE e.doc # d
            <3>1. new.cur[d] = seg.cur[d] /\ new.stale[d] = seg.stale[d]
                BY <1>4, <1>5, <2>3
            <3> QED
                BY <2>1, <2>3, <3>1, OtherDocument
        <2> QED
            BY <2>2, <2>3
    <1> QED
        BY <1>6 DEF MatchesLog

LEMMA ApplyDelete ==
    ASSUME NEW seg \in Segment, NEW log \in Seq(Entry), NEW n \in Nat, n + 1 <= Len(log),
           log[n + 1].op = "DELETE", MatchesLog(seg, log, n)
    PROVE  MatchesLog(Unindexed(seg, log[n + 1].doc), log, n + 1)
    <1> DEFINE e == log[n + 1]
               new == Unindexed(seg, e.doc)
    <1>1. e \in Entry
        OBVIOUS
    <1>2. e.doc \in Docs /\ e.vec = None
        BY <1>1 DEF Entry
    <1>3. new \in Segment
        BY <1>2, UnindexedType
    <1>4. new.cur = [seg.cur EXCEPT ![e.doc] = None] /\ new.stale = seg.stale
        BY DEF Unindexed
    <1>5. seg.cur \in [Docs -> Payload] /\ seg.stale \in [Docs -> SUBSET Vecs]
        BY DEF Segment
    <1>6. ASSUME NEW d \in Docs PROVE MatchesDoc(new, log, n + 1, d)
        <2>1. MatchesDoc(seg, log, n, d)
            BY DEF MatchesLog
        <2> HIDE DEF new
        <2>2. CASE e.doc = d
            <3>1. new.cur[d] = e.vec /\ new.stale[d] = seg.stale[d]
                BY <1>2, <1>4, <1>5, <2>2
            <3> QED
                BY <1>3, <2>1, <2>2, <3>1, SameDocument
        <2>3. CASE e.doc # d
            <3>1. new.cur[d] = seg.cur[d] /\ new.stale[d] = seg.stale[d]
                BY <1>4, <1>5, <2>3
            <3> QED
                BY <2>1, <2>3, <3>1, OtherDocument
        <2> QED
            BY <2>2, <2>3
    <1> QED
        BY <1>6 DEF MatchesLog

-----------------------------------------------------------------------------
(* The inductive invariant.                                                *)

\* A call that has logged is one entry ahead of the index; a load never runs
\* past the end of a log; without a collection there is nothing in memory.
InFlight ==
    LET log == wal[mutable.id]
    IN  /\ pc = "index" =>
               /\ Len(log) > 0
               /\ log[Len(log)] = [op |-> "INSERT", doc |-> call.doc, vec |-> call.vec]
        /\ pc = "rmIndex" =>
               /\ Len(log) > 0
               /\ log[Len(log)] = [op |-> "DELETE", doc |-> call.doc, vec |-> None]
        /\ pc = "replay" => pos <= Len(log)
        /\ pc \in {"down", "failed"} =>
               pos = 0 /\ segments = <<>> /\ mutable = FreshSegment(0)

\* Segments that memory has or is about to open, and those a load would open.
InMemory(id) ==
    \/ id = mutable.id
    \/ \E i \in 1 .. Len(segments) : segments[i].id = id
    \/ \E i \in 1 .. Len(queue) : queue[i] = id

InManifest(id) ==
    id = manifest.mutable \/ \E i \in 1 .. Len(manifest.sealed) : manifest.sealed[i] = id

\* Every log with entries is known: to memory, or without memory to the manifest.
\* A manifest that names the mutable segment names the others, too.
Accounted ==
    /\ configFile = "absent" => \A id \in SegIds : wal[id] = <<>>
    /\ \A id \in SegIds :
           wal[id] # <<>> =>
               IF pc \in {"down", "failed"} THEN InManifest(id) ELSE InMemory(id)
    /\ pc = "replay" \/ (~Loading /\ manifest.mutable = mutable.id) =>
           \A id \in SegIds : InMemory(id) => InManifest(id)

Reflects == IndexIsLog /\ InFlight

LInv == Reflects /\ Accounted /\ Ahead

LEMMA InitLInv == Init => LInv
    <1> SUFFICES ASSUME Init PROVE LInv
        OBVIOUS
    <1>1. 0 \in SegIds
        BY CollectionAssumption DEF SegIds
    <1>2. FreshSegment(0).id = 0
        BY DEF FreshSegment
    <1>3. IndexIsLog
        BY MatchesFresh DEF Init, IndexIsLog, Reflected
    <1> QED
        BY <1>1, <1>2, <1>3, InitAhead DEF Init, LInv, Reflects, InFlight, Accounted, Loading

LEMMA Facts ==
    ASSUME IInv
    PROVE  /\ mutable \in Segment /\ mutable.id \in SegIds
           /\ wal[mutable.id] \in Seq(Entry) /\ Len(wal[mutable.id]) \in Nat
           /\ \A id \in SegIds : wal[id] \in Seq(Entry)
           /\ segments \in Seq(Segment) /\ DOMAIN segments = 1 .. Len(segments)
           /\ Len(segments) \in Nat /\ Len(queue) \in Nat
           /\ \A i \in DOMAIN segments :
                  segments[i].id \in SegIds /\ segments[i].id # mutable.id
           /\ mutable.id < nextId
           /\ manifest.next \in Nat /\ nextId \in Nat /\ pos \in Nat
    <1>1. mutable \in Segment /\ mutable.id \in SegIds /\ segments \in Seq(Segment)
        BY DEF IInv, TypeOK, Segment
    <1>2. \A id \in SegIds : wal[id] \in Seq(Entry)
        BY DEF IInv, TypeOK
    <1>3. \A i \in 1 .. Len(segments) : segments[i] \in Segment
        BY <1>1
    <1>4. \A i \in 1 .. Len(segments) : segments[i].id \in SegIds
        BY <1>3 DEF Segment
    <1>5. \A i \in 1 .. Len(segments) : segments[i].id # mutable.id
        <2>1. \A i \in 1 .. Len(segments) : segments[i].id \in Nat
            BY <1>4, SegIdsAreNats
        <2>2. mutable.id \in Nat
            BY <1>1, SegIdsAreNats
        <2>3. \A i \in 1 .. Len(segments) : segments[i].id < mutable.id
            BY DEF IInv, SegmentOrder
        <2> QED
            BY <2>1, <2>2, <2>3
    <1>6. manifest.next \in Nat /\ nextId \in Nat /\ pos \in Nat /\ Len(queue) \in Nat
        BY DEF IInv, TypeOK, Manifest
    <1>7. mutable.id < nextId
        BY <1>1, <1>6 DEF IInv, SegmentOrder, SegIds
    <1> QED
        BY <1>1, <1>2, <1>4, <1>5, <1>6, <1>7

\* The log a rotation opens has no entries.
LEMMA NextLogEmpty ==
    ASSUME IInv, LInv, pc = "rotate"
    PROVE  nextId \in SegIds /\ wal[nextId] = <<>>
    <1>1. nextId \in SegIds
        BY CollectionAssumption DEF IInv, TypeOK, Room, SegIds
    <1>2. Len(queue) = 0 /\ mutable.id \in Nat /\ nextId \in Nat
        BY DEF IInv, TypeOK, QueueIdle, Segment, SegIds
    <1>3. \A i \in 1 .. Len(segments) : segments[i].id \in Nat
        BY Facts DEF SegIds
    <1>4. ~InMemory(nextId)
        BY <1>2, <1>3 DEF IInv, SegmentOrder, InMemory
    <1> QED
        BY <1>1, <1>4 DEF LInv, Accounted

\* Appending to the mutable segment's log leaves every index one entry behind
\* at most.
LEMMA LogKeeps ==
    ASSUME IInv, LInv, pc \in {"idle", "rmLog"}, UNCHANGED memory,
           NEW op, NEW d \in Docs, NEW v \in Payload, Log(op, d, v),
           [op |-> op, doc |-> d, vec |-> v] \in Entry,
           pc' \in {"index", "rmIndex"}
    PROVE  /\ IndexIsLog'
           /\ Len(wal'[mutable.id]) > 0
           /\ wal'[mutable.id][Len(wal'[mutable.id])] = [op |-> op, doc |-> d, vec |-> v]
    <1> DEFINE e == [op |-> op, doc |-> d, vec |-> v]
               log == wal[mutable.id]
    <1>1. wal' = [wal EXCEPT ![mutable.id] = Append(log, e)]
        BY DEF Log
    <1>2. wal'[mutable.id] = Append(log, e) /\ \A id \in SegIds : id # mutable.id => wal'[id] = wal[id]
        BY <1>1, Facts DEF IInv, TypeOK
    <1>3. log \in Seq(Entry) /\ e \in Entry
        BY Facts
    <1> HIDE DEF e, log
    <1>4. /\ Len(Append(log, e)) = Len(log) + 1
          /\ Append(log, e)[Len(log) + 1] = e
          /\ \A i \in 1 .. Len(log) : Append(log, e)[i] = log[i]
          /\ Len(log) \in Nat
        BY <1>3
    <1>5. MatchesLog(mutable, log, Len(log))
        BY DEF LInv, Reflects, IndexIsLog, Reflected, log
    <1>6. MatchesLog(mutable, Append(log, e), Len(log))
        BY <1>4, <1>5, MatchesPrefix
    <1>7. segments' = segments /\ mutable' = mutable
        BY DEF memory
    <1>8. Reflected' = Len(log)
        BY <1>2, <1>4, <1>7 DEF Reflected
    <1>9. IndexIsLog'
        <2>1. MatchesLog(mutable', wal'[mutable'.id], Reflected')
            BY <1>2, <1>6, <1>7, <1>8
        <2>2. ASSUME NEW i \in DOMAIN segments
              PROVE  MatchesLog(segments[i], wal'[segments[i].id], Len(wal'[segments[i].id]))
            BY <1>2, Facts DEF LInv, Reflects, IndexIsLog
        <2> QED
            BY <1>7, <2>1, <2>2 DEF IndexIsLog
    <1> QED
        BY <1>2, <1>4, <1>9 DEF e

\* A step that leaves logs, segments and the number of reflected entries alone.
LEMMA SameMemory ==
    ASSUME LInv, UNCHANGED <<wal, segments, mutable>>, Reflected' = Reflected
    PROVE  IndexIsLog'
    BY DEF LInv, Reflects, IndexIsLog

-----------------------------------------------------------------------------
(* Each action preserves it.                                               *)

LEMMA UpsertLogReflects ==
    ASSUME IInv, LInv, NEW d \in Docs, NEW v \in Vecs, UpsertLog(d, v)
    PROVE  Reflects'
    <1>1. [op |-> "INSERT", doc |-> d, vec |-> v] \in Entry /\ v \in Payload
        BY DEF Entry, Payload
    <1>2. /\ pc = "idle" /\ pc' = "index" /\ UNCHANGED memory /\ Log("INSERT", d, v)
          /\ call' = [op |-> "upsert", doc |-> d, vec |-> v] /\ configFile' = configFile
        BY DEF UpsertLog
    <1>3. /\ IndexIsLog'
          /\ Len(wal'[mutable.id]) > 0
          /\ wal'[mutable.id][Len(wal'[mutable.id])] = [op |-> "INSERT", doc |-> d, vec |-> v]
        BY <1>1, <1>2, LogKeeps
    <1>4. InFlight'
        BY <1>2, <1>3 DEF InFlight, memory
    <1> QED
        BY <1>3, <1>4 DEF Reflects

LEMMA RemoveLogReflects ==
    ASSUME IInv, LInv, RemoveLog
    PROVE  Reflects'
    <1>1. call.doc \in Docs
        BY DEF IInv, CallOK, RemoveLog
    <1>2. [op |-> "DELETE", doc |-> call.doc, vec |-> None] \in Entry /\ None \in Payload
        BY <1>1 DEF Entry, Payload
    <1>3. /\ pc = "rmLog" /\ pc' = "rmIndex" /\ UNCHANGED memory
          /\ Log("DELETE", call.doc, None) /\ call' = call /\ configFile' = configFile
        BY DEF RemoveLog
    <1>4. /\ IndexIsLog'
          /\ Len(wal'[mutable.id]) > 0
          /\ wal'[mutable.id][Len(wal'[mutable.id])] =
                 [op |-> "DELETE", doc |-> call.doc, vec |-> None]
        BY <1>1, <1>2, <1>3, LogKeeps
    <1>5. InFlight'
        BY <1>3, <1>4 DEF InFlight, memory
    <1> QED
        BY <1>4, <1>5 DEF Reflects

\* Applying the entry that was logged last to the mutable segment.
LEMMA UpsertIndexReflects ==
    ASSUME IInv, LInv, UpsertIndex
    PROVE  Reflects'
    <1> DEFINE log == wal[mutable.id]
               n   == Len(log) - 1
    <1>1. /\ pc = "index" /\ pc' = "seal" /\ UNCHANGED <<wal, configFile, manifest, segments, nextId>>
          /\ mutable' = Indexed(mutable, call.doc, call.vec)
        BY DEF UpsertIndex, disk
    <1>2. log \in Seq(Entry) /\ Len(log) \in Nat /\ Len(log) > 0 /\ n \in Nat /\ n + 1 = Len(log)
        BY <1>1, Facts DEF LInv, Reflects, InFlight
    <1>3. log[n + 1].op = "INSERT" /\ log[n + 1].doc = call.doc /\ log[n + 1].vec = call.vec
        BY <1>1, <1>2 DEF LInv, Reflects, InFlight
    <1>4. MatchesLog(mutable, log, n)
        BY <1>1 DEF LInv, Reflects, IndexIsLog, Reflected
    <1>5. mutable \in Segment /\ mutable'.id = mutable.id
        BY <1>1, Facts DEF Indexed
    <1> HIDE DEF log, n
    <1>6. MatchesLog(mutable', log, Len(log))
        BY <1>1, <1>2, <1>3, <1>4, <1>5, ApplyInsert
    <1>7. IndexIsLog'
        BY <1>1, <1>5, <1>6 DEF LInv, Reflects, IndexIsLog, Reflected, log
    <1>8. InFlight'
        BY <1>1 DEF InFlight
    <1> QED
        BY <1>7, <1>8 DEF Reflects

LEMMA RemoveIndexReflects ==
    ASSUME IInv, LInv, RemoveIndex
    PROVE  Reflects'
    <1> DEFINE log == wal[mutable.id]
               n   == Len(log) - 1
    <1>1. /\ pc = "rmIndex" /\ pc' = "idle" /\ UNCHANGED <<wal, configFile, manifest, segments, nextId>>
          /\ mutable' = Unindexed(mutable, call.doc)
        BY DEF RemoveIndex, Return, disk
    <1>2. log \in Seq(Entry) /\ Len(log) \in Nat /\ Len(log) > 0 /\ n \in Nat /\ n + 1 = Len(log)
        BY <1>1, Facts DEF LInv, Reflects, InFlight
    <1>3. log[n + 1].op = "DELETE" /\ log[n + 1].doc = call.doc
        BY <1>1, <1>2 DEF LInv, Reflects, InFlight
    <1>4. MatchesLog(mutable, log, n)
        BY <1>1 DEF LInv, Reflects, IndexIsLog, Reflected
    <1>5. mutable \in Segment /\ mutable'.id = mutable.id
        BY <1>1, Facts DEF Unindexed
    <1> HIDE DEF log, n
    <1>6. MatchesLog(mutable', log, Len(log))
        BY <1>1, <1>2, <1>3, <1>4, <1>5, ApplyDelete
    <1>7. IndexIsLog'
        BY <1>1, <1>5, <1>6 DEF LInv, Reflects, IndexIsLog, Reflected, log
    <1>8. InFlight'
        BY <1>1 DEF InFlight
    <1> QED
        BY <1>7, <1>8 DEF Reflects

LEMMA SealReflects ==
    ASSUME IInv, LInv, Seal \/ SealThrows
    PROVE  Reflects'
    <1>1. /\ pc = "seal" /\ pc' \in {"rotate", "meta", "idle"}
          /\ UNCHANGED <<wal, segments>>
          /\ mutable'.id = mutable.id /\ mutable'.cur = mutable.cur /\ mutable'.stale = mutable.stale
        BY DEF IInv, TypeOK, Segment, Seal, SealThrows, Return, disk
    <1>2. \A log, n : MatchesLog(mutable, log, n) => MatchesLog(mutable', log, n)
        BY <1>1 DEF MatchesLog, MatchesDoc
    <1>3. Reflected' = Reflected
        BY <1>1 DEF Reflected
    <1>4. IndexIsLog'
        BY <1>1, <1>2, <1>3 DEF LInv, Reflects, IndexIsLog
    <1> QED
        BY <1>1, <1>4 DEF LInv, Reflects, InFlight

LEMMA RotateReflects ==
    ASSUME IInv, LInv, Rotate
    PROVE  Reflects'
    <1>1. /\ pc = "rotate" /\ pc' = "meta" /\ UNCHANGED <<wal, configFile, manifest>>
          /\ segments' = Append(segments, mutable)
          /\ mutable' = FreshSegment(nextId) /\ nextId' = nextId + 1
        BY DEF Rotate, disk
    <1>3. wal[nextId] = <<>> /\ mutable'.id = nextId
        BY <1>1, NextLogEmpty DEF FreshSegment
    <1>4. MatchesLog(mutable', wal'[mutable'.id], Reflected')
        BY <1>1, <1>3, MatchesFresh DEF Reflected
    <1>5. /\ DOMAIN segments' = 1 .. Len(segments) + 1
          /\ \A i \in 1 .. Len(segments) : segments'[i] = segments[i]
          /\ segments'[Len(segments) + 1] = mutable
        BY <1>1, Facts
    <1>6. MatchesLog(mutable, wal[mutable.id], Len(wal[mutable.id]))
        BY <1>1 DEF LInv, Reflects, IndexIsLog, Reflected
    <1>7. \A i \in DOMAIN segments' :
              MatchesLog(segments'[i], wal[segments'[i].id], Len(wal[segments'[i].id]))
        BY <1>5, <1>6, Facts DEF LInv, Reflects, IndexIsLog
    <1>8. IndexIsLog'
        BY <1>1, <1>4, <1>7 DEF IndexIsLog
    <1> QED
        BY <1>1, <1>8 DEF Reflects, InFlight

\* Actions of a running collection that touch neither logs nor indexes.
LEMMA FilesReflects ==
    ASSUME IInv, LInv,
           \/ UpsertMeta \/ (\E d \in Docs : RemoveMeta(d)) \/ Save \/ WriteConfig
           \/ OpenMeta \/ WriteMeta \/ OpenManifest \/ WriteManifest
           \/ RotateThrows \/ RemoveStops \/ SaveStops \/ WriteLost
    PROVE  Reflects'
    <1> DEFINE Quiet == {"idle", "rotate", "meta", "rmLog", "writeConfig", "openMeta",
                         "writeMeta", "openManifest", "writeManifest"}
    <1>1. UNCHANGED <<wal, segments, mutable>> /\ pc \in Quiet /\ pc' \in Quiet
        BY DEF UpsertMeta, RemoveMeta, Save, WriteConfig, OpenMeta, WriteMeta,
               OpenManifest, WriteManifest, RotateThrows, RemoveStops, SaveStops, WriteLost,
               AfterConfig, Return, disk, memory
    <1>2. Reflected' = Reflected
        BY <1>1 DEF Reflected
    <1>3. IndexIsLog'
        BY <1>1, <1>2, SameMemory
    <1> QED
        BY <1>1, <1>3 DEF Reflects, InFlight

LEMMA CreateReflects ==
    ASSUME IInv, LInv, Create
    PROVE  Reflects'
    <1>1. /\ pc' = "writeConfig" /\ configFile' = "torn" /\ wal' = wal /\ segments' = <<>>
          /\ mutable' = FreshSegment(0) /\ nextId' = 1
          /\ \A id \in SegIds : wal[id] = <<>>
        BY DEF Create, Construct, LInv, Accounted
    <1>2. 0 \in SegIds /\ mutable'.id = 0
        BY <1>1, CollectionAssumption DEF SegIds, FreshSegment
    <1>3. MatchesLog(mutable', wal'[mutable'.id], Reflected')
        BY <1>1, <1>2, MatchesFresh DEF Reflected
    <1>4. IndexIsLog'
        BY <1>1, <1>3 DEF IndexIsLog
    <1> QED
        BY <1>1, <1>4 DEF LInv, Reflects, InFlight

LEMMA LoadOpenReflects ==
    ASSUME IInv, LInv, LoadOpen
    PROVE  Reflects'
    <1>1. /\ pc = "down" /\ pc' = "replay" /\ pos' = 0 /\ segments' = <<>>
          /\ UNCHANGED <<wal, configFile, manifest>> /\ nextId' = manifest.next
          /\ configFile = "stored"
          /\ \E id : mutable' = FreshSegment(id)
        BY DEF LoadOpen, disk
    <1>2. MatchesLog(mutable', wal'[mutable'.id], Reflected')
        BY <1>1, MatchesFresh DEF Reflected
    <1>3. IndexIsLog'
        BY <1>1, <1>2 DEF IndexIsLog
    <1>4. Len(wal'[mutable'.id]) \in Nat
        <2>1. IInv'
            BY LoadOpenStep
        <2>2. mutable'.id \in SegIds /\ wal' \in [SegIds -> Seq(Entry)]
            BY <2>1 DEF IInv, TypeOK, Segment
        <2> QED
            BY <2>2
    <1> QED
        BY <1>1, <1>3, <1>4 DEF LInv, Reflects, InFlight

LEMMA LoadThrowsReflects ==
    ASSUME IInv, LInv, LoadThrows
    PROVE  Reflects'
    <1>1. /\ pc = "down" /\ pc' = "failed" /\ configFile # "absent"
          /\ UNCHANGED <<wal, configFile, manifest, segments, mutable, nextId, pos>>
        BY DEF LoadThrows, disk, memory, loader
    <1>2. IndexIsLog'
        BY <1>1, SameMemory DEF Reflected
    <1> QED
        BY <1>1, <1>2 DEF LInv, Reflects, InFlight

LEMMA ReplayEntryReflects ==
    ASSUME IInv, LInv, ReplayEntry
    PROVE  Reflects'
    <1> DEFINE log == wal[mutable.id]
    <1>1. /\ pc = "replay" /\ pos < Len(log) /\ pc' = "replay" /\ pos' = pos + 1
          /\ UNCHANGED <<wal, configFile, manifest, segments, nextId>>
        BY DEF ReplayEntry, disk
    <1>2. \/ log[pos + 1].op = "INSERT"
             /\ mutable' = Indexed(mutable, log[pos + 1].doc, log[pos + 1].vec)
          \/ log[pos + 1].op = "DELETE" /\ mutable' = Unindexed(mutable, log[pos + 1].doc)
        BY DEF ReplayEntry
    <1>3. log \in Seq(Entry) /\ Len(log) \in Nat /\ pos \in Nat /\ pos + 1 <= Len(log)
        BY <1>1, Facts
    <1>4. MatchesLog(mutable, log, pos)
        BY <1>1 DEF LInv, Reflects, IndexIsLog, Reflected
    <1>5. mutable \in Segment /\ mutable'.id = mutable.id
        <2>1. \A d, v : Indexed(mutable, d, v).id = mutable.id /\ Unindexed(mutable, d).id = mutable.id
            BY IdsStay
        <2> HIDE DEF log
        <2> QED
            BY <1>2, <2>1, Facts
    <1> HIDE DEF log
    <1>6. MatchesLog(mutable', log, pos + 1)
        BY <1>2, <1>3, <1>4, <1>5, ApplyInsert, ApplyDelete
    <1>7. IndexIsLog'
        BY <1>1, <1>5, <1>6 DEF LInv, Reflects, IndexIsLog, Reflected, log
    <1> QED
        BY <1>1, <1>3, <1>5, <1>7 DEF LInv, Reflects, InFlight, log

LEMMA ReplayNextReflects ==
    ASSUME IInv, LInv, ReplayNext
    PROVE  Reflects'
    <1>1. /\ pc = "replay" /\ pos = Len(wal[mutable.id]) /\ pos' = 0
          /\ UNCHANGED <<wal, configFile, manifest, nextId>>
        BY DEF ReplayNext, disk
    <1>2. MatchesLog(mutable, wal[mutable.id], Len(wal[mutable.id]))
        BY <1>1 DEF LInv, Reflects, IndexIsLog, Reflected
    <1>3. CASE queue = <<>>
        <2>1. pc' = "idle" /\ UNCHANGED <<segments, mutable>>
            BY <1>3 DEF ReplayNext, Return
        <2>2. Reflected' = Len(wal[mutable.id])
            BY <1>1, <2>1 DEF Reflected
        <2>3. IndexIsLog'
            BY <1>1, <1>2, <2>1, <2>2 DEF LInv, Reflects, IndexIsLog
        <2> QED
            BY <1>1, <2>1, <2>3 DEF LInv, Reflects, InFlight
    <1>4. CASE queue # <<>>
        <2>1. /\ pc' = "replay" /\ segments' = Append(segments, mutable)
              /\ mutable' = FreshSegment(Head(queue))
            BY <1>1, <1>4 DEF ReplayNext
        <2>2. MatchesLog(mutable', wal'[mutable'.id], Reflected')
            BY <1>1, <2>1, MatchesFresh DEF Reflected
        <2>3. /\ DOMAIN segments' = 1 .. Len(segments) + 1
              /\ \A i \in 1 .. Len(segments) : segments'[i] = segments[i]
              /\ segments'[Len(segments) + 1] = mutable
            BY <2>1, Facts
        <2>4. \A i \in DOMAIN segments' :
                  MatchesLog(segments'[i], wal[segments'[i].id], Len(wal[segments'[i].id]))
            BY <1>2, <2>3, Facts DEF LInv, Reflects, IndexIsLog
        <2>5. IndexIsLog'
            BY <1>1, <2>2, <2>4 DEF IndexIsLog
        <2>6. Len(wal'[mutable'.id]) \in Nat
            <3>1. IInv'
                BY ReplayNextStep
            <3>2. mutable'.id \in SegIds /\ wal' \in [SegIds -> Seq(Entry)]
                BY <3>1 DEF IInv, TypeOK, Segment
            <3> QED
                BY <3>2
        <2> QED
            BY <1>1, <2>1, <2>5, <2>6 DEF LInv, Reflects, InFlight
    <1> QED
        BY <1>3, <1>4

\* Without memory nothing is reflected.
LEMMA ForgetReflects ==
    ASSUME Forget, pc' \in {"down", "failed"}
    PROVE  Reflects'
    <1>1. MatchesLog(mutable', wal'[mutable'.id], Reflected')
        BY MatchesFresh DEF Forget, Reflected
    <1> QED
        BY <1>1 DEF Forget, Reflects, IndexIsLog, InFlight

\* Steps that leave segments and manifest alone.
LEMMA SameAccounts ==
    ASSUME Accounted, UNCHANGED <<wal, manifest, segments, queue>>, mutable'.id = mutable.id,
           configFile' # "absent", pc # "failed" /\ pc # "down",
           pc' = pc \/ (~Loading /\ ~Loading')
    PROVE  Accounted'
    BY DEF Accounted, InMemory, InManifest, Loading

\* Where Listed matters: a process that ends leaves no log with entries behind
\* that the manifest does not name.
LEMMA StepAccounted ==
    ASSUME IInv, LInv, [NextListed]_vars
    PROVE  Accounted'
    <1>0. Accounted /\ (pc # "down" => configFile # "absent")
        BY DEF LInv, Ahead
    <1>1. CASE UNCHANGED vars
        BY <1>0, <1>1 DEF vars, disk, memory, loader, Accounted, InMemory, InManifest, Loading
    <1>2. CASE Upsert \/ RemoveLog
        <2>1. /\ \A id \in SegIds : id # mutable.id => wal'[id] = wal[id]
              /\ configFile' = configFile /\ pc \in {"idle", "rmLog"} /\ pc' \in {"index", "rmIndex"}
              /\ UNCHANGED <<manifest, segments, mutable, queue>>
            BY <1>2 DEF Upsert, UpsertLog, RemoveLog, Log, memory, loader, IInv, TypeOK
        <2> QED
            BY <1>0, <2>1 DEF Accounted, InMemory, InManifest, Loading
    <1>3. CASE \/ Remove \/ UpsertMeta \/ UpsertIndex \/ RemoveIndex \/ Seal \/ SealThrows
               \/ RotateThrows \/ RemoveStops \/ Save \/ SaveStops \/ WriteLost
               \/ WriteConfig \/ OpenMeta \/ WriteMeta
        <2>1. UNCHANGED <<wal, manifest, segments, queue>>
            BY <1>3
            DEF Remove, RemoveMeta, UpsertMeta, UpsertIndex, RemoveIndex, Seal, SealThrows,
                RotateThrows, RemoveStops, Save, SaveStops, WriteLost, WriteConfig, OpenMeta,
                WriteMeta, disk, memory, loader
        <2>2. ~Loading /\ ~Loading'
            BY <1>3
            DEF Remove, RemoveMeta, UpsertMeta, UpsertIndex, RemoveIndex, Seal, SealThrows,
                RotateThrows, RemoveStops, Save, SaveStops, WriteLost, WriteConfig, OpenMeta,
                WriteMeta, AfterConfig, Return, Loading
        <2>3. mutable'.id = mutable.id
            <3>1. CASE Seal \/ SealThrows
                BY <3>1 DEF Seal, SealThrows, IInv, TypeOK, Segment
            <3>2. CASE UpsertIndex \/ RemoveIndex
                BY <3>2, IdsStay DEF UpsertIndex, RemoveIndex
            <3> QED
                BY <1>3, <3>1, <3>2
                DEF Remove, RemoveMeta, UpsertMeta, RotateThrows, RemoveStops, Save, SaveStops,
                    WriteLost, WriteConfig, OpenMeta, WriteMeta, memory
        <2>4. configFile' # "absent"
            BY <1>0, <1>3, <2>2
            DEF Remove, RemoveMeta, UpsertMeta, UpsertIndex, RemoveIndex, Seal, SealThrows,
                RotateThrows, RemoveStops, Save, SaveStops, WriteLost, WriteConfig, OpenMeta,
                WriteMeta, disk, Loading
        <2> QED
            BY <1>0, <2>1, <2>2, <2>3, <2>4, SameAccounts DEF Loading
    <1>4. CASE Rotate
        <2>1. /\ segments' = Append(segments, mutable) /\ mutable'.id = nextId
              /\ UNCHANGED <<wal, configFile, manifest, queue>> /\ pc = "rotate" /\ pc' = "meta"
            BY <1>4 DEF Rotate, FreshSegment, disk, loader
        <2>2. /\ Len(segments') = Len(segments) + 1 /\ Len(segments) \in Nat
              /\ \A i \in 1 .. Len(segments) : segments'[i] = segments[i]
              /\ segments'[Len(segments) + 1] = mutable
            BY <2>1, Facts
        <2>3. \A id \in SegIds : InMemory(id) => InMemory(id)'
            BY <2>1, <2>2 DEF InMemory
        <2>4. manifest'.mutable # mutable'.id
            <3>1. manifest.mutable \in Nat /\ manifest.mutable < manifest.next
                BY DEF IInv, TypeOK, Manifest, SegIds, ManifestOrder
            <3>2. manifest.next <= nextId
                BY <2>1, Facts DEF LInv, Ahead, Behind
            <3> QED
                BY <2>1, <3>1, <3>2, Facts
        <2> QED
            BY <1>0, <2>1, <2>3, <2>4 DEF Accounted
    <1>5. CASE Create
        <2>1. /\ \A id \in SegIds : wal'[id] = <<>>
              /\ pc' = "writeConfig" /\ configFile' = "torn"
              /\ segments' = <<>> /\ mutable' = FreshSegment(0) /\ queue' = queue
              /\ manifest' = manifest /\ pc = "down"
            BY <1>0, <1>5 DEF Create, Construct, Accounted, loader
        <2>2. Len(queue') = 0 /\ Len(segments') = 0
            BY <2>1 DEF IInv, QueueIdle
        <2> QED
            BY <2>1, <2>2 DEF Accounted, InMemory, InManifest
    <1>6. CASE LoadOpen
        <2> DEFINE ids == Append(manifest.sealed, manifest.mutable)
        <2>1. /\ mutable' = FreshSegment(Head(ids)) /\ queue' = Tail(ids) /\ segments' = <<>>
              /\ UNCHANGED <<wal, configFile, manifest>> /\ pc = "down" /\ pc' = "replay"
            BY <1>6 DEF LoadOpen, disk
        <2>2. /\ ids \in Seq(SegIds) /\ Len(ids) = Len(manifest.sealed) + 1
              /\ \A i \in 1 .. Len(manifest.sealed) : ids[i] = manifest.sealed[i]
              /\ ids[Len(ids)] = manifest.mutable
              /\ Len(manifest.sealed) \in Nat
            BY DEF IInv, TypeOK, Manifest
        <2> HIDE DEF ids
        <2>3. /\ mutable'.id = ids[1] /\ Len(queue') = Len(ids) - 1
              /\ \A i \in 1 .. Len(queue') : queue'[i] = ids[i + 1]
            <3>1. /\ Head(ids) = ids[1] /\ Len(Tail(ids)) = Len(ids) - 1
                  /\ \A i \in 1 .. Len(Tail(ids)) : Tail(ids)[i] = ids[i + 1]
                BY <2>2
            <3> QED
                BY <2>1, <3>1 DEF FreshSegment
        <2>4. Len(segments') = 0
            BY <2>1
        <2>5. \A id : InManifest(id)' <=> \E i \in 1 .. Len(ids) : ids[i] = id
            <3>1. \A id : InManifest(id)' <=>
                      \/ id = ids[Len(ids)]
                      \/ \E i \in 1 .. Len(manifest.sealed) : ids[i] = id
                BY <2>1, <2>2 DEF InManifest
            <3>2. \A i \in 1 .. Len(ids) : i \in 1 .. Len(manifest.sealed) \/ i = Len(ids)
                BY <2>2
            <3>3. Len(ids) \in 1 .. Len(ids) /\ 1 .. Len(manifest.sealed) \subseteq 1 .. Len(ids)
                BY <2>2
            <3> QED
                BY <3>1, <3>2, <3>3, Zenon
        <2>6. \A id : InMemory(id)' <=> \E i \in 1 .. Len(ids) : ids[i] = id
            <3>1. ASSUME NEW id, NEW i \in 1 .. Len(ids), ids[i] = id PROVE InMemory(id)'
                <4>1. CASE i = 1
                    BY <2>3, <3>1, <4>1 DEF InMemory
                <4>2. CASE i # 1
                    <5>1. i - 1 \in 1 .. Len(queue') /\ queue'[i - 1] = id
                        BY <2>2, <2>3, <3>1, <4>2
                    <5> QED
                        BY <5>1 DEF InMemory
                <4> QED
                    BY <4>1, <4>2
            <3>2. ASSUME NEW id, InMemory(id)' PROVE \E i \in 1 .. Len(ids) : ids[i] = id
                BY <2>2, <2>3, <2>4, <3>2 DEF InMemory
            <3> QED
                BY <3>1, <3>2
        <2>7. \A id : InManifest(id)' <=> InManifest(id)
            BY <2>1 DEF InManifest
        <2> QED
            BY <1>0, <2>1, <2>5, <2>6, <2>7 DEF Accounted
    <1>7. CASE LoadThrows
        <2>1. /\ UNCHANGED <<wal, configFile, manifest>> /\ pc = "down" /\ pc' = "failed"
            BY <1>7 DEF LoadThrows, disk
        <2> QED
            BY <1>0, <2>1 DEF Accounted, InManifest, Loading
    <1>8. CASE OpenManifest
        <2>1. /\ manifest' = BlankManifest /\ UNCHANGED <<wal, configFile, segments, mutable, queue>>
              /\ pc = "openManifest" /\ pc' = "writeManifest"
            BY <1>8 DEF OpenManifest, memory, loader
        <2>2. Len(queue) = 0
            BY <2>1 DEF IInv, QueueIdle
        <2>3. mutable.id = 0 => Len(segments) = 0
            <3>1. \A i \in 1 .. Len(segments) : segments[i].id \in Nat
                BY Facts DEF SegIds
            <3> QED
                BY <3>1, Facts DEF IInv, SegmentOrder
        <2> QED
            BY <1>0, <2>1, <2>2, <2>3 DEF Accounted, InMemory, InManifest, BlankManifest
    <1>9. CASE WriteManifest
        <2> DEFINE ids == [i \in DOMAIN segments |-> segments[i].id]
        <2>1. /\ Len(ids) = Len(segments)
              /\ \A i \in 1 .. Len(segments) : ids[i] = segments[i].id
            BY IdsOfSegments
        <2> HIDE DEF ids
        <2>2. /\ manifest'.sealed = ids /\ manifest'.mutable = mutable.id
              /\ UNCHANGED <<wal, configFile, segments, mutable, queue>>
              /\ pc = "writeManifest" /\ pc' = "idle"
            BY <1>9 DEF WriteManifest, Return, memory, loader, ids
        <2>3. Len(queue) = 0
            BY <2>2 DEF IInv, QueueIdle
        <2>4. \A id : InMemory(id)' <=> InMemory(id)
            BY <2>2 DEF InMemory
        <2>5. \A id : InMemory(id) => InManifest(id)'
            BY <2>1, <2>2, <2>3 DEF InMemory, InManifest
        <2>6. configFile' = "absent" => \A id \in SegIds : wal'[id] = <<>>
            BY <1>0, <2>2 DEF Accounted
        <2>7. \A id \in SegIds : wal'[id] # <<>> => InMemory(id)'
            BY <1>0, <2>2, <2>4 DEF Accounted
        <2>8. \A id \in SegIds : InMemory(id)' => InManifest(id)'
            BY <2>4, <2>5
        <2> QED
            BY <2>2, <2>6, <2>7, <2>8, Zenon DEF Accounted
    <1>10. CASE ReplayEntry
        <2>1. UNCHANGED <<wal, configFile, manifest, segments, queue>> /\ pc = "replay" /\ pc' = pc
            BY <1>10 DEF ReplayEntry, disk
        <2>2. mutable'.id = mutable.id
            BY <1>10, IdsStay DEF ReplayEntry
        <2>3. configFile' # "absent" \/ \A id \in SegIds : wal'[id] = <<>>
            BY <1>0, <2>1 DEF Accounted
        <2>4. \A id : InMemory(id)' <=> InMemory(id)
            BY <2>1, <2>2 DEF InMemory
        <2>5. \A id : InManifest(id)' <=> InManifest(id)
            BY <2>1 DEF InManifest
        <2> QED
            BY <1>0, <2>1, <2>3, <2>4, <2>5 DEF Accounted
    <1>11. CASE ReplayNext
        <2>1. UNCHANGED <<wal, configFile, manifest>> /\ pc = "replay"
            BY <1>11 DEF ReplayNext, disk
        <2>2. CASE queue = <<>>
            <3>1. UNCHANGED <<segments, mutable, queue>> /\ pc' = "idle"
                BY <1>11, <2>2 DEF ReplayNext, Return
            <3> QED
                BY <1>0, <2>1, <3>1 DEF Accounted, InMemory, InManifest
        <2>3. CASE queue # <<>>
            <3>1. /\ segments' = Append(segments, mutable) /\ mutable' = FreshSegment(Head(queue))
                  /\ queue' = Tail(queue) /\ pc' = "replay"
                BY <1>11, <2>1, <2>3 DEF ReplayNext
            <3>2. queue \in Seq(SegIds)
                BY DEF IInv, TypeOK
            <3>3. /\ mutable'.id = queue[1] /\ Len(queue') = Len(queue) - 1 /\ Len(queue) \in Nat \ {0}
                  /\ \A i \in 1 .. Len(queue') : queue'[i] = queue[i + 1]
                BY <2>3, <3>1, <3>2 DEF FreshSegment
            <3>4. /\ Len(segments') = Len(segments) + 1 /\ Len(segments) \in Nat
                  /\ \A i \in 1 .. Len(segments) : segments'[i] = segments[i]
                  /\ segments'[Len(segments) + 1] = mutable
                BY <3>1, Facts
            <3>5. ASSUME NEW id, InMemory(id) PROVE InMemory(id)'
                <4>1. CASE id = mutable.id
                    BY <3>4, <4>1 DEF InMemory
                <4>2. CASE \E i \in 1 .. Len(segments) : segments[i].id = id
                    BY <3>4, <4>2 DEF InMemory
                <4>3. ASSUME NEW i \in 1 .. Len(queue), queue[i] = id PROVE InMemory(id)'
                    <5>1. CASE i = 1
                        BY <3>3, <4>3, <5>1 DEF InMemory
                    <5>2. CASE i # 1
                        <6>1. i - 1 \in 1 .. Len(queue') /\ queue'[i - 1] = id
                            BY <3>3, <4>3, <5>2
                        <6> QED
                            BY <6>1 DEF InMemory
                    <5> QED
                        BY <5>1, <5>2
                <4> QED
                    BY <3>5, <4>1, <4>2, <4>3 DEF InMemory
            <3>6. ASSUME NEW id, InMemory(id)' PROVE InMemory(id)
                <4>1. CASE id = mutable'.id
                    BY <3>3, <4>1 DEF InMemory
                <4>2. CASE \E i \in 1 .. Len(segments') : segments'[i].id = id
                    BY <3>4, <4>2 DEF InMemory
                <4>3. CASE \E i \in 1 .. Len(queue') : queue'[i] = id
                    BY <3>3, <4>3 DEF InMemory
                <4> QED
                    BY <3>6, <4>1, <4>2, <4>3 DEF InMemory
            <3>7. \A id : InManifest(id)' <=> InManifest(id)
                BY <2>1 DEF InManifest
            <3> QED
                BY <1>0, <2>1, <3>1, <3>5, <3>6, <3>7 DEF Accounted
        <2> QED
            BY <2>2, <2>3
    <1>12. CASE ReplayThrows \/ (Listed /\ Stop)
        <2>1. /\ UNCHANGED <<wal, configFile, manifest>> /\ pc' \in {"down", "failed"}
              /\ pc \in {"replay", "failed"} \/ (~Loading /\ manifest.mutable = mutable.id)
            BY <1>12 DEF ReplayThrows, Listed, Stop, disk, Loading
        <2>2. \A id : InManifest(id)' <=> InManifest(id)
            BY <2>1 DEF InManifest
        <2> QED
            BY <1>0, <2>1, <2>2 DEF Accounted, Loading
    <1> QED
        BY <1>1, <1>2, <1>3, <1>4, <1>5, <1>6, <1>7, <1>8, <1>9, <1>10, <1>11, <1>12
        DEF NextListed, Advance, Fail, Manage

LEMMA StepReflects == IInv /\ LInv /\ [NextListed]_vars => Reflects'
    <1> SUFFICES ASSUME IInv, LInv, [NextListed]_vars PROVE Reflects'
        OBVIOUS
    <1>1. CASE UNCHANGED vars
        BY <1>1
        DEF vars, disk, memory, loader, LInv, Reflects, InFlight, IndexIsLog, Reflected
    <1>2. CASE Upsert
        BY <1>2, UpsertLogReflects DEF Upsert
    <1>3. CASE Remove
        BY <1>3, FilesReflects DEF Remove
    <1>4. CASE Manage
        BY <1>4, CreateReflects, FilesReflects, LoadOpenReflects, LoadThrowsReflects DEF Manage
    <1>5. CASE Advance
        BY <1>5, UpsertIndexReflects, SealReflects, RotateReflects, FilesReflects,
           RemoveLogReflects, RemoveIndexReflects, ReplayEntryReflects, ReplayNextReflects
        DEF Advance
    <1>6. CASE Fail
        BY <1>6, SealReflects, FilesReflects, ForgetReflects DEF Fail, ReplayThrows
    <1>7. CASE Stop
        BY <1>7, ForgetReflects DEF Stop
    <1> QED
        BY <1>1, <1>2, <1>3, <1>4, <1>5, <1>6, <1>7 DEF NextListed

LEMMA StepLInv == IInv /\ LInv /\ [NextListed]_vars => LInv'
    <1> SUFFICES ASSUME IInv, LInv, [NextListed]_vars PROVE LInv'
        OBVIOUS
    <1>1. [NextCrash]_vars
        BY DEF NextListed, NextCrash
    <1>2. Ahead'
        BY <1>1, StepAhead DEF LInv
    <1> QED
        BY <1>2, StepReflects, StepAccounted DEF LInv

-----------------------------------------------------------------------------
LEMMA ListedInvariance == SpecListed => [](IInv /\ LInv)
    <1>2. SpecListed => []IInv
        BY ListedImpliesCrash, CrashImpliesAny, Invariance, PTL
    <1>3. IInv /\ LInv /\ [NextListed]_vars => LInv'
        BY StepLInv
    <1> QED
        BY <1>2, <1>3, InitLInv, PTL DEF SpecListed

\* As long as the process ends only while the manifest names every segment, no
\* crash and no load makes an index differ from what its log says.
THEOREM IndexesAreTheirLogs == SpecListed => []IndexIsLog
    <1>1. LInv => IndexIsLog
        BY DEF LInv, Reflects
    <1> QED
        BY <1>1, ListedInvariance, PTL

-----------------------------------------------------------------------------
(* Induction over the natural numbers, about sets.                         *)

LEMMA LeastNat ==
    ASSUME NEW T, T \subseteq Nat, T # {}
    PROVE  \E n \in T : \A m \in T : n <= m
    <1>1. IsWellFoundedOn(OpToRel(<, Nat), Nat)
        BY NatLessThanWellFounded
    <1>2. PICK n \in T : \A m \in T : <<m, n>> \notin OpToRel(<, Nat)
        BY <1>1, WFMin, Zenon
    <1>3. \A m \in T : ~(m < n)
        BY <1>2 DEF OpToRel
    <1>4. \A m \in T : m \in Nat
        OBVIOUS
    <1>5. n \in Nat
        OBVIOUS
    <1> QED
        BY <1>3, <1>4, <1>5

LEMMA Induction ==
    ASSUME NEW S, 0 \in S, \A n \in Nat : n \in S => n + 1 \in S
    PROVE  Nat \subseteq S
    <1> SUFFICES ASSUME Nat \ S # {} PROVE FALSE
        OBVIOUS
    <1>1. PICK n \in Nat \ S : \A m \in Nat \ S : n <= m
        BY LeastNat
    <1>2. n # 0 /\ n - 1 \in Nat /\ (n - 1) + 1 = n /\ ~(n <= n - 1)
        OBVIOUS
    <1>3. n - 1 \in S
        BY <1>1, <1>2
    <1> QED
        BY <1>2, <1>3

-----------------------------------------------------------------------------
(* The count.                                                              *)

\* One more entry.
Counted(c, entry) ==
    IF entry.op = "INSERT" THEN c + 1 ELSE IF c > 0 THEN c - 1 ELSE 0

IsCount(f, log, n) ==
    f = [i \in 0 .. n |-> IF i = 0 THEN 0
                          ELSE IF log[i].op = "INSERT" THEN f[i - 1] + 1
                          ELSE IF f[i - 1] > 0 THEN f[i - 1] - 1 ELSE 0]

LEMMA CountExists ==
    ASSUME NEW log, NEW n \in Nat
    PROVE  \E f \in [0 .. n -> Nat] : IsCount(f, log, n)
    <1> DEFINE S == {k \in Nat : \E f \in [0 .. k -> Nat] : IsCount(f, log, k)}
    <1>1. 0 \in S
        <2> DEFINE f == [i \in 0 .. 0 |-> 0]
        <2>1. f \in [0 .. 0 -> Nat] /\ \A i \in 0 .. 0 : i = 0
            OBVIOUS
        <2>2. IsCount(f, log, 0)
            BY <2>1 DEF IsCount
        <2> QED
            BY <2>1, <2>2
    <1>2. ASSUME NEW k \in Nat, k \in S PROVE k + 1 \in S
        <2>1. PICK f \in [0 .. k -> Nat] : IsCount(f, log, k)
            BY <1>2
        <2> DEFINE g == [i \in 0 .. k + 1 |-> IF i = k + 1 THEN Counted(f[k], log[k + 1]) ELSE f[i]]
        <2>2. f[k] \in Nat
            OBVIOUS
        <2>3. Counted(f[k], log[k + 1]) \in Nat
            BY <2>2 DEF Counted
        <2>4. g \in [0 .. k + 1 -> Nat]
            BY <2>3
        <2>5. g[k + 1] = Counted(f[k], log[k + 1]) /\ \A i \in 0 .. k : g[i] = f[i]
            OBVIOUS
        <2>6. DOMAIN g = 0 .. k + 1
            OBVIOUS
        <2> HIDE DEF g
        <2>7. \A i \in 0 .. k + 1 :
                  g[i] = IF i = 0 THEN 0
                         ELSE IF log[i].op = "INSERT" THEN g[i - 1] + 1
                         ELSE IF g[i - 1] > 0 THEN g[i - 1] - 1 ELSE 0
            <3> SUFFICES ASSUME NEW i \in 0 .. k + 1
                         PROVE  g[i] = IF i = 0 THEN 0
                                       ELSE IF log[i].op = "INSERT" THEN g[i - 1] + 1
                                       ELSE IF g[i - 1] > 0 THEN g[i - 1] - 1 ELSE 0
                OBVIOUS
            <3>1. CASE i = k + 1
                BY <2>5, <3>1 DEF Counted
            <3>2. CASE i # k + 1
                <4>1. i \in 0 .. k /\ (i # 0 => i - 1 \in 0 .. k)
                    BY <3>2
                <4>2. f[i] = IF i = 0 THEN 0
                             ELSE IF log[i].op = "INSERT" THEN f[i - 1] + 1
                             ELSE IF f[i - 1] > 0 THEN f[i - 1] - 1 ELSE 0
                    BY <2>1, <4>1 DEF IsCount
                <4> QED
                    BY <2>5, <4>1, <4>2
            <3> QED
                BY <3>1, <3>2
        <2>8. IsCount(g, log, k + 1)
            BY <2>4, <2>7 DEF IsCount
        <2> QED
            BY <2>4, <2>8
    <1> HIDE DEF S
    <1>3. n \in S
        BY <1>1, <1>2, Induction
    <1> QED
        BY <1>3 DEF S

\* The logs have their first n entries in common.
Agree(log, longer, n) == \A i \in 1 .. n : longer[i] = log[i]

LEMMA CountUnique ==
    ASSUME NEW log, NEW longer, NEW n \in Nat, NEW m \in Nat, n <= m, Agree(log, longer, n),
           NEW f, IsCount(f, log, n), NEW g, IsCount(g, longer, m)
    PROVE  f[n] = g[n]
    <1> DEFINE S == {k \in Nat : k <= n => f[k] = g[k]}
    <1>1. 0 \in S
        BY DEF IsCount
    <1>2. ASSUME NEW k \in Nat, k \in S PROVE k + 1 \in S
        <2> SUFFICES ASSUME k + 1 <= n PROVE f[k + 1] = g[k + 1]
            OBVIOUS
        <2>1. k + 1 \in 0 .. n /\ k + 1 \in 0 .. m /\ k + 1 \in 1 .. n /\ k + 1 # 0 /\ (k + 1) - 1 = k
            OBVIOUS
        <2>2. f[k] = g[k] /\ longer[k + 1] = log[k + 1]
            BY <1>2, <2>1 DEF Agree
        <2>3. f[k + 1] = IF log[k + 1].op = "INSERT" THEN f[k] + 1
                         ELSE IF f[k] > 0 THEN f[k] - 1 ELSE 0
            BY <2>1 DEF IsCount
        <2>4. g[k + 1] = IF longer[k + 1].op = "INSERT" THEN g[k] + 1
                         ELSE IF g[k] > 0 THEN g[k] - 1 ELSE 0
            BY <2>1 DEF IsCount
        <2> QED
            BY <2>2, <2>3, <2>4
    <1> HIDE DEF S
    <1>3. n \in S
        BY <1>1, <1>2, Induction
    <1> QED
        BY <1>3 DEF S

LEMMA CountIs ==
    ASSUME NEW log, NEW n \in Nat
    PROVE  \E f \in [0 .. n -> Nat] : IsCount(f, log, n) /\ CountAfter(log, n) = f[n]
    <1> DEFINE f == CHOOSE f : IsCount(f, log, n)
    <1>1. IsCount(f, log, n)
        BY CountExists
    <1>2. CountAfter(log, n) = f[n]
        BY DEF CountAfter, IsCount
    <1>3. PICK g \in [0 .. n -> Nat] : IsCount(g, log, n)
        BY CountExists
    <1> HIDE DEF f
    <1>4. n <= n /\ Agree(log, log, n)
        BY DEF Agree
    <1>5. f[n] = g[n]
        BY <1>1, <1>3, <1>4, CountUnique
    <1> QED
        BY <1>2, <1>3, <1>5

\* What the count is, as equations.
LEMMA CountZero ==
    ASSUME NEW log
    PROVE  CountAfter(log, 0) = 0
    <1>1. PICK f \in [0 .. 0 -> Nat] : IsCount(f, log, 0) /\ CountAfter(log, 0) = f[0]
        BY CountIs
    <1> QED
        BY <1>1 DEF IsCount

LEMMA CountPrefix ==
    ASSUME NEW log, NEW longer, NEW n \in Nat, Agree(log, longer, n)
    PROVE  CountAfter(longer, n) = CountAfter(log, n)
    <1>1. PICK f \in [0 .. n -> Nat] : IsCount(f, log, n) /\ CountAfter(log, n) = f[n]
        BY CountIs
    <1>2. PICK g \in [0 .. n -> Nat] : IsCount(g, longer, n) /\ CountAfter(longer, n) = g[n]
        BY CountIs
    <1>3. n <= n
        OBVIOUS
    <1>4. f[n] = g[n]
        BY <1>1, <1>2, <1>3, CountUnique
    <1> QED
        BY <1>1, <1>2, <1>4

LEMMA CountStep ==
    ASSUME NEW log, NEW n \in Nat
    PROVE  /\ CountAfter(log, n) \in Nat
           /\ CountAfter(log, n + 1) = Counted(CountAfter(log, n), log[n + 1])
    <1>1. PICK f \in [0 .. n -> Nat] : IsCount(f, log, n) /\ CountAfter(log, n) = f[n]
        BY CountIs
    <1>2. PICK g \in [0 .. n + 1 -> Nat] :
              IsCount(g, log, n + 1) /\ CountAfter(log, n + 1) = g[n + 1]
        BY CountIs, n + 1 \in Nat
    <1>3. f[n] = g[n]
        <2>1. n + 1 \in Nat /\ n <= n + 1 /\ Agree(log, log, n)
            BY DEF Agree
        <2> QED
            BY <1>1, <1>2, <2>1, CountUnique
    <1>4. n + 1 \in 0 .. n + 1 /\ n + 1 # 0 /\ (n + 1) - 1 = n
        OBVIOUS
    <1>5. g[n + 1] = Counted(g[n], log[n + 1])
        BY <1>2, <1>4 DEF IsCount, Counted
    <1> QED
        BY <1>1, <1>2, <1>3, <1>5

\* What one action does to the count of the mutable segment.
LEMMA CountFacts ==
    /\ \A id : FreshSegment(id).id = id /\ FreshSegment(id).count = 0
    /\ \A seg, d, v : Indexed(seg, d, v).id = seg.id /\ Indexed(seg, d, v).count = seg.count + 1
    /\ \A seg, d : /\ Unindexed(seg, d).id = seg.id
                    /\ Unindexed(seg, d).count = IF seg.count > 0 THEN seg.count - 1 ELSE 0
    BY DEF FreshSegment, Indexed, Unindexed

LEMMA InitCount == Init => CountIsLog
    <1> SUFFICES ASSUME Init PROVE CountIsLog
        OBVIOUS
    <1>1. segments = <<>> /\ mutable.count = 0 /\ Reflected = 0
        BY CountFacts DEF Init, Reflected
    <1> QED
        BY <1>1, CountZero DEF CountIsLog

\* A collection whose one segment is new and reflects nothing.
LEMMA FreshCount ==
    ASSUME segments' = <<>>, NEW id, mutable' = FreshSegment(id), Reflected' = 0
    PROVE  CountIsLog'
    BY CountFacts, CountZero DEF CountIsLog

LEMMA SameCount ==
    ASSUME CountIsLog, UNCHANGED <<wal, segments, Reflected>>,
           mutable'.id = mutable.id, mutable'.count = mutable.count
    PROVE  CountIsLog'
    BY DEF CountIsLog

\* The mutable segment joins the others, whole, and a new one takes its place.
LEMMA NextCount ==
    ASSUME IInv, CountIsLog, UNCHANGED wal, Reflected = Len(wal[mutable.id]),
           segments' = Append(segments, mutable), NEW id, mutable' = FreshSegment(id),
           Reflected' = 0
    PROVE  CountIsLog'
    <1>1. /\ DOMAIN segments' = 1 .. Len(segments) + 1
          /\ \A i \in 1 .. Len(segments) : segments'[i] = segments[i]
          /\ segments'[Len(segments) + 1] = mutable
          /\ DOMAIN segments = 1 .. Len(segments) /\ Len(segments) \in Nat
        BY Facts
    <1>2. \A i \in DOMAIN segments' : i \in DOMAIN segments \/ i = Len(segments) + 1
        BY <1>1
    <1>3. \A i \in DOMAIN segments' :
              segments'[i].count = CountAfter(wal'[segments'[i].id], Len(wal'[segments'[i].id]))
        BY <1>1, <1>2 DEF CountIsLog
    <1>4. mutable'.count = CountAfter(wal'[mutable'.id], Reflected')
        BY CountFacts, CountZero
    <1> QED
        BY <1>3, <1>4 DEF CountIsLog

LEMMA LogCount ==
    ASSUME IInv, CountIsLog, pc \in {"idle", "rmLog"}, pc' \in {"index", "rmIndex"},
           UNCHANGED memory, NEW op, NEW d \in Docs, NEW v \in Payload, Log(op, d, v),
           [op |-> op, doc |-> d, vec |-> v] \in Entry
    PROVE  CountIsLog'
    <1> DEFINE e == [op |-> op, doc |-> d, vec |-> v]
               log == wal[mutable.id]
    <1>1. wal' = [wal EXCEPT ![mutable.id] = Append(log, e)] /\ UNCHANGED <<segments, mutable>>
        BY DEF Log, memory
    <1>2. wal'[mutable.id] = Append(log, e) /\ \A id \in SegIds : id # mutable.id => wal'[id] = wal[id]
        BY <1>1, Facts DEF IInv, TypeOK
    <1>3. log \in Seq(Entry) /\ e \in Entry
        BY Facts
    <1> HIDE DEF e, log
    <1>4. Len(Append(log, e)) = Len(log) + 1 /\ Len(log) \in Nat /\ Agree(log, Append(log, e), Len(log))
        BY <1>3 DEF Agree
    <1>5. Reflected = Len(log) /\ Reflected' = Len(log)
        BY <1>1, <1>2, <1>4 DEF Reflected, log
    <1>6. mutable'.count = CountAfter(wal'[mutable'.id], Reflected')
        BY <1>1, <1>2, <1>4, <1>5, CountPrefix DEF CountIsLog, log
    <1>7. \A i \in DOMAIN segments :
              segments[i].count = CountAfter(wal'[segments[i].id], Len(wal'[segments[i].id]))
        BY <1>2, Facts DEF CountIsLog
    <1> QED
        BY <1>1, <1>6, <1>7 DEF CountIsLog

\* The mutable segment takes in one more entry of its log.
LEMMA ApplyCount ==
    ASSUME IInv, CountIsLog, UNCHANGED <<wal, segments>>,
           Reflected \in Nat, Reflected' = Reflected + 1,
           NEW d, NEW v, NEW e, e = wal[mutable.id][Reflected + 1],
           \/ e.op = "INSERT" /\ mutable' = Indexed(mutable, d, v)
           \/ e.op = "DELETE" /\ mutable' = Unindexed(mutable, d)
    PROVE  CountIsLog'
    <1>1. mutable'.id = mutable.id /\ mutable'.count = Counted(mutable.count, e)
        BY CountFacts DEF Counted
    <1>2. mutable.count = CountAfter(wal[mutable.id], Reflected)
        BY DEF CountIsLog
    <1>3. mutable'.count = CountAfter(wal[mutable.id], Reflected + 1)
        BY <1>1, <1>2, CountStep
    <1> QED
        BY <1>1, <1>3 DEF CountIsLog

LEMMA StepCount == IInv /\ LInv /\ CountIsLog /\ [NextListed]_vars => CountIsLog'
    <1> SUFFICES ASSUME IInv, LInv, CountIsLog, [NextListed]_vars PROVE CountIsLog'
        OBVIOUS
    <1>1. CASE UNCHANGED vars
        BY <1>1 DEF vars, disk, memory, loader, CountIsLog, Reflected
    <1>2. ASSUME NEW d \in Docs, NEW v \in Vecs, UpsertLog(d, v) PROVE CountIsLog'
        <2>1. [op |-> "INSERT", doc |-> d, vec |-> v] \in Entry /\ v \in Payload
            BY DEF Entry, Payload
        <2> QED
            BY <1>2, <2>1, LogCount DEF UpsertLog
    <1>3. CASE RemoveLog
        <2>1. call.doc \in Docs
            BY <1>3 DEF IInv, CallOK, RemoveLog
        <2>2. [op |-> "DELETE", doc |-> call.doc, vec |-> None] \in Entry /\ None \in Payload
            BY <2>1 DEF Entry, Payload
        <2> QED
            BY <1>3, <2>1, <2>2, LogCount DEF RemoveLog
    <1>4. CASE UpsertIndex
        <2>1. /\ pc = "index" /\ pc' = "seal" /\ UNCHANGED <<wal, segments>>
              /\ mutable' = Indexed(mutable, call.doc, call.vec)
            BY <1>4 DEF UpsertIndex, disk
        <2>2. /\ Reflected = Len(wal[mutable.id]) - 1 /\ Len(wal[mutable.id]) \in Nat \ {0}
              /\ wal[mutable.id][Len(wal[mutable.id])].op = "INSERT"
            BY <2>1, Facts DEF LInv, Reflects, InFlight, Reflected
        <2>3. Reflected \in Nat /\ Reflected + 1 = Len(wal[mutable.id])
            BY <2>2
        <2>4. Reflected' = Reflected + 1
            BY <2>1, <2>3, CountFacts DEF Reflected
        <2> QED
            BY <2>1, <2>2, <2>3, <2>4, ApplyCount
    <1>5. CASE RemoveIndex
        <2>1. /\ pc = "rmIndex" /\ pc' = "idle" /\ UNCHANGED <<wal, segments>>
              /\ mutable' = Unindexed(mutable, call.doc)
            BY <1>5 DEF RemoveIndex, Return, disk
        <2>2. /\ Reflected = Len(wal[mutable.id]) - 1 /\ Len(wal[mutable.id]) \in Nat \ {0}
              /\ wal[mutable.id][Len(wal[mutable.id])].op = "DELETE"
            BY <2>1, Facts DEF LInv, Reflects, InFlight, Reflected
        <2>3. Reflected \in Nat /\ Reflected + 1 = Len(wal[mutable.id])
            BY <2>2
        <2>4. Reflected' = Reflected + 1
            BY <2>1, <2>3, CountFacts DEF Reflected
        <2> QED
            BY <2>1, <2>2, <2>3, <2>4, ApplyCount
    <1>6. CASE Seal \/ SealThrows
        <2>1. /\ pc = "seal" /\ pc' \in {"rotate", "meta", "idle"} /\ UNCHANGED <<wal, segments>>
              /\ mutable'.id = mutable.id /\ mutable'.count = mutable.count
            BY <1>6 DEF IInv, TypeOK, Segment, Seal, SealThrows, Return, disk
        <2> QED
            BY <2>1, SameCount DEF Reflected
    <1>7. CASE Rotate
        <2>1. /\ pc = "rotate" /\ pc' = "meta" /\ wal' = wal
              /\ segments' = Append(segments, mutable) /\ mutable' = FreshSegment(nextId)
            BY <1>7 DEF Rotate, disk
        <2>2. wal[nextId] = <<>>
            BY <2>1, NextLogEmpty
        <2> QED
            BY <2>1, <2>2, CountFacts, NextCount DEF Reflected
    <1>8. CASE \/ UpsertMeta \/ (\E d \in Docs : RemoveMeta(d)) \/ Save \/ WriteConfig
               \/ OpenMeta \/ WriteMeta \/ OpenManifest \/ WriteManifest
               \/ RotateThrows \/ RemoveStops \/ SaveStops \/ WriteLost
        <2>1. /\ UNCHANGED <<wal, segments, mutable>>
              /\ pc \notin {"down", "failed", "replay", "index", "rmIndex"}
              /\ pc' \notin {"down", "failed", "replay", "index", "rmIndex"}
            BY <1>8 DEF UpsertMeta, RemoveMeta, Save, WriteConfig, OpenMeta, WriteMeta,
                        OpenManifest, WriteManifest, RotateThrows, RemoveStops, SaveStops,
                        WriteLost, AfterConfig, Return, disk, memory
        <2>2. Reflected' = Reflected
            BY <2>1 DEF Reflected
        <2> QED
            BY <2>1, <2>2, SameCount
    <1>9. CASE Create
        <2>1. /\ pc' = "writeConfig" /\ wal' = wal /\ segments' = <<>>
              /\ mutable' = FreshSegment(0) /\ \A id \in SegIds : wal[id] = <<>>
            BY <1>9 DEF Create, Construct, LInv, Accounted
        <2>2. wal[0] = <<>>
            BY <2>1, CollectionAssumption DEF SegIds
        <2> QED
            BY <2>1, <2>2, CountFacts, FreshCount DEF Reflected
    <1>10. CASE LoadOpen
        <2>1. pc' = "replay" /\ pos' = 0 /\ segments' = <<>> /\ \E id : mutable' = FreshSegment(id)
            BY <1>10 DEF LoadOpen
        <2> QED
            BY <2>1, FreshCount DEF Reflected
    <1>11. CASE LoadThrows
        <2>1. pc = "down" /\ pc' = "failed" /\ UNCHANGED <<wal, segments, mutable, pos>>
            BY <1>11 DEF LoadThrows, disk, memory, loader
        <2> QED
            BY <2>1, SameCount DEF Reflected
    <1>12. CASE ReplayEntry
        <2>1. /\ pc = "replay" /\ pc' = "replay" /\ pos' = pos + 1 /\ UNCHANGED <<wal, segments>>
            BY <1>12 DEF ReplayEntry, disk
        <2>2. Reflected = pos /\ Reflected' = pos + 1 /\ pos \in Nat
            BY <2>1, Facts DEF Reflected
        <2> DEFINE e == wal[mutable.id][pos + 1]
        <2>3. \/ e.op = "INSERT" /\ mutable' = Indexed(mutable, e.doc, e.vec)
              \/ e.op = "DELETE" /\ mutable' = Unindexed(mutable, e.doc)
            BY <1>12 DEF ReplayEntry
        <2> HIDE DEF e
        <2>4. e = wal[mutable.id][Reflected + 1]
            BY <2>2 DEF e
        <2> QED
            BY <2>1, <2>2, <2>3, <2>4, ApplyCount
    <1>13. CASE ReplayNext
        <2>1. /\ pc = "replay" /\ pos = Len(wal[mutable.id]) /\ pos' = 0 /\ wal' = wal
              /\ Reflected = Len(wal[mutable.id])
            BY <1>13 DEF ReplayNext, disk, Reflected
        <2>2. CASE queue = <<>>
            <3>1. pc' = "idle" /\ UNCHANGED <<segments, mutable>>
                BY <1>13, <2>2 DEF ReplayNext, Return
            <3>2. Reflected' = Reflected
                BY <2>1, <3>1 DEF Reflected
            <3> QED
                BY <2>1, <3>1, <3>2, SameCount
        <2>3. CASE queue # <<>>
            <3>1. /\ pc' = "replay" /\ segments' = Append(segments, mutable)
                  /\ mutable' = FreshSegment(Head(queue))
                BY <1>13, <2>1, <2>3 DEF ReplayNext
            <3>2. Reflected' = 0
                BY <2>1, <3>1 DEF Reflected
            <3> QED
                BY <2>1, <3>1, <3>2, NextCount
        <2> QED
            BY <2>2, <2>3
    <1>14. CASE Stop \/ ReplayThrows
        <2>1. /\ pc' \in {"down", "failed"} /\ pos' = 0 /\ segments' = <<>>
              /\ mutable' = FreshSegment(0)
            BY <1>14 DEF Stop, ReplayThrows, Forget
        <2> QED
            BY <2>1, FreshCount DEF Reflected
    <1> QED
        BY <1>1, <1>2, <1>3, <1>4, <1>5, <1>6, <1>7, <1>8, <1>9, <1>10, <1>11, <1>12, <1>13, <1>14
        DEF NextListed, Advance, Fail, Manage, Upsert, Remove

\* Under the same condition every vector_count_ is what its log says, before and
\* after any number of crashes and loads.
THEOREM CountsAreTheirLogs == SpecListed => []CountIsLog
    BY ListedInvariance, InitCount, StepCount, PTL DEF SpecListed

-----------------------------------------------------------------------------
(* What the logs say and what the indexes hold.                            *)

\* What a log amounts to for d.
Nodes(log, d) == Superseded(log, d) \cup ({Newest(log, d)} \ {None})

\* What all logs amount to for d.
Logged(d) == UNION {Nodes(wal[id], d) : id \in SegIds}

LEMMA NewestIsLast ==
    ASSUME NEW log \in Seq(Entry), NEW d \in Docs, NEW i \in 1 .. Len(log),
           IsLastOf(i, log, Len(log), d)
    PROVE  Newest(log, d) = log[i].vec
    <1> DEFINE own == EntriesOf(log, Len(log), d)
    <1>1. i \in own /\ own # {} /\ own \subseteq 1 .. Len(log) /\ \A j \in own : j <= i
        BY DEF IsLastOf, EntriesOf
    <1> HIDE DEF own
    <1> DEFINE last == CHOOSE k \in own : \A j \in own : j <= k
    <1>2. last \in own /\ \A j \in own : j <= last
        BY <1>1
    <1> HIDE DEF last
    <1>3. last = i
        BY <1>1, <1>2
    <1>4. Newest(log, d) = log[last].vec
        BY <1>1 DEF Newest, Own, own, last
    <1> QED
        BY <1>3, <1>4

\* An index that is its whole log holds what the log amounts to.
LEMMA ReadsLog ==
    ASSUME NEW seg \in Segment, NEW log \in Seq(Entry), MatchesLog(seg, log, Len(log)),
           NEW d \in Docs
    PROVE  /\ seg.cur[d] = Newest(log, d)
           /\ seg.stale[d] = Superseded(log, d)
           /\ NodesOf(seg, d) = Nodes(log, d)
    <1> DEFINE own == EntriesOf(log, Len(log), d)
    <1>1. MatchesDoc(seg, log, Len(log), d)
        BY DEF MatchesLog
    <1>2. own \subseteq 1 .. Len(log)
        BY DEF EntriesOf
    <1>3. seg.cur[d] = Newest(log, d)
        <2>1. CASE own = {} /\ seg.cur[d] = None
            BY <2>1 DEF Newest, Own
        <2>2. CASE \E i \in 1 .. Len(log) :
                       IsLastOf(i, log, Len(log), d) /\ seg.cur[d] = log[i].vec
            BY <2>2, NewestIsLast
        <2> QED
            BY <1>1, <2>1, <2>2 DEF MatchesDoc
    <1>4. ASSUME NEW v \in Vecs
          PROVE  v \in seg.stale[d] <=> v \in Superseded(log, d)
        <2>1. v \in seg.stale[d] <=>
                  \E i, k \in 1 .. Len(log) :
                      /\ log[i] = [op |-> "INSERT", doc |-> d, vec |-> v]
                      /\ log[k].op = "INSERT"
                      /\ Follows(i, k, log, Len(log), d)
            BY <1>1 DEF MatchesDoc
        <2>2. \A i \in own : log[i] \in Entry /\ log[i].doc = d
            BY <1>2 DEF EntriesOf
        <2>3. \A i \in own : log[i].op = "INSERT" =>
                  log[i] = [op |-> "INSERT", doc |-> d, vec |-> log[i].vec]
            BY <2>2 DEF Entry
        <2>4. v \in Superseded(log, d) <=>
                  \E i, k \in own : /\ log[i].vec = v /\ log[i].op = "INSERT"
                                    /\ log[k].op = "INSERT" /\ i < k
                                    /\ \A j \in own : j <= i \/ k <= j
            BY DEF Superseded, Own
        <2>5. \A i, k \in 1 .. Len(log) :
                  Follows(i, k, log, Len(log), d) <=>
                      i \in own /\ k \in own /\ i < k /\ \A j \in own : j <= i \/ k <= j
            BY DEF Follows
        <2> HIDE DEF own
        <2>6. v \in seg.stale[d] <=>
                  \E i, k \in own : /\ log[i] = [op |-> "INSERT", doc |-> d, vec |-> v]
                                    /\ log[k].op = "INSERT" /\ i < k
                                    /\ \A j \in own : j <= i \/ k <= j
            <3>1. ASSUME v \in seg.stale[d]
                  PROVE  \E i, k \in own : /\ log[i] = [op |-> "INSERT", doc |-> d, vec |-> v]
                                           /\ log[k].op = "INSERT" /\ i < k
                                           /\ \A j \in own : j <= i \/ k <= j
                <4>1. PICK i, k \in 1 .. Len(log) :
                          /\ log[i] = [op |-> "INSERT", doc |-> d, vec |-> v]
                          /\ log[k].op = "INSERT"
                          /\ Follows(i, k, log, Len(log), d)
                    BY <2>1, <3>1
                <4>2. i \in own /\ k \in own /\ i < k /\ \A j \in own : j <= i \/ k <= j
                    BY <2>5, <4>1
                <4> QED
                    BY <4>1, <4>2
            <3>2. ASSUME NEW i \in own, NEW k \in own,
                         log[i] = [op |-> "INSERT", doc |-> d, vec |-> v],
                         log[k].op = "INSERT", i < k, \A j \in own : j <= i \/ k <= j
                  PROVE  v \in seg.stale[d]
                <4>1. i \in 1 .. Len(log) /\ k \in 1 .. Len(log)
                    BY <1>2
                <4>2. Follows(i, k, log, Len(log), d)
                    BY <2>5, <3>2, <4>1
                <4> QED
                    BY <2>1, <3>2, <4>1, <4>2
            <3> QED
                BY <3>1, <3>2
        <2>7. \A i \in own : log[i] = [op |-> "INSERT", doc |-> d, vec |-> v] <=>
                                log[i].vec = v /\ log[i].op = "INSERT"
            <3>1. \A i \in own : log[i] = [op |-> "INSERT", doc |-> d, vec |-> v] =>
                                    log[i].vec = v /\ log[i].op = "INSERT"
                OBVIOUS
            <3>2. \A i \in own : log[i].vec = v /\ log[i].op = "INSERT" =>
                                    log[i] = [op |-> "INSERT", doc |-> d, vec |-> v]
                BY <2>3, Zenon
            <3> QED
                BY <3>1, <3>2, Zenon
        <2> QED
            BY <2>4, <2>6, <2>7
    <1>5. Superseded(log, d) \subseteq Vecs
        <2>1. \A i \in own : log[i] \in Entry
            BY <1>2
        <2>2. \A i \in own : log[i].op = "INSERT" => log[i].vec \in Vecs
            BY <2>1 DEF Entry
        <2> QED
            BY <2>2 DEF Superseded, Own
    <1>6. seg.stale[d] \subseteq Vecs
        BY DEF Segment
    <1>7. seg.stale[d] = Superseded(log, d)
        BY <1>4, <1>5, <1>6
    <1> QED
        BY <1>3, <1>7 DEF NodesOf, Nodes

LEMMA EmptyLog ==
    ASSUME NEW d \in Docs
    PROVE  Newest(<<>>, d) = None /\ Superseded(<<>>, d) = {} /\ Nodes(<<>>, d) = {}
    <1>1. Own(<<>>, d) = {}
        BY DEF Own, EntriesOf
    <1> QED
        BY <1>1 DEF Newest, Superseded, Nodes

\* A log that took one more entry.
LEMMA LoggedInsert ==
    ASSUME NEW seg \in Segment, NEW log \in Seq(Entry), MatchesLog(seg, log, Len(log)),
           NEW d \in Docs, NEW v \in Vecs, NEW c \in Docs
    PROVE  LET longer == Append(log, [op |-> "INSERT", doc |-> d, vec |-> v])
           IN  /\ Newest(longer, c) = IF c = d THEN v ELSE Newest(log, c)
               /\ Superseded(longer, c) = IF c = d THEN Nodes(log, c) ELSE Superseded(log, c)
    <1> DEFINE e == [op |-> "INSERT", doc |-> d, vec |-> v]
               longer == Append(log, e)
               new == Indexed(seg, d, v)
    <1>1. e \in Entry
        BY DEF Entry
    <1>2. e.op = "INSERT" /\ e.doc = d /\ e.vec = v
        OBVIOUS
    <1> HIDE DEF e
    <1>3. /\ longer \in Seq(Entry) /\ Len(longer) = Len(log) + 1 /\ Len(log) \in Nat
          /\ longer[Len(log) + 1] = e /\ \A i \in 1 .. Len(log) : longer[i] = log[i]
        BY <1>1
    <1> HIDE DEF longer
    <1>4. MatchesLog(seg, longer, Len(log))
        BY <1>3, MatchesPrefix
    <1>5. MatchesLog(new, longer, Len(longer))
        BY <1>2, <1>3, <1>4, ApplyInsert
    <1>6. new \in Segment
        BY IndexedType
    <1>7. /\ new.cur = [seg.cur EXCEPT ![d] = v]
          /\ new.stale = [seg.stale EXCEPT ![d] = @ \cup ({seg.cur[d]} \ {None})]
        BY DEF Indexed
    <1> HIDE DEF new
    <1>8. new.cur[c] = Newest(longer, c) /\ new.stale[c] = Superseded(longer, c)
        BY <1>3, <1>5, <1>6, ReadsLog
    <1>9. /\ seg.cur[c] = Newest(log, c) /\ seg.stale[c] = Superseded(log, c)
          /\ NodesOf(seg, c) = Nodes(log, c)
        BY ReadsLog
    <1>10. seg.cur \in [Docs -> Payload] /\ seg.stale \in [Docs -> SUBSET Vecs]
        BY DEF Segment
    <1> QED
        BY <1>7, <1>8, <1>9, <1>10 DEF NodesOf, longer, e

LEMMA LoggedDelete ==
    ASSUME NEW seg \in Segment, NEW log \in Seq(Entry), MatchesLog(seg, log, Len(log)),
           NEW d \in Docs, NEW c \in Docs
    PROVE  LET longer == Append(log, [op |-> "DELETE", doc |-> d, vec |-> None])
           IN  /\ Newest(longer, c) = IF c = d THEN None ELSE Newest(log, c)
               /\ Superseded(longer, c) = Superseded(log, c)
    <1> DEFINE e == [op |-> "DELETE", doc |-> d, vec |-> None]
               longer == Append(log, e)
               new == Unindexed(seg, d)
    <1>1. e \in Entry
        BY DEF Entry
    <1>2. e.op = "DELETE" /\ e.doc = d
        OBVIOUS
    <1> HIDE DEF e
    <1>3. /\ longer \in Seq(Entry) /\ Len(longer) = Len(log) + 1 /\ Len(log) \in Nat
          /\ longer[Len(log) + 1] = e /\ \A i \in 1 .. Len(log) : longer[i] = log[i]
        BY <1>1
    <1> HIDE DEF longer
    <1>4. MatchesLog(seg, longer, Len(log))
        BY <1>3, MatchesPrefix
    <1>5. MatchesLog(new, longer, Len(longer))
        BY <1>2, <1>3, <1>4, ApplyDelete
    <1>6. new \in Segment
        BY UnindexedType
    <1>7. new.cur = [seg.cur EXCEPT ![d] = None] /\ new.stale = seg.stale
        BY DEF Unindexed
    <1> HIDE DEF new
    <1>8. new.cur[c] = Newest(longer, c) /\ new.stale[c] = Superseded(longer, c)
        BY <1>3, <1>5, <1>6, ReadsLog
    <1>9. seg.cur[c] = Newest(log, c) /\ seg.stale[c] = Superseded(log, c)
        BY ReadsLog
    <1>10. seg.cur \in [Docs -> Payload] /\ seg.stale \in [Docs -> SUBSET Vecs]
        BY DEF Segment
    <1> QED
        BY <1>7, <1>8, <1>9, <1>10 DEF longer, e

-----------------------------------------------------------------------------
(* The refinement mapping.                                                 *)

\* The index of every segment is its whole log: no write is half-done.
Caught == pc \notin {"down", "failed", "replay", "index", "rmIndex"}

\* Between two writes the indexes show what the logs say.
LEMMA ShownIsLogged ==
    IInv /\ LInv /\ Caught => \A d \in Docs : ShownOf(d) = Logged(d)
    <1> SUFFICES ASSUME IInv, LInv, Caught, NEW d \in Docs PROVE ShownOf(d) = Logged(d)
        OBVIOUS
    <1>1. /\ MatchesLog(mutable, wal[mutable.id], Len(wal[mutable.id]))
          /\ \A i \in DOMAIN segments :
                 MatchesLog(segments[i], wal[segments[i].id], Len(wal[segments[i].id]))
        BY DEF LInv, Reflects, IndexIsLog, Reflected, Caught
    <1>2. NodesOf(mutable, d) = Nodes(wal[mutable.id], d) /\ mutable.id \in SegIds
        BY <1>1, Facts, ReadsLog
    <1>3. ASSUME NEW i \in DOMAIN segments
          PROVE  NodesOf(segments[i], d) = Nodes(wal[segments[i].id], d) /\ segments[i].id \in SegIds
        <2>1. segments[i] \in Segment /\ segments[i].id \in SegIds
            BY Facts
        <2>2. wal[segments[i].id] \in Seq(Entry)
            BY <2>1, Facts
        <2> QED
            BY <1>1, <2>1, <2>2, ReadsLog
    <1>4. ASSUME NEW id \in SegIds, id # mutable.id, \A i \in DOMAIN segments : segments[i].id # id
          PROVE  Nodes(wal[id], d) = {}
        <2>1. Len(queue) = 0
            BY DEF IInv, QueueIdle, Caught
        <2>2. ~InMemory(id)
            BY <1>4, <2>1, Facts DEF InMemory
        <2>3. wal[id] = <<>>
            BY <2>2 DEF LInv, Accounted, Caught
        <2> QED
            BY <2>3, EmptyLog
    <1>5. ShownOf(d) = NodesOf(mutable, d) \cup UNION {NodesOf(segments[i], d) : i \in DOMAIN segments}
        BY DEF ShownOf, AllSegments
    <1>6. ASSUME NEW v, v \in ShownOf(d) PROVE v \in Logged(d)
        BY <1>2, <1>3, <1>5, <1>6 DEF Logged
    <1>7. ASSUME NEW v, v \in Logged(d) PROVE v \in ShownOf(d)
        <2>1. PICK id \in SegIds : v \in Nodes(wal[id], d)
            BY <1>7 DEF Logged
        <2>2. id = mutable.id \/ \E i \in DOMAIN segments : segments[i].id = id
            BY <1>4, <2>1
        <2> QED
            BY <1>2, <1>3, <1>5, <2>1, <2>2
    <1> QED
        BY <1>6, <1>7

\* What the abstract store holds is what the logs amount to.
LEMMA HeldIsLogged ==
    IInv => \A d \in Docs : AgedOf(d) \cup ({FreshOf(d)} \ {None}) = Logged(d)
    <1> SUFFICES ASSUME IInv, NEW d \in Docs
                 PROVE  AgedOf(d) \cup ({FreshOf(d)} \ {None}) = Logged(d)
        OBVIOUS
    <1>1. Current \in SegIds
        BY CurrentIsId
    <1> QED
        BY <1>1 DEF AgedOf, FreshOf, Logged, Nodes

\* The mapped variables.
FreshMap == [d \in Docs |-> FreshOf(d)]
AgedMap  == [d \in Docs |-> AgedOf(d)]
ShownMap == IF Loading THEN [d \in Docs |-> {}] ELSE [d \in Docs |-> ShownOf(d)]

LEMMA ContentsAreLogged == IInv => Store!Contents = [d \in Docs |-> Logged(d)]
    <1> SUFFICES ASSUME IInv PROVE Store!Contents = [d \in Docs |-> Logged(d)]
        OBVIOUS
    <1>1. \A d \in Docs : Store!Held(d) = AgedOf(d) \cup ({FreshOf(d)} \ {None})
        BY DEF Store!Held
    <1> QED
        BY <1>1, HeldIsLogged DEF Store!Contents

LEMMA CaughtUp ==
    IInv /\ LInv /\ Caught => ~Loading /\ ShownMap = Store!Contents
    <1> SUFFICES ASSUME IInv, LInv, Caught PROVE ~Loading /\ ShownMap = Store!Contents
        OBVIOUS
    <1>1. ~Loading
        BY DEF Caught, Loading
    <1> QED
        BY <1>1, ShownIsLogged, ContentsAreLogged DEF ShownMap

-----------------------------------------------------------------------------
(* Every step is a step of the store or none.                              *)

\* What is logged is the same, and so is the log that is written to.
LEMMA SameLogs ==
    ASSUME UNCHANGED <<wal, Current>>
    PROVE  UNCHANGED <<FreshMap, AgedMap>>
    BY DEF FreshMap, AgedMap, FreshOf, AgedOf

LEMMA Stutter ==
    ASSUME UNCHANGED <<wal, Current, Loading, ShownMap>>
    PROVE  UNCHANGED Store!vars
    BY SameLogs DEF Store!vars, FreshMap, AgedMap, ShownMap

\* Steps of a process that loads or has loaded, and that leave logs, manifest
\* and indexes alone.
LEMMA SameIndexes ==
    ASSUME UNCHANGED <<wal, segments, mutable, Loading>>, ~Loading \/ manifest' = manifest
    PROVE  UNCHANGED Store!vars
    <1>1. Current' = Current
        BY DEF Current
    <1>2. \A d : ShownOf(d)' = ShownOf(d)
        BY DEF ShownOf, AllSegments
    <1>3. ShownMap' = ShownMap
        BY <1>2 DEF ShownMap
    <1> QED
        BY <1>1, <1>3, Stutter

\* An entry is logged while the indexes are what the logs say.
LEMMA UpsertLogMaps ==
    ASSUME IInv, LInv, NEW d \in Docs, NEW v \in Vecs, UpsertLog(d, v)
    PROVE  Store!Settled /\ Store!Put(d, v)
    <1> DEFINE log == wal[mutable.id]
               longer == Append(log, [op |-> "INSERT", doc |-> d, vec |-> v])
    <1>1. /\ pc = "idle" /\ pc' = "index" /\ UNCHANGED <<segments, mutable>>
          /\ wal' = [wal EXCEPT ![mutable.id] = longer]
        BY DEF UpsertLog, Log, memory
    <1>2. Caught /\ ~Loading /\ ~Loading'
        BY <1>1 DEF Caught, Loading
    <1>3. MatchesLog(mutable, log, Len(log))
        BY <1>1 DEF LInv, Reflects, IndexIsLog, Reflected
    <1>4. mutable \in Segment /\ mutable.id \in SegIds /\ log \in Seq(Entry)
        BY Facts
    <1>5. \A c \in Docs :
              /\ Newest(longer, c) = IF c = d THEN v ELSE Newest(log, c)
              /\ Superseded(longer, c) = IF c = d THEN Nodes(log, c) ELSE Superseded(log, c)
        BY <1>3, <1>4, LoggedInsert
    <1>6. /\ wal'[mutable.id] = longer
          /\ \A id \in SegIds \ {mutable.id} : wal'[id] = wal[id]
        BY <1>1, <1>4 DEF IInv, TypeOK
    <1>7. Current = mutable.id /\ Current' = mutable.id
        BY <1>1, <1>2 DEF Current
    <1> HIDE DEF log, longer
    <1>8. \A c \in Docs : FreshOf(c)' = IF c = d THEN v ELSE FreshOf(c)
        BY <1>5, <1>6, <1>7 DEF FreshOf, log
    <1>9. ASSUME NEW c \in Docs
          PROVE  AgedOf(c)' = IF c = d THEN AgedOf(c) \cup ({FreshOf(c)} \ {None}) ELSE AgedOf(c)
        <2> DEFINE Rest == UNION {Superseded(wal[id], c) \cup ({Newest(wal[id], c)} \ {None}) :
                                      id \in SegIds \ {mutable.id}}
        <2>1. AgedOf(c) = Superseded(log, c) \cup Rest
            BY <1>7 DEF AgedOf, log
        <2>2. AgedOf(c)' = Superseded(longer, c) \cup Rest
            BY <1>6, <1>7 DEF AgedOf
        <2>3. FreshOf(c) = Newest(log, c)
            BY <1>7 DEF FreshOf, log
        <2> HIDE DEF Rest
        <2> QED
            BY <1>5, <2>1, <2>2, <2>3 DEF Nodes
    <1>10. ShownMap' = ShownMap
        BY <1>1, <1>2 DEF ShownMap, ShownOf, AllSegments
    <1>11. Store!Settled
        BY <1>2, CaughtUp DEF Store!Settled, ShownMap
    <1>12. FreshMap' = [FreshMap EXCEPT ![d] = v]
        BY <1>8 DEF FreshMap
    <1>13. AgedMap' = [AgedMap EXCEPT ![d] = AgedOf(d) \cup ({FreshOf(d)} \ {None})]
        BY <1>9 DEF AgedMap
    <1>14. Store!Held(d) = AgedOf(d) \cup ({FreshOf(d)} \ {None})
        BY DEF Store!Held
    <1> QED
        BY <1>2, <1>10, <1>11, <1>12, <1>13, <1>14
        DEF Store!Put, FreshMap, AgedMap, ShownMap

LEMMA RemoveLogMaps ==
    ASSUME IInv, LInv, RemoveLog
    PROVE  call.doc \in Docs /\ Store!Settled /\ Store!Erase(call.doc)
    <1> DEFINE d == call.doc
               log == wal[mutable.id]
               longer == Append(log, [op |-> "DELETE", doc |-> d, vec |-> None])
    <1>1. /\ pc = "rmLog" /\ pc' = "rmIndex" /\ UNCHANGED <<segments, mutable>>
          /\ wal' = [wal EXCEPT ![mutable.id] = longer]
        BY DEF RemoveLog, Log, memory
    <1>2. Caught /\ ~Loading /\ ~Loading' /\ d \in Docs
        BY <1>1 DEF Caught, Loading, IInv, CallOK
    <1>3. MatchesLog(mutable, log, Len(log))
        BY <1>1 DEF LInv, Reflects, IndexIsLog, Reflected
    <1>4. mutable \in Segment /\ mutable.id \in SegIds /\ log \in Seq(Entry)
        BY Facts
    <1>5. \A c \in Docs :
              /\ Newest(longer, c) = IF c = d THEN None ELSE Newest(log, c)
              /\ Superseded(longer, c) = Superseded(log, c)
        BY <1>2, <1>3, <1>4, LoggedDelete
    <1>6. /\ wal'[mutable.id] = longer
          /\ \A id \in SegIds \ {mutable.id} : wal'[id] = wal[id]
        BY <1>1, <1>4 DEF IInv, TypeOK
    <1>7. Current = mutable.id /\ Current' = mutable.id
        BY <1>1, <1>2 DEF Current
    <1> HIDE DEF log, longer
    <1>8. \A c \in Docs : FreshOf(c)' = IF c = d THEN None ELSE FreshOf(c)
        BY <1>5, <1>6, <1>7 DEF FreshOf, log
    <1>9. \A c \in Docs : AgedOf(c)' = AgedOf(c)
        BY <1>5, <1>6, <1>7 DEF AgedOf, log
    <1>10. ShownMap' = ShownMap
        BY <1>1, <1>2 DEF ShownMap, ShownOf, AllSegments
    <1>11. Store!Settled
        BY <1>2, CaughtUp DEF Store!Settled, ShownMap
    <1>12. FreshMap' = [FreshMap EXCEPT ![d] = None] /\ AgedMap' = AgedMap
        BY <1>8, <1>9 DEF FreshMap, AgedMap
    <1> QED
        BY <1>2, <1>10, <1>11, <1>12 DEF Store!Erase, FreshMap, AgedMap, ShownMap

\* The indexes catch up, at run time or at the end of a load.
LEMMA IndexMaps ==
    ASSUME IInv, LInv, UpsertIndex \/ RemoveIndex
    PROVE  Store!Show
    <1>1. /\ pc \in {"index", "rmIndex"} /\ pc' \in {"seal", "idle"} /\ wal' = wal
          /\ mutable'.id = mutable.id
        <2>1. \A d, v : Indexed(mutable, d, v).id = mutable.id /\ Unindexed(mutable, d).id = mutable.id
            BY IdsStay
        <2> QED
            BY <2>1 DEF UpsertIndex, RemoveIndex, Return, disk
    <1>2. Caught' /\ ~Loading /\ ~Loading' /\ Current' = Current
        BY <1>1 DEF Caught, Loading, Current
    <1>3. IInv' /\ LInv'
        BY UpsertIndexStep, RemoveIndexStep, StepLInv DEF NextListed, Advance
    <1>4. (IInv /\ LInv /\ Caught => ~Loading /\ ShownMap = Store!Contents)'
        BY CaughtUp, PTL
    <1>5. UNCHANGED <<FreshMap, AgedMap>>
        BY <1>1, <1>2, SameLogs
    <1>6. Store!Contents' = Store!Contents
        BY <1>5 DEF Store!Contents, Store!Held, FreshMap, AgedMap
    <1> QED
        BY <1>2, <1>3, <1>4, <1>5, <1>6 DEF Store!Show, FreshMap, AgedMap, ShownMap

\* A rotation moves on to an empty log, out of reach of removals.
LEMMA RotateMaps ==
    ASSUME IInv, LInv, Rotate
    PROVE  Store!Settled /\ Store!Age
    <1>1. /\ pc = "rotate" /\ pc' = "meta" /\ wal' = wal
          /\ segments' = Append(segments, mutable) /\ mutable' = FreshSegment(nextId)
        BY DEF Rotate, disk
    <1>2. Caught /\ ~Loading /\ ~Loading'
        BY <1>1 DEF Caught, Loading
    <1>3. nextId \in SegIds
        BY <1>1, NextLogEmpty
    <1>4. wal[nextId] = <<>>
        BY <1>1, NextLogEmpty
    <1>5. Current = mutable.id /\ Current' = nextId
        BY <1>1, <1>2 DEF Current, FreshSegment
    <1>6. ASSUME NEW d \in Docs
          PROVE  FreshOf(d)' = None /\ AgedOf(d)' = Logged(d)
        <2>1. FreshOf(d)' = None
            BY <1>1, <1>4, <1>5, EmptyLog DEF FreshOf
        <2>2. AgedOf(d)' = UNION {Nodes(wal[id], d) : id \in SegIds \ {nextId}}
            BY <1>1, <1>4, <1>5, EmptyLog DEF AgedOf, Nodes
        <2>3. Logged(d) = UNION {Nodes(wal[id], d) : id \in SegIds \ {nextId}}
            BY <1>3, <1>4, EmptyLog DEF Logged
        <2> QED
            BY <2>1, <2>2, <2>3
    <1>7. FreshMap' = [d \in Docs |-> None] /\ AgedMap' = Store!Contents
        BY <1>6, ContentsAreLogged DEF FreshMap, AgedMap
    <1>8. ASSUME NEW d \in Docs PROVE ShownOf(d)' = ShownOf(d)
        <2>1. /\ DOMAIN segments' = 1 .. Len(segments) + 1
              /\ \A i \in 1 .. Len(segments) : segments'[i] = segments[i]
              /\ segments'[Len(segments) + 1] = mutable
              /\ DOMAIN segments = 1 .. Len(segments) /\ Len(segments) \in Nat
            BY <1>1, Facts
        <2>2. AllSegments' = AllSegments \cup {FreshSegment(nextId)}
            BY <1>1, <2>1 DEF AllSegments
        <2>3. NodesOf(FreshSegment(nextId), d) = {}
            BY DEF NodesOf, FreshSegment, Nothing
        <2> QED
            BY <2>2, <2>3 DEF ShownOf
    <1>9. ShownMap' = ShownMap
        BY <1>2, <1>8 DEF ShownMap
    <1>10. Store!Settled
        BY <1>2, CaughtUp DEF Store!Settled, ShownMap
    <1> QED
        BY <1>2, <1>7, <1>9, <1>10 DEF Store!Age, FreshMap, AgedMap, ShownMap

\* The process has all its indexes: after a creation, and at the end of a load.
LEMMA StartMaps ==
    ASSUME Loading, Caught', IInv', LInv', UNCHANGED <<FreshMap, AgedMap>>
    PROVE  Store!Start
    <1>1. (IInv /\ LInv /\ Caught => ~Loading /\ ShownMap = Store!Contents)'
        BY CaughtUp, PTL
    <1>2. Store!Contents' = Store!Contents
        BY DEF Store!Contents, Store!Held, FreshMap, AgedMap
    <1> QED
        BY <1>1, <1>2 DEF Store!Start, FreshMap, AgedMap, ShownMap

LEMMA CreateMaps ==
    ASSUME IInv, LInv, Create
    PROVE  Store!Start
    <1>1. /\ pc = "down" /\ pc' = "writeConfig" /\ wal' = wal /\ mutable' = FreshSegment(0)
          /\ \A id \in SegIds : wal[id] = <<>>
        BY DEF Create, Construct, LInv, Accounted
    <1>2. IInv' /\ LInv'
        BY ConstructStep, StepLInv DEF Create, NextListed, Manage
    <1>3. Loading /\ Caught'
        BY <1>1 DEF Loading, Caught
    <1>4. Current \in SegIds
        BY CurrentIsId
    <1>5. (IInv => Current \in SegIds)'
        BY CurrentIsId, PTL
    <1>6. \A d \in Docs : FreshOf(d) = None /\ FreshOf(d)' = None
        BY <1>1, <1>2, <1>4, <1>5, EmptyLog DEF FreshOf
    <1>7. \A d \in Docs : AgedOf(d) = {} /\ AgedOf(d)' = {}
        BY <1>1, <1>2, <1>4, <1>5, EmptyLog DEF AgedOf
    <1>8. UNCHANGED <<FreshMap, AgedMap>>
        BY <1>6, <1>7 DEF FreshMap, AgedMap
    <1> QED
        BY <1>2, <1>3, <1>8, StartMaps

LEMMA ReplayNextMaps ==
    ASSUME IInv, LInv, ReplayNext
    PROVE  Store!Start \/ UNCHANGED Store!vars
    <1>1. pc = "replay" /\ wal' = wal /\ manifest' = manifest
        BY DEF ReplayNext, disk
    <1>2. IInv' /\ LInv'
        BY ReplayNextStep, StepLInv DEF NextListed, Advance
    <1>3. Loading
        BY <1>1 DEF Loading
    <1>4. CASE queue = <<>>
        <2>1. pc' = "idle" /\ mutable' = mutable
            BY <1>4 DEF ReplayNext, Return
        <2>2. mutable.id = manifest.mutable
            BY <1>1, <1>4 DEF IInv, LoadOrder
        <2>3. Caught' /\ Current' = Current
            BY <1>1, <1>3, <2>1, <2>2 DEF Caught, Current, Loading
        <2>4. UNCHANGED <<FreshMap, AgedMap>>
            BY <1>1, <2>3, SameLogs
        <2> QED
            BY <1>2, <1>3, <2>3, <2>4, StartMaps
    <1>5. CASE queue # <<>>
        <2>1. pc' = "replay"
            BY <1>1, <1>5 DEF ReplayNext
        <2>2. UNCHANGED <<wal, Current, Loading, ShownMap>>
            BY <1>1, <2>1 DEF Loading, Current, ShownMap
        <2> QED
            BY <2>2, Stutter
    <1> QED
        BY <1>4, <1>5

\* The end of the process: the manifest names the log that was written to.
LEMMA StopMaps ==
    ASSUME ReplayThrows \/ (Listed /\ Stop)
    PROVE  Store!Stop \/ UNCHANGED Store!vars
    <1>1. pc' \in {"down", "failed"} /\ wal' = wal /\ manifest' = manifest
        BY DEF Stop, ReplayThrows, disk
    <1>2. Current' = Current /\ Loading' /\ ShownMap' = [d \in Docs |-> {}]
        BY <1>1 DEF Listed, ReplayThrows, Current, Loading, ShownMap
    <1>3. UNCHANGED <<FreshMap, AgedMap>>
        BY <1>1, <1>2, SameLogs
    <1>4. CASE Loading
        BY <1>1, <1>2, <1>4, Stutter DEF ShownMap
    <1>5. CASE ~Loading
        BY <1>2, <1>3, <1>5 DEF Store!Stop, Store!Blank, FreshMap, AgedMap, ShownMap
    <1> QED
        BY <1>4, <1>5

\* Steps the store does not see.
LEMMA SealMaps ==
    ASSUME IInv, Seal \/ SealThrows
    PROVE  UNCHANGED Store!vars
    <1>1. /\ pc = "seal" /\ pc' \in {"rotate", "meta", "idle"} /\ UNCHANGED <<wal, segments>>
          /\ mutable'.id = mutable.id /\ mutable'.cur = mutable.cur /\ mutable'.stale = mutable.stale
        BY DEF IInv, TypeOK, Segment, Seal, SealThrows, Return, disk
    <1>2. ~Loading /\ Loading' = Loading /\ Current' = Current
        BY <1>1 DEF Loading, Current
    <1>3. \A d : NodesOf(mutable', d) = NodesOf(mutable, d)
        BY <1>1 DEF NodesOf
    <1>4. \A d : ShownOf(d)' = ShownOf(d)
        BY <1>1, <1>3 DEF ShownOf, AllSegments
    <1>5. ShownMap' = ShownMap
        BY <1>2, <1>4 DEF ShownMap
    <1> QED
        BY <1>1, <1>2, <1>5, Stutter

LEMMA FilesMap ==
    ASSUME \/ UpsertMeta \/ (\E d \in Docs : RemoveMeta(d)) \/ Save \/ WriteConfig
           \/ OpenMeta \/ WriteMeta \/ OpenManifest \/ WriteManifest
           \/ RotateThrows \/ RemoveStops \/ SaveStops \/ WriteLost
    PROVE  UNCHANGED Store!vars
    <1>1. UNCHANGED <<wal, segments, mutable>>
        BY DEF UpsertMeta, RemoveMeta, Save, WriteConfig, OpenMeta, WriteMeta, OpenManifest,
               WriteManifest, RotateThrows, RemoveStops, SaveStops, WriteLost, disk, memory
    <1>2. ~Loading /\ Loading' = Loading
        BY DEF UpsertMeta, RemoveMeta, Save, WriteConfig, OpenMeta, WriteMeta, OpenManifest,
               WriteManifest, RotateThrows, RemoveStops, SaveStops, WriteLost, AfterConfig,
               Return, Loading
    <1> QED
        BY <1>1, <1>2, SameIndexes

LEMMA LoadingMaps ==
    ASSUME LoadOpen \/ LoadThrows \/ ReplayEntry
    PROVE  UNCHANGED Store!vars
    <1>1. UNCHANGED <<wal, manifest>> /\ Loading /\ Loading'
        BY DEF LoadOpen, LoadThrows, ReplayEntry, Loading, disk
    <1>2. UNCHANGED <<Current, ShownMap>>
        BY <1>1 DEF Current, ShownMap
    <1> QED
        BY <1>1, <1>2, Stutter

-----------------------------------------------------------------------------
LEMMA InitMaps == Init => Store!Init
    <1> SUFFICES ASSUME Init PROVE Store!Init
        OBVIOUS
    <1>1. /\ \A id \in SegIds : wal[id] = <<>>
          /\ pc = "down" /\ Current \in SegIds
        BY CurrentIsId, InitIInv DEF Init
    <1>2. \A d \in Docs : FreshOf(d) = None /\ AgedOf(d) = {}
        BY <1>1, EmptyLog DEF FreshOf, AgedOf
    <1>3. Loading
        BY <1>1 DEF Loading
    <1> QED
        BY <1>2, <1>3 DEF Store!Init, Store!Blank

LEMMA StepMaps == IInv /\ LInv /\ [NextListed]_vars => [Store!Next]_(Store!vars)
    <1> SUFFICES ASSUME IInv, LInv, [NextListed]_vars PROVE Store!Next \/ UNCHANGED Store!vars
        OBVIOUS
    <1>1. CASE UNCHANGED vars
        BY <1>1, SameIndexes DEF vars, disk, memory, Loading
    <1>2. CASE Upsert
        BY <1>2, UpsertLogMaps DEF Upsert, Store!Next, Store!Write
    <1>3. CASE Remove
        BY <1>3, FilesMap DEF Remove
    <1>4. CASE Manage
        BY <1>4, CreateMaps, FilesMap, LoadingMaps DEF Manage, Store!Next
    <1>5. CASE Advance
        BY <1>5, IndexMaps, SealMaps, RotateMaps, FilesMap, RemoveLogMaps, LoadingMaps,
           ReplayNextMaps
        DEF Advance, Store!Next, Store!Write
    <1>6. CASE Listed /\ Stop
        BY <1>6, StopMaps DEF Store!Next
    <1>7. CASE Fail
        BY <1>7, SealMaps, FilesMap, StopMaps DEF Fail, Store!Next
    <1> QED
        BY <1>1, <1>2, <1>3, <1>4, <1>5, <1>6, <1>7 DEF NextListed

\* While the process ends only when the manifest names every segment, the
\* collection implements the document store: every write takes effect for good
\* when it is logged and is shown before the next, and no crash, save or load
\* loses, repeats or revives one.
THEOREM ImplementsStore == SpecListed => IsDocumentStore
    <1>1. SpecListed => [](IInv /\ LInv)
        BY ListedInvariance
    <1>2. SpecListed => Store!Init
        BY InitMaps DEF SpecListed
    <1>3. SpecListed => [][Store!Next]_(Store!vars)
        BY <1>1, StepMaps, PTL DEF SpecListed
    <1> QED
        BY <1>2, <1>3, PTL DEF IsDocumentStore, Store!Spec

-----------------------------------------------------------------------------
(* Sums over functions.                                                    *)

\* What SumFunction chooses: a sum for every set of indices.
IsSum(g, f) ==
    g = [s \in SUBSET DOMAIN f |->
            IF s = {} THEN 0
            ELSE LET x == CHOOSE x \in s : TRUE IN f[x] + g[s \ {x}]]

LEMMA SumIs ==
    ASSUME NEW f
    PROVE  SumFunction(f) = (CHOOSE g : IsSum(g, f))[DOMAIN f]
    BY DEF SumFunction, SumFunctionOnSet, FoldFunctionOnSet, MapThenFoldSet, IsSum

\* The sizes of disjoint sets add up to the size of their union.
LEMMA SumOfSizes ==
    ASSUME NEW n \in Nat, NEW f, DOMAIN f = 1 .. n, NEW L,
           \A i \in 1 .. n : IsFiniteSet(L[i]) /\ f[i] = Cardinality(L[i]),
           \A i, j \in 1 .. n : i # j => L[i] \cap L[j] = {}
    PROVE  /\ IsFiniteSet(UNION {L[i] : i \in 1 .. n})
           /\ SumFunction(f) = Cardinality(UNION {L[i] : i \in 1 .. n})
    <1> DEFINE D == 1 .. n
               All(s) == UNION {L[i] : i \in s}
               Pick(s) == CHOOSE x \in s : TRUE
    <1>1. \A s \in SUBSET D : IsFiniteSet(s) /\ Cardinality(s) \in Nat
        <2>1. IsFiniteSet(D)
            <3> HIDE DEF All, Pick
            <3>1. 1 \in Int /\ n \in Int
                OBVIOUS
            <3>2. \A a, b \in Int : IsFiniteSet(a .. b)
                BY FS_Interval, Zenon
            <3> QED
                BY <3>1, <3>2
        <2> QED
            BY <2>1, FS_Subset, FS_CardinalityType
    <1>2. ASSUME NEW s \in SUBSET D, s # {}
          PROVE  /\ Pick(s) \in s /\ s \ {Pick(s)} \in SUBSET D
                 /\ Cardinality(s \ {Pick(s)}) = Cardinality(s) - 1
                 /\ All(s) = All(s \ {Pick(s)}) \cup L[Pick(s)]
                 /\ All(s \ {Pick(s)}) \cap L[Pick(s)] = {}
        <2> DEFINE x == Pick(s)
                   r == s \ {x}
        <2>1. x \in s
            BY <1>2
        <2> HIDE DEF x
        <2>2. r \in SUBSET D
            OBVIOUS
        <2>3. Cardinality(r) = Cardinality(s) - 1
            BY <1>1, <2>1, FS_RemoveElement
        <2>4. All(s) = All(r) \cup L[x]
            BY <2>1
        <2>5. All(r) \cap L[x] = {}
            BY <2>1
        <2> QED
            BY <2>1, <2>2, <2>3, <2>4, <2>5 DEF x
    <1>3. All({}) = {} /\ IsFiniteSet({}) /\ Cardinality({}) = 0
        BY FS_EmptySet
    <1> HIDE DEF D, All, Pick
    <1>4. \A s \in SUBSET D : IsFiniteSet(All(s))
        <2> DEFINE S == {k \in Nat : \A s \in SUBSET D : Cardinality(s) = k => IsFiniteSet(All(s))}
        <2>1. 0 \in S
            BY <1>1, <1>3, FS_EmptySet
        <2>2. ASSUME NEW k \in Nat, k \in S PROVE k + 1 \in S
            <3> SUFFICES ASSUME NEW s \in SUBSET D, Cardinality(s) = k + 1
                         PROVE  IsFiniteSet(All(s))
                OBVIOUS
            <3>1. s # {}
                BY <1>1, FS_EmptySet
            <3>2. IsFiniteSet(All(s \ {Pick(s)}))
                BY <1>2, <2>2, <3>1
            <3>3. IsFiniteSet(L[Pick(s)])
                BY <1>2, <3>1 DEF D
            <3>4. IsFiniteSet(All(s \ {Pick(s)}) \cup L[Pick(s)])
                BY <3>2, <3>3, FS_Union
            <3> QED
                BY <1>2, <3>1, <3>4
        <2>3. Nat \subseteq S
            <3> HIDE DEF S
            <3> QED
                BY <2>1, <2>2, Induction
        <2> QED
            BY <1>1, <2>3
    <1>5. ASSUME NEW s \in SUBSET D, s # {}
          PROVE  Cardinality(All(s)) = f[Pick(s)] + Cardinality(All(s \ {Pick(s)}))
        <2>1. /\ Pick(s) \in D /\ s \ {Pick(s)} \in SUBSET D
              /\ All(s) = All(s \ {Pick(s)}) \cup L[Pick(s)]
              /\ All(s \ {Pick(s)}) \cap L[Pick(s)] = {}
            BY <1>2, <1>5
        <2>2. IsFiniteSet(L[Pick(s)]) /\ f[Pick(s)] = Cardinality(L[Pick(s)])
            BY <2>1 DEF D
        <2>3. IsFiniteSet(All(s \ {Pick(s)}))
            BY <1>4, <2>1
        <2>4. Cardinality(All(s \ {Pick(s)}) \cap L[Pick(s)]) = 0
            BY <1>3, <2>1
        <2>5. Cardinality(All(s)) = Cardinality(All(s \ {Pick(s)})) + Cardinality(L[Pick(s)]) - 0
            BY <2>1, <2>2, <2>3, <2>4, FS_Union
        <2> QED
            BY <2>2, <2>3, <2>5, FS_CardinalityType
    <1>6. IsSum([s \in SUBSET D |-> Cardinality(All(s))], f)
        <2> DEFINE W == [s \in SUBSET D |-> Cardinality(All(s))]
        <2>1. \A s \in SUBSET D :
                  W[s] = IF s = {} THEN 0 ELSE f[Pick(s)] + W[s \ {Pick(s)}]
            BY <1>2, <1>3, <1>5
        <2>2. W = [s \in SUBSET D |-> W[s]]
            OBVIOUS
        <2> HIDE DEF W
        <2>3. W = [s \in SUBSET D |-> IF s = {} THEN 0 ELSE f[Pick(s)] + W[s \ {Pick(s)}]]
            BY <2>1, <2>2
        <2>4. IsSum(W, f)
            BY <2>3 DEF IsSum, D, Pick
        <2> QED
            BY <2>4 DEF W
    <1>7. PICK g : g = (CHOOSE h : IsSum(h, f)) /\ IsSum(g, f)
        BY <1>6
    <1>8. \A s \in SUBSET D : g[s] = IF s = {} THEN 0 ELSE f[Pick(s)] + g[s \ {Pick(s)}]
        BY <1>7 DEF IsSum, D, Pick
    <1>9. \A s \in SUBSET D : g[s] = Cardinality(All(s))
        <2> DEFINE S == {k \in Nat : \A s \in SUBSET D :
                                         Cardinality(s) = k => g[s] = Cardinality(All(s))}
        <2>1. 0 \in S
            BY <1>1, <1>3, <1>8, FS_EmptySet
        <2>2. ASSUME NEW k \in Nat, k \in S PROVE k + 1 \in S
            <3> SUFFICES ASSUME NEW s \in SUBSET D, Cardinality(s) = k + 1
                         PROVE  g[s] = Cardinality(All(s))
                OBVIOUS
            <3>1. s # {}
                BY <1>1, FS_EmptySet
            <3>2. g[s \ {Pick(s)}] = Cardinality(All(s \ {Pick(s)}))
                BY <1>2, <2>2, <3>1
            <3> QED
                BY <1>5, <1>8, <3>1, <3>2
        <2>3. Nat \subseteq S
            <3> HIDE DEF S
            <3> QED
                BY <2>1, <2>2, Induction
        <2> QED
            BY <1>1, <2>3
    <1> QED
        BY <1>4, <1>7, <1>9, SumIs DEF D, All

-----------------------------------------------------------------------------
(* Clients that upsert only absent documents and remove only documents of   *)
(* the mutable segment.                                                     *)

LiveIn(log) == {d \in Docs : Newest(log, d) # None}

\* Such a client leaves every live document in exactly one log, at its last
\* entry and superseded by nothing, and a log counts its live documents.
OneLog ==
    ~careless =>
        /\ \A id \in SegIds, d \in Docs :
               Superseded(wal[id], d) = {} /\ Newest(wal[id], d) \in {None, truth[d]}
        /\ \A d \in Docs : truth[d] # None => \E id \in SegIds : Newest(wal[id], d) = truth[d]
        /\ \A d \in Docs, i, j \in SegIds :
               Newest(wal[i], d) # None /\ Newest(wal[j], d) # None => i = j
        /\ \A id \in SegIds :
               /\ IsFiniteSet(LiveIn(wal[id]))
               /\ CountAfter(wal[id], Len(wal[id])) = Cardinality(LiveIn(wal[id]))

\* What is removed is in the mutable segment.
RemovesHeld == pc = "rmLog" /\ ~careless => mutable.cur[call.doc] # None

LEMMA InitOneLog == Init => OneLog /\ RemovesHeld
    <1> SUFFICES ASSUME Init PROVE OneLog /\ RemovesHeld
        OBVIOUS
    <1>1. \A id \in SegIds : wal[id] = <<>>
        BY DEF Init
    <1>2. \A d \in Docs : truth[d] = None
        BY DEF Init, Nothing
    <1>3. LiveIn(<<>>) = {}
        BY EmptyLog DEF LiveIn
    <1>4. IsFiniteSet(LiveIn(<<>>)) /\ CountAfter(<<>>, Len(<<>>)) = Cardinality(LiveIn(<<>>))
        BY <1>3, CountZero, FS_EmptySet
    <1>5. pc # "rmLog"
        BY DEF Init
    <1> QED
        BY <1>1, <1>2, <1>4, <1>5, EmptyLog DEF OneLog, RemovesHeld

LEMMA SameOneLog ==
    ASSUME OneLog, UNCHANGED <<wal, truth>>, careless => careless'
    PROVE  OneLog'
    BY DEF OneLog

LEMMA LongerCount ==
    ASSUME NEW log \in Seq(Entry), NEW e \in Entry
    PROVE  LET longer == Append(log, e)
           IN  CountAfter(longer, Len(longer)) = Counted(CountAfter(log, Len(log)), e)
    <1> DEFINE longer == Append(log, e)
    <1>1. /\ Len(longer) = Len(log) + 1 /\ Len(log) \in Nat /\ longer[Len(log) + 1] = e
          /\ Agree(log, longer, Len(log))
        BY DEF Agree
    <1> HIDE DEF longer
    <1>2. CountAfter(longer, Len(log)) = CountAfter(log, Len(log))
        BY <1>1, CountPrefix
    <1>3. CountAfter(longer, Len(log) + 1) = Counted(CountAfter(longer, Len(log)), e)
        BY <1>1, CountStep
    <1> QED
        BY <1>1, <1>2, <1>3 DEF longer

\* Where an entry goes.
LEMMA LogWrites ==
    ASSUME IInv, NEW op, NEW d \in Docs, NEW v, Log(op, d, v)
    PROVE  /\ wal'[mutable.id] = Append(wal[mutable.id], [op |-> op, doc |-> d, vec |-> v])
           /\ \A id \in SegIds \ {mutable.id} : wal'[id] = wal[id]
           /\ truth'[d] = v /\ \A c \in Docs \ {d} : truth'[c] = truth[c]
    BY Facts DEF Log, IInv, TypeOK, Contents

LEMMA UpsertLogOneLog ==
    ASSUME IInv, LInv, OneLog, NEW d \in Docs, NEW v \in Vecs, UpsertLog(d, v)
    PROVE  OneLog'
    <1> SUFFICES ASSUME ~careless' PROVE OneLog'
        BY DEF OneLog
    <1> DEFINE log == wal[mutable.id]
               e == [op |-> "INSERT", doc |-> d, vec |-> v]
               longer == Append(log, e)
    <1>1. ~careless /\ truth[d] = None /\ v # None
        BY CollectionAssumption DEF UpsertLog
    <1>2. log \in Seq(Entry) /\ mutable \in Segment /\ mutable.id \in SegIds /\ e \in Entry
        BY Facts DEF Entry
    <1>3. MatchesLog(mutable, log, Len(log))
        BY DEF UpsertLog, LInv, Reflects, IndexIsLog, Reflected
    <1>4. /\ wal'[mutable.id] = longer /\ \A id \in SegIds \ {mutable.id} : wal'[id] = wal[id]
          /\ truth'[d] = v /\ \A c \in Docs \ {d} : truth'[c] = truth[c]
        <2> HIDE DEF log
        <2>1. Log("INSERT", d, v)
            BY DEF UpsertLog
        <2>2. /\ wal'[mutable.id] = Append(wal[mutable.id], [op |-> "INSERT", doc |-> d, vec |-> v])
              /\ \A id \in SegIds \ {mutable.id} : wal'[id] = wal[id]
              /\ truth'[d] = v /\ \A c \in Docs \ {d} : truth'[c] = truth[c]
            BY <2>1, LogWrites
        <2> QED
            BY <2>2 DEF log
    <1>5. \A c \in Docs :
              /\ Newest(longer, c) = IF c = d THEN v ELSE Newest(log, c)
              /\ Superseded(longer, c) = IF c = d THEN Nodes(log, c) ELSE Superseded(log, c)
        BY <1>2, <1>3, LoggedInsert
    <1>6. \A id \in SegIds : Newest(wal[id], d) = None /\ Nodes(wal[id], d) = {}
        BY <1>1 DEF OneLog, Nodes
    <1>7. CountAfter(longer, Len(longer)) = CountAfter(log, Len(log)) + 1
        BY <1>2, LongerCount DEF Counted
    <1> HIDE DEF log, longer
    <1>8. LiveIn(longer) = LiveIn(log) \cup {d} /\ d \notin LiveIn(log)
        BY <1>1, <1>2, <1>5, <1>6 DEF LiveIn, log
    <1>9. /\ IsFiniteSet(LiveIn(longer))
          /\ CountAfter(longer, Len(longer)) = Cardinality(LiveIn(longer))
        <2>1. IsFiniteSet(LiveIn(log)) /\ CountAfter(log, Len(log)) = Cardinality(LiveIn(log))
            BY <1>1, <1>2 DEF OneLog, log
        <2> QED
            BY <1>7, <1>8, <2>1, FS_AddElement
    <1>10. \A id \in SegIds, c \in Docs :
               Superseded(wal'[id], c) = {} /\ Newest(wal'[id], c) \in {None, truth'[c]}
        <2> SUFFICES ASSUME NEW id \in SegIds, NEW c \in Docs
                     PROVE  Superseded(wal'[id], c) = {} /\ Newest(wal'[id], c) \in {None, truth'[c]}
            OBVIOUS
        <2>1. Superseded(wal[id], c) = {} /\ Newest(wal[id], c) \in {None, truth[c]}
            BY <1>1 DEF OneLog
        <2>2. CASE id = mutable.id
            BY <1>4, <1>5, <1>6, <2>1, <2>2 DEF log
        <2>3. CASE id # mutable.id
            BY <1>4, <1>6, <2>1, <2>3
        <2> QED
            BY <2>2, <2>3
    <1>11. \A c \in Docs : truth'[c] # None => \E id \in SegIds : Newest(wal'[id], c) = truth'[c]
        BY <1>1, <1>2, <1>4, <1>5 DEF OneLog, log
    <1>12. \A c \in Docs, i, j \in SegIds :
               Newest(wal'[i], c) # None /\ Newest(wal'[j], c) # None => i = j
        BY <1>1, <1>2, <1>4, <1>5, <1>6 DEF OneLog, log
    <1>13. \A id \in SegIds :
               /\ IsFiniteSet(LiveIn(wal'[id]))
               /\ CountAfter(wal'[id], Len(wal'[id])) = Cardinality(LiveIn(wal'[id]))
        BY <1>1, <1>4, <1>9 DEF OneLog
    <1> QED
        BY <1>10, <1>11, <1>12, <1>13 DEF OneLog, LiveIn

LEMMA RemoveLogOneLog ==
    ASSUME IInv, LInv, OneLog, RemovesHeld, RemoveLog
    PROVE  OneLog'
    <1> SUFFICES ASSUME ~careless' PROVE OneLog'
        BY DEF OneLog
    <1> DEFINE d == call.doc
               log == wal[mutable.id]
               e == [op |-> "DELETE", doc |-> d, vec |-> None]
               longer == Append(log, e)
    <1>1. ~careless /\ pc = "rmLog" /\ d \in Docs /\ mutable.cur[d] # None
        BY DEF RemoveLog, RemovesHeld, IInv, CallOK
    <1>2. log \in Seq(Entry) /\ mutable \in Segment /\ mutable.id \in SegIds /\ e \in Entry
        BY <1>1, Facts DEF Entry
    <1>3. MatchesLog(mutable, log, Len(log))
        BY <1>1 DEF LInv, Reflects, IndexIsLog, Reflected
    <1>4. /\ wal'[mutable.id] = longer /\ \A id \in SegIds \ {mutable.id} : wal'[id] = wal[id]
          /\ truth'[d] = None /\ \A c \in Docs \ {d} : truth'[c] = truth[c]
        <2>1. Log("DELETE", d, None)
            BY DEF RemoveLog
        <2>2. \A c \in Docs : Log("DELETE", c, None) =>
                  /\ wal'[mutable.id] =
                         Append(wal[mutable.id], [op |-> "DELETE", doc |-> c, vec |-> None])
                  /\ \A id \in SegIds \ {mutable.id} : wal'[id] = wal[id]
                  /\ truth'[c] = None /\ \A b \in Docs \ {c} : truth'[b] = truth[b]
            BY LogWrites
        <2> QED
            BY <1>1, <2>1, <2>2
    <1>5. \A c \in Docs :
              /\ Newest(longer, c) = IF c = d THEN None ELSE Newest(log, c)
              /\ Superseded(longer, c) = Superseded(log, c)
        BY <1>1, <1>2, <1>3, LoggedDelete
    <1>6. Newest(log, d) # None
        BY <1>1, <1>2, <1>3, ReadsLog
    <1>7. CountAfter(longer, Len(longer)) =
              IF CountAfter(log, Len(log)) > 0 THEN CountAfter(log, Len(log)) - 1 ELSE 0
        BY <1>2, LongerCount DEF Counted
    <1> HIDE DEF d, log, longer
    <1>8. LiveIn(longer) = LiveIn(log) \ {d} /\ d \in LiveIn(log)
        BY <1>1, <1>5, <1>6 DEF LiveIn
    <1>9. /\ IsFiniteSet(LiveIn(longer))
          /\ CountAfter(longer, Len(longer)) = Cardinality(LiveIn(longer))
        <2>1. IsFiniteSet(LiveIn(log)) /\ CountAfter(log, Len(log)) = Cardinality(LiveIn(log))
            BY <1>1, <1>2 DEF OneLog, log
        <2>2. Cardinality(LiveIn(log)) \in Nat /\ Cardinality(LiveIn(log)) # 0
            BY <1>8, <2>1, FS_CardinalityType, FS_EmptySet
        <2>3. IsFiniteSet(LiveIn(longer)) /\ Cardinality(LiveIn(longer)) = Cardinality(LiveIn(log)) - 1
            BY <1>8, <2>1, FS_RemoveElement
        <2> QED
            BY <1>7, <2>1, <2>2, <2>3
    <1>10. \A id \in SegIds \ {mutable.id} : Newest(wal[id], d) = None
        BY <1>1, <1>2, <1>6 DEF OneLog, log
    <1>11. \A id \in SegIds, c \in Docs :
               Superseded(wal'[id], c) = {} /\ Newest(wal'[id], c) \in {None, truth'[c]}
        <2> SUFFICES ASSUME NEW id \in SegIds, NEW c \in Docs
                     PROVE  Superseded(wal'[id], c) = {} /\ Newest(wal'[id], c) \in {None, truth'[c]}
            OBVIOUS
        <2>1. Superseded(wal[id], c) = {} /\ Newest(wal[id], c) \in {None, truth[c]}
            BY <1>1 DEF OneLog
        <2>2. CASE id = mutable.id
            BY <1>4, <1>5, <2>1, <2>2 DEF log
        <2>3. CASE id # mutable.id
            BY <1>4, <1>10, <2>1, <2>3
        <2> QED
            BY <2>2, <2>3
    <1>12. \A c \in Docs : truth'[c] # None => \E id \in SegIds : Newest(wal'[id], c) = truth'[c]
        BY <1>1, <1>2, <1>4, <1>5 DEF OneLog, log
    <1>13. \A c \in Docs, i, j \in SegIds :
               Newest(wal'[i], c) # None /\ Newest(wal'[j], c) # None => i = j
        BY <1>1, <1>2, <1>4, <1>5 DEF OneLog, log
    <1>14. \A id \in SegIds :
               /\ IsFiniteSet(LiveIn(wal'[id]))
               /\ CountAfter(wal'[id], Len(wal'[id])) = Cardinality(LiveIn(wal'[id]))
        BY <1>1, <1>4, <1>9 DEF OneLog
    <1> QED
        BY <1>11, <1>12, <1>13, <1>14 DEF OneLog, LiveIn

LEMMA StepOneLog ==
    IInv /\ LInv /\ OneLog /\ RemovesHeld /\ [NextListed]_vars => OneLog' /\ RemovesHeld'
    <1> SUFFICES ASSUME IInv, LInv, OneLog, RemovesHeld, [NextListed]_vars
                 PROVE  OneLog' /\ RemovesHeld'
        OBVIOUS
    <1>1. CASE UNCHANGED vars
        BY <1>1, SameOneLog DEF vars, disk, memory, history, RemovesHeld
    <1>2. ASSUME NEW d \in Docs, NEW v \in Vecs, UpsertLog(d, v) PROVE OneLog' /\ RemovesHeld'
        <2>1. OneLog'
            BY <1>2, UpsertLogOneLog
        <2> QED
            BY <1>2, <2>1 DEF UpsertLog, RemovesHeld
    <1>3. CASE RemoveLog
        BY <1>3, RemoveLogOneLog DEF RemoveLog, RemovesHeld
    <1>4. ASSUME NEW d \in Docs, RemoveMeta(d) PROVE OneLog' /\ RemovesHeld'
        <2>1. /\ UNCHANGED <<wal, truth, mutable>> /\ call'.doc = d
              /\ careless => careless'
              /\ ~careless' => mutable.cur[d] # None
            BY <1>4 DEF RemoveMeta, disk
        <2>2. OneLog'
            BY <2>1, SameOneLog
        <2>3. call'.doc = d /\ mutable' = mutable
            BY <2>1
        <2> QED
            BY <2>1, <2>2, <2>3, Zenon DEF RemovesHeld
    <1>5. CASE UpsertIndex \/ Seal \/ Rotate \/ UpsertMeta \/ RemoveIndex
        <2>1. UNCHANGED <<wal, truth, careless>> /\ pc' # "rmLog"
            BY <1>5 DEF UpsertIndex, Seal, Rotate, UpsertMeta, RemoveIndex, Return, disk, history
        <2> QED
            BY <2>1, SameOneLog DEF RemovesHeld
    <1>6. CASE Save \/ WriteConfig \/ OpenMeta \/ WriteMeta \/ OpenManifest \/ WriteManifest
        <2>1. UNCHANGED <<wal, truth, careless>> /\ pc' # "rmLog"
            BY <1>6
            DEF Save, WriteConfig, OpenMeta, WriteMeta, OpenManifest, WriteManifest,
                AfterConfig, Return, history
        <2> QED
            BY <2>1, SameOneLog DEF RemovesHeld
    <1>7. CASE Create \/ LoadOpen \/ LoadThrows \/ ReplayEntry \/ ReplayNext
        <2>1. UNCHANGED <<wal, truth, careless>> /\ pc' # "rmLog"
            BY <1>7
            DEF Create, Construct, LoadOpen, LoadThrows, ReplayEntry, ReplayNext, Return,
                disk, history
        <2> QED
            BY <2>1, SameOneLog DEF RemovesHeld
    <1>8. CASE Stop
        <2>1. UNCHANGED <<wal, truth, careless>> /\ pc' # "rmLog"
            BY <1>8 DEF Stop, disk
        <2> QED
            BY <2>1, SameOneLog DEF RemovesHeld
    <1>9. CASE Fail
        <2>1. UNCHANGED <<wal, truth, careless>> /\ pc' # "rmLog"
            BY <1>9
            DEF Fail, SealThrows, RotateThrows, RemoveStops, SaveStops, WriteLost,
                ReplayThrows, AfterConfig, Return, disk, history
        <2> QED
            BY <2>1, SameOneLog DEF RemovesHeld
    <1> QED
        BY <1>1, <1>2, <1>3, <1>4, <1>5, <1>6, <1>7, <1>8, <1>9
        DEF NextListed, Advance, Manage, Upsert, Remove

\* What a segment holds and counts for such a client.
LEMMA SegmentIsExact ==
    ASSUME IInv, LInv, CountIsLog, OneLog, pc = "idle", ~careless,
           NEW seg \in AllSegments
    PROVE  /\ seg.id \in SegIds
           /\ \A d \in Docs : NodesOf(seg, d) # {} <=> d \in LiveIn(wal[seg.id])
           /\ IsFiniteSet(LiveIn(wal[seg.id])) /\ seg.count = Cardinality(LiveIn(wal[seg.id]))
    <1>1. /\ seg \in Segment /\ seg.id \in SegIds
          /\ MatchesLog(seg, wal[seg.id], Len(wal[seg.id]))
          /\ seg.count = CountAfter(wal[seg.id], Len(wal[seg.id]))
        <2>1. CASE seg = mutable
            BY <2>1, Facts DEF LInv, Reflects, IndexIsLog, CountIsLog, Reflected
        <2>2. ASSUME NEW i \in DOMAIN segments, seg = segments[i]
              PROVE  /\ seg \in Segment /\ seg.id \in SegIds
                     /\ MatchesLog(seg, wal[seg.id], Len(wal[seg.id]))
                     /\ seg.count = CountAfter(wal[seg.id], Len(wal[seg.id]))
            BY <2>2, Facts DEF LInv, Reflects, IndexIsLog, CountIsLog
        <2> QED
            BY <2>1, <2>2 DEF AllSegments
    <1>2. wal[seg.id] \in Seq(Entry)
        BY <1>1, Facts
    <1>3. \A d \in Docs : NodesOf(seg, d) = {Newest(wal[seg.id], d)} \ {None}
        <2> SUFFICES ASSUME NEW d \in Docs
                     PROVE  NodesOf(seg, d) = {Newest(wal[seg.id], d)} \ {None}
            OBVIOUS
        <2>1. NodesOf(seg, d) = Nodes(wal[seg.id], d)
            BY <1>1, <1>2, ReadsLog
        <2>2. Superseded(wal[seg.id], d) = {}
            BY <1>1 DEF OneLog
        <2> QED
            BY <2>1, <2>2 DEF Nodes
    <1>4. \A d \in Docs : NodesOf(seg, d) # {} <=> d \in LiveIn(wal[seg.id])
        BY <1>3 DEF LiveIn
    <1>5. /\ IsFiniteSet(LiveIn(wal[seg.id]))
          /\ CountAfter(wal[seg.id], Len(wal[seg.id])) = Cardinality(LiveIn(wal[seg.id]))
        BY <1>1 DEF OneLog
    <1> QED
        BY <1>1, <1>4, <1>5

LEMMA ExactWhenIdle ==
    ASSUME IInv, LInv, CountIsLog, OneLog, pc = "idle", ~careless
    PROVE  /\ \A d \in Docs : Visible(d) = {truth[d]} \ {None}
           /\ Size = Cardinality({d \in Docs : truth[d] # None})
    <1>1. \A d \in Docs : ShownOf(d) = Logged(d)
        BY ShownIsLogged DEF Caught
    <1>2. \A d \in Docs : Logged(d) = {truth[d]} \ {None}
        <2> SUFFICES ASSUME NEW d \in Docs PROVE Logged(d) = {truth[d]} \ {None}
            OBVIOUS
        <2>1. \A id \in SegIds : Nodes(wal[id], d) = {Newest(wal[id], d)} \ {None}
            BY DEF OneLog, Nodes
        <2>2. \A id \in SegIds : Newest(wal[id], d) \in {None, truth[d]}
            BY DEF OneLog
        <2>3. truth[d] # None => \E id \in SegIds : Newest(wal[id], d) = truth[d]
            BY DEF OneLog
        <2> QED
            BY <2>1, <2>2, <2>3 DEF Logged
    <1>3. \A d \in Docs, seg \in AllSegments : NodesOf(seg, d) # {} => seg.count > 0
        <2> SUFFICES ASSUME NEW d \in Docs, NEW seg \in AllSegments, NodesOf(seg, d) # {}
                     PROVE  seg.count > 0
            OBVIOUS
        <2>1. LiveIn(wal[seg.id]) # {} /\ IsFiniteSet(LiveIn(wal[seg.id]))
              /\ seg.count = Cardinality(LiveIn(wal[seg.id]))
            BY SegmentIsExact
        <2> QED
            BY <2>1, FS_CardinalityType, FS_EmptySet
    <1>4. \A d \in Docs : Visible(d) = ShownOf(d)
        BY <1>3 DEF Visible, ShownOf
    <1> DEFINE n == Len(segments)
               L == [i \in 1 .. n |-> LiveIn(wal[segments[i].id])]
               f == [i \in DOMAIN segments |-> segments[i].count]
               U == UNION {L[i] : i \in 1 .. n}
               M == LiveIn(wal[mutable.id])
    <1>5. n \in Nat /\ DOMAIN segments = 1 .. n /\ DOMAIN f = 1 .. n
        BY Facts
    <1>6. /\ \A i \in 1 .. n : segments[i].id \in SegIds /\ segments[i].id # mutable.id
          /\ \A i, j \in 1 .. n : segments[i].id = segments[j].id => i = j
        <2>1. /\ \A i \in 1 .. n : segments[i].id \in SegIds /\ segments[i].id < mutable.id
              /\ \A i, j \in 1 .. n : i < j => segments[i].id < segments[j].id
              /\ mutable.id \in SegIds
            BY <1>5, Facts DEF IInv, SegmentOrder
        <2>2. \A i \in 1 .. n : segments[i].id \in Nat
            BY <2>1 DEF SegIds
        <2>3. mutable.id \in Nat
            BY <2>1 DEF SegIds
        <2> QED
            BY <1>5, <2>1, <2>2, <2>3
    <1>7. mutable.id \in SegIds
        BY Facts
    <1>8. \A i \in 1 .. n : IsFiniteSet(L[i]) /\ f[i] = Cardinality(L[i])
        BY <1>5, SegmentIsExact DEF AllSegments
    <1>9. \A d \in Docs, i, j \in SegIds :
              d \in LiveIn(wal[i]) /\ d \in LiveIn(wal[j]) => i = j
        BY DEF OneLog, LiveIn
    <1>10. \A i, j \in 1 .. n : i # j => L[i] \cap L[j] = {}
        <2> SUFFICES ASSUME NEW i \in 1 .. n, NEW j \in 1 .. n, NEW d, d \in L[i], d \in L[j]
                     PROVE  i = j
            OBVIOUS
        <2>1. d \in Docs
            BY DEF LiveIn
        <2>2. segments[i].id = segments[j].id
            BY <1>6, <1>9, <2>1
        <2> QED
            BY <1>5, <1>6, <2>2
    <1>11. U \cap M = {}
        <2> SUFFICES ASSUME NEW i \in 1 .. n, NEW d, d \in L[i], d \in M PROVE FALSE
            OBVIOUS
        <2>1. d \in Docs
            BY DEF LiveIn
        <2> QED
            BY <1>6, <1>7, <1>9, <2>1
    <1>12. IsFiniteSet(M) /\ mutable.count = Cardinality(M)
        BY SegmentIsExact DEF AllSegments
    <1>13. U \cup M = {d \in Docs : truth[d] # None}
        <2>1. ASSUME NEW d \in U \cup M PROVE d \in Docs /\ truth[d] # None
            <3>1. PICK id \in SegIds : d \in LiveIn(wal[id])
                BY <1>6, <1>7
            <3> QED
                BY <3>1 DEF LiveIn, OneLog
        <2>2. ASSUME NEW d \in Docs, truth[d] # None PROVE d \in U \cup M
            <3>1. ShownOf(d) # {}
                BY <1>1, <1>2, <2>2
            <3>2. PICK seg \in AllSegments : NodesOf(seg, d) # {}
                BY <3>1 DEF ShownOf
            <3>3. d \in LiveIn(wal[seg.id])
                BY <3>2, SegmentIsExact
            <3>4. seg = mutable \/ \E i \in 1 .. n : seg = segments[i]
                BY <1>5 DEF AllSegments
            <3> QED
                BY <3>3, <3>4
        <2> QED
            BY <2>1, <2>2
    <1> HIDE DEF n, L, f, U, M
    <1>14. IsFiniteSet(U) /\ SumFunction(f) = Cardinality(U)
        <2> SUFFICES /\ IsFiniteSet(UNION {L[i] : i \in 1 .. n})
                     /\ SumFunction(f) = Cardinality(UNION {L[i] : i \in 1 .. n})
            BY DEF U
        <2>1. n \in Nat /\ DOMAIN f = 1 .. n
            BY <1>5
        <2> QED
            BY <1>8, <1>10, <2>1, SumOfSizes, SMTT(30)
    <1>15. Cardinality(U \cup M) = Cardinality(U) + Cardinality(M) - Cardinality(U \cap M)
        BY <1>12, <1>14, FS_Union
    <1>16. Size = mutable.count + SumFunction(f)
        BY DEF Size, f
    <1>17. Size = Cardinality(U \cup M)
        <2>1. Cardinality(U \cap M) = 0
            BY <1>11, FS_EmptySet
        <2>2. Cardinality(U) \in Nat /\ Cardinality(M) \in Nat
            BY <1>12, <1>14, FS_CardinalityType
        <2> QED
            BY <1>12, <1>14, <1>15, <1>16, <2>1, <2>2
    <1> QED
        BY <1>1, <1>2, <1>4, <1>13, <1>17

\* For a client that upserts only absent documents and removes only documents
\* of the mutable segment, an idle collection shows a search exactly the last
\* payload of every live document, and its size is their number, across any
\* rotations, crashes and loads.
THEOREM SearchesAreExact == SpecListed => []SearchIsExact
    <1>1. SpecListed => [](IInv /\ LInv)
        BY ListedInvariance
    <1>2. SpecListed => [](OneLog /\ RemovesHeld)
        BY <1>1, InitOneLog, StepOneLog, PTL DEF SpecListed
    <1>3. SpecListed => []CountIsLog
        BY CountsAreTheirLogs
    <1>4. IInv /\ LInv /\ OneLog /\ CountIsLog => SearchIsExact
        BY ExactWhenIdle DEF SearchIsExact
    <1> QED
        BY <1>1, <1>2, <1>3, <1>4, PTL
=============================================================================
