----------------------------- MODULE Collection -----------------------------
(***************************************************************************)
(* One NovaVec collection: the Collection object, its SegmentManager and   *)
(* Segments, and the files of its data directory, through upserts,         *)
(* removals, saves, process crashes and loads.                             *)
(*                                                                         *)
(* Simplifications:                                                        *)
(*  - One payload token stands for a vector together with the metadata     *)
(*    upserted with it.                                                    *)
(*  - A write(2) that returned survives a process crash; torn and unsynced *)
(*    log bytes are the subject of module Wal.                             *)
(*  - The index type is HNSW, the default.  An index is reduced to the     *)
(*    nodes it holds: whether a search reaches them is for module Hnsw.    *)
(*  - The files seg_N.idx and seg_N_meta.json are written by seal() and    *)
(*    read by nobody: of them only the failure to write them is modelled,  *)
(*    and Segment::metadata_ not at all.                                   *)
(*  - Where opening or writing a file may fail, the step that fails is an  *)
(*    action of its own.  An append that fails logs nothing: what replay   *)
(*    makes of a short write is the subject of module Wal.  A call that    *)
(*    fails before it has changed anything is no step at all: an upsert    *)
(*    whose append throws, or that finds the mutable segment sealed.       *)
(*  - A small file is written by the one write(2) of its close: it is      *)
(*    whole or empty.                                                      *)
(*  - The Python binding runs one call at a time (it keeps the GIL), so    *)
(*    one program counter is enough.                                       *)
(***************************************************************************)
EXTENDS Naturals, Sequences, FiniteSets, Functions

CONSTANTS
    Docs,       \* document ids
    Vecs,       \* payloads: a vector and its metadata
    None,       \* "no payload"
    Threshold,  \* segment_size_threshold
    MaxSegs,    \* bound: segment ids are 0 .. MaxSegs - 1
    MaxLog      \* bound: entries in one segment's write-ahead log

ASSUME CollectionAssumption ==
    /\ None \notin Vecs
    /\ Threshold \in Nat \ {0}
    /\ MaxSegs \in Nat \ {0}
    /\ MaxLog \in Nat

VARIABLES
    wal,         \* disk: seg_N.wal, a sequence of entries for each N
    configFile,  \* disk: collection_config.json
    metaFile,    \* disk: metadata_store.json
    manifest,    \* disk: segments.manifest
    segments,    \* SegmentManager::segments_
    mutable,     \* SegmentManager::mutable_segment_; while loading, the
                 \* segment whose log is being replayed
    nextId,      \* SegmentManager::next_segment_id_
    docMeta,     \* MetadataStore: the metadata of each document
    pc,          \* where the running call is
    call,        \* the running call: its name and its arguments
    queue,       \* load: ids of the segments still to be opened and replayed
    pos,         \* load: entries of mutable's log replayed so far
    truth,       \* history: the payload of the last logged write of each
                 \* document, None if there is none or it is a DELETE
    careless,    \* history: a client upserted a document it had, or removed
                 \* one that the mutable segment did not hold
    unsaved,     \* history: documents logged since metaFile was last written
    adrift       \* history: documents whose last write was cut short between
                 \* the log and the metadata, or whose metadata went with the
                 \* process or with a second construction

disk   == <<wal, configFile, metaFile, manifest>>
memory == <<segments, mutable, nextId, docMeta>>
loader == <<queue, pos>>
history == <<truth, careless, unsaved, adrift>>
vars   == <<disk, memory, loader, pc, call, history>>

-----------------------------------------------------------------------------
SegIds == 0 .. MaxSegs - 1

Payload == Vecs \cup {None}

Entry == [op : {"INSERT"}, doc : Docs, vec : Vecs]
             \cup [op : {"DELETE"}, doc : Docs, vec : {None}]

\* cur[d]: the vector of the node id_map_ holds for d.  stale[d]: vectors of
\* earlier nodes of d that were never tombstoned and are no longer in id_map_.
\* state: state_ together with wal_.  "MUTABLE" has its log open, "SEALED" has
\* not, and "CLOSED" is a segment whose seal() threw after it closed the log:
\* state_ is still MUTABLE and wal_ is null.
Segment == [id    : SegIds,
            state : {"MUTABLE", "CLOSED", "SEALED"},
            cur   : [Docs -> Payload],
            stale : [Docs -> SUBSET Vecs],
            count : Nat]

Manifest == [next : 1 .. MaxSegs, sealed : Seq(SegIds), mutable : SegIds]

Contents == [Docs -> Payload]
Nothing  == [d \in Docs |-> None]

Call == [op  : {"none", "create", "upsert", "remove", "save", "load"},
         doc : Docs \cup {None},
         vec : Payload]

NoCall == [op |-> "none", doc |-> None, vec |-> None]

\* Mutant: ids start from zero again.
BlankManifestZero == [next |-> 0, sealed |-> <<>>, mutable |-> 0]

\* What load_sealed_segments reads from a manifest that is absent, or that was
\* truncated by a save that never wrote it.
BlankManifest == [next |-> 1, sealed |-> <<>>, mutable |-> 0]

-----------------------------------------------------------------------------
(* Segments                                                                *)

FreshSegment(id) == [id    |-> id,
                     state |-> "MUTABLE",
                     cur   |-> Nothing,
                     stale |-> [d \in Docs |-> {}],
                     count |-> 0]

\* Mutant: ++vector_count_ is forgotten.
IndexedUncounted(seg, d, v) ==
    [id    |-> seg.id,
     state |-> seg.state,
     cur   |-> [seg.cur EXCEPT ![d] = v],
     stale |-> [seg.stale EXCEPT ![d] = @ \cup ({seg.cur[d]} \ {None})],
     count |-> seg.count]

\* index_->insert and ++vector_count_.  A second node for a document leaves
\* the first one in the index and out of id_map_.
Indexed(seg, d, v) ==
    [id    |-> seg.id,
     state |-> seg.state,
     cur   |-> [seg.cur EXCEPT ![d] = v],
     stale |-> [seg.stale EXCEPT ![d] = @ \cup ({seg.cur[d]} \ {None})],
     count |-> seg.count + 1]

\* Mutant: the count goes below zero.
UnindexedUnguarded(seg, d) ==
    [seg EXCEPT !.cur[d] = None, !.count = @ - 1]

\* Mutant: a segment that counts no vectors is taken to hold none.
UnindexedUnlessEmpty(seg, d) ==
    IF seg.count = 0 THEN seg ELSE [seg EXCEPT !.cur[d] = None, !.count = @ - 1]

\* The tombstone, and a decrement that does not ask whether d was there.
Unindexed(seg, d) ==
    [id    |-> seg.id,
     state |-> seg.state,
     cur   |-> [seg.cur EXCEPT ![d] = None],
     stale |-> seg.stale,
     count |-> IF seg.count > 0 THEN seg.count - 1 ELSE 0]

\* What the index of the segment holds for d and has not tombstoned.
NodesOf(seg, d) == seg.stale[d] \cup ({seg.cur[d]} \ {None})

AllSegments == {segments[i] : i \in DOMAIN segments} \cup {mutable}

\* What the indexes a search visits hold for d: SegmentManager::search skips the
\* segments whose size is zero.
Visible(d) == UNION {NodesOf(seg, d) : seg \in {s \in AllSegments : s.count > 0}}

\* Whether some index holds a vector of d, skipped by searches or not.
HasVector(d) == \E seg \in AllSegments : NodesOf(seg, d) # {}

\* SegmentManager::total_size
Size == mutable.count + SumFunction([i \in DOMAIN segments |-> segments[i].count])

-----------------------------------------------------------------------------
Init ==
    /\ wal = [id \in SegIds |-> <<>>]
    /\ configFile = "absent"
    /\ metaFile = [torn |-> FALSE, data |-> Nothing]
    /\ manifest = BlankManifest
    /\ segments = <<>>
    /\ mutable = FreshSegment(0)
    /\ nextId = 1
    /\ docMeta = Nothing
    /\ queue = <<>>
    /\ pos = 0
    /\ pc = "down"
    /\ call = NoCall
    /\ truth = Nothing
    /\ careless = FALSE
    /\ unsaved = {}
    /\ adrift = {}

-----------------------------------------------------------------------------
(* Construction.  The constructor starts from empty memory whatever the    *)
(* directory holds, and ends by writing the configuration.                 *)

Construct ==
    /\ pc = "down"
    /\ segments' = <<>>
    /\ mutable' = FreshSegment(0)
    /\ nextId' = 1
    /\ docMeta' = Nothing
    /\ configFile' = "torn"
    /\ pc' = "writeConfig"
    /\ call' = [NoCall EXCEPT !.op = "create"]
    /\ adrift' = adrift \cup {d \in Docs : truth[d] # None}
    /\ UNCHANGED <<wal, metaFile, manifest, loader, truth, careless, unsaved>>

Create == configFile = "absent" /\ Construct

\* The constructor over the directory of an earlier collection of that name.
Recreate == configFile # "absent" /\ Construct

-----------------------------------------------------------------------------
(* Upsert: log, index, seal and rotate when full, collection metadata.     *)

\* The call ends, by returning or by throwing.
Return == pc' = "idle" /\ call' = NoCall

Log(op, d, v) ==
    /\ wal' = [wal EXCEPT ![mutable.id] =
                   Append(@, [op |-> op, doc |-> d, vec |-> v])]
    /\ truth' = [truth EXCEPT ![d] = v]
    /\ unsaved' = unsaved \cup {d}

\* A sealed segment throws before it logs.  A closed one dereferences a null
\* wal_: the process ends, which is Stop.
UpsertLog(d, v) ==
    /\ pc = "idle"
    /\ mutable.state = "MUTABLE"
    /\ Len(wal[mutable.id]) < MaxLog
    /\ nextId < MaxSegs \/ mutable.count + 1 < Threshold
    /\ Log("INSERT", d, v)
    /\ careless' = (careless \/ truth[d] # None)
    /\ pc' = "index"
    /\ call' = [op |-> "upsert", doc |-> d, vec |-> v]
    /\ UNCHANGED <<configFile, metaFile, manifest, memory, loader, adrift>>

UpsertIndex ==
    /\ pc = "index"
    /\ mutable' = Indexed(mutable, call.doc, call.vec)
    /\ pc' = "seal"
    /\ UNCHANGED <<disk, segments, nextId, docMeta, loader, call, history>>

Seal ==
    /\ pc = "seal"
    /\ IF mutable.count >= Threshold
         THEN /\ mutable' = [mutable EXCEPT !.state = "SEALED"]
              /\ pc' = "rotate"
         ELSE /\ mutable' = mutable
              /\ pc' = "meta"
    /\ UNCHANGED <<disk, segments, nextId, docMeta, loader, call, history>>

\* seal() has closed the log, and then index_->save or metadata_.save throws:
\* the segment keeps its place, without a log, and the upsert ends before it
\* reaches the collection's metadata.
SealThrows ==
    /\ pc = "seal"
    /\ mutable.count >= Threshold
    /\ mutable' = [mutable EXCEPT !.state = "CLOSED"]
    /\ adrift' = adrift \cup {call.doc}
    /\ Return
    /\ UNCHANGED <<disk, segments, nextId, docMeta, loader, truth, careless, unsaved>>

\* Mutant: the sealed segment is dropped instead of kept for searches.
RotateAndForget ==
    /\ pc = "rotate"
    /\ mutable' = FreshSegment(nextId)
    /\ nextId' = nextId + 1
    /\ pc' = "meta"
    /\ UNCHANGED <<disk, segments, docMeta, loader, call, history>>

\* The new segment opens the log of its id for appending: entries an earlier
\* run left there stay in the file and are not replayed.
Rotate ==
    /\ pc = "rotate"
    /\ segments' = Append(segments, mutable)
    /\ mutable' = FreshSegment(nextId)
    /\ nextId' = nextId + 1
    /\ pc' = "meta"
    /\ UNCHANGED <<disk, docMeta, loader, call, history>>

\* The log of the new segment cannot be opened: its id is used up, and the
\* sealed segment stays the mutable one.
RotateThrows ==
    /\ pc = "rotate"
    /\ nextId' = nextId + 1
    /\ adrift' = adrift \cup {call.doc}
    /\ Return
    /\ UNCHANGED <<disk, segments, mutable, docMeta, loader, truth, careless, unsaved>>

UpsertMeta ==
    /\ pc = "meta"
    /\ docMeta' = [docMeta EXCEPT ![call.doc] = call.vec]
    /\ adrift' = adrift \ {call.doc}
    /\ Return
    /\ UNCHANGED <<disk, segments, mutable, nextId, loader, truth, careless, unsaved>>

-----------------------------------------------------------------------------
(* Remove: collection metadata, log, tombstone in the mutable segment.     *)

\* Mutant: the collection's metadata is left behind.
RemoveMetaNever(d) ==
    /\ pc = "idle"
    /\ mutable.state = "MUTABLE" => Len(wal[mutable.id]) < MaxLog
    /\ careless' = (careless \/ mutable.cur[d] = None)
    /\ pc' = "rmLog"
    /\ call' = [op |-> "remove", doc |-> d, vec |-> None]
    /\ UNCHANGED <<disk, memory, loader, truth, unsaved, adrift>>

RemoveMeta(d) ==
    /\ pc = "idle"
    /\ mutable.state = "MUTABLE" => Len(wal[mutable.id]) < MaxLog
    /\ docMeta' = [docMeta EXCEPT ![d] = None]
    /\ careless' = (careless \/ mutable.cur[d] = None)
    /\ pc' = "rmLog"
    /\ call' = [op |-> "remove", doc |-> d, vec |-> None]
    /\ UNCHANGED <<disk, segments, mutable, nextId, loader, truth, unsaved, adrift>>

\* SegmentManager hands the call to the mutable segment only.
RemoveLog ==
    /\ pc = "rmLog"
    /\ mutable.state = "MUTABLE"
    /\ Log("DELETE", call.doc, None)
    /\ adrift' = adrift \ {call.doc}
    /\ pc' = "rmIndex"
    /\ UNCHANGED <<configFile, metaFile, manifest, memory, loader, call, careless>>

\* A segment whose log is closed skips the log and goes on.
RemoveUnlogged ==
    /\ pc = "rmLog"
    /\ mutable.state = "CLOSED"
    /\ adrift' = adrift \cup {call.doc}
    /\ pc' = "rmIndex"
    /\ UNCHANGED <<disk, memory, loader, call, truth, careless, unsaved>>

\* The append throws, or the segment is sealed and returns without a word.
RemoveStops ==
    /\ pc = "rmLog"
    /\ mutable.state \in {"MUTABLE", "SEALED"}
    /\ adrift' = adrift \cup {call.doc}
    /\ Return
    /\ UNCHANGED <<disk, memory, loader, truth, careless, unsaved>>

RemoveIndex ==
    /\ pc = "rmIndex"
    /\ mutable' = Unindexed(mutable, call.doc)
    /\ Return
    /\ UNCHANGED <<disk, segments, nextId, docMeta, loader, history>>

-----------------------------------------------------------------------------
(* Save: three files, each truncated when it is opened and filled when it  *)
(* is closed.                                                              *)

\* If the configuration cannot be opened, save() throws and nothing changes.
Save ==
    /\ pc = "idle"
    /\ configFile' = "torn"
    /\ pc' = "writeConfig"
    /\ call' = [NoCall EXCEPT !.op = "save"]
    /\ UNCHANGED <<wal, metaFile, manifest, memory, loader, history>>

AfterConfig ==
    IF call.op = "create" THEN Return ELSE pc' = "openMeta" /\ call' = call

WriteConfig ==
    /\ pc = "writeConfig"
    /\ configFile' = "stored"
    /\ AfterConfig
    /\ UNCHANGED <<wal, metaFile, manifest, memory, loader, history>>

OpenMeta ==
    /\ pc = "openMeta"
    /\ metaFile' = [torn |-> TRUE, data |-> Nothing]
    /\ pc' = "writeMeta"
    /\ UNCHANGED <<wal, configFile, manifest, memory, loader, call, history>>

WriteMeta ==
    /\ pc = "writeMeta"
    /\ metaFile' = [torn |-> FALSE, data |-> docMeta]
    /\ unsaved' = {}
    /\ pc' = "openManifest"
    /\ UNCHANGED <<wal, configFile, manifest, memory, loader, call,
                   truth, careless, adrift>>

OpenManifest ==
    /\ pc = "openManifest"
    /\ manifest' = BlankManifest
    /\ pc' = "writeManifest"
    /\ UNCHANGED <<wal, configFile, metaFile, memory, loader, call, history>>

\* Mutant: the mutable segment is listed among the sealed ones.
WriteManifestAll ==
    /\ pc = "writeManifest"
    /\ manifest' = [next    |-> nextId,
                    sealed  |-> Append([i \in DOMAIN segments |-> segments[i].id], mutable.id),
                    mutable |-> mutable.id]
    /\ Return
    /\ UNCHANGED <<wal, configFile, metaFile, memory, loader, history>>

WriteManifest ==
    /\ pc = "writeManifest"
    /\ manifest' = [next    |-> nextId,
                    sealed  |-> [i \in DOMAIN segments |-> segments[i].id],
                    mutable |-> mutable.id]
    /\ Return
    /\ UNCHANGED <<wal, configFile, metaFile, memory, loader, history>>

\* The metadata file cannot be opened, and save() throws, or the manifest cannot,
\* and save() returns: the file stays as it was.
SaveStops ==
    /\ pc \in {"openMeta", "openManifest"}
    /\ Return
    /\ UNCHANGED <<disk, memory, loader, history>>

\* Nobody asks whether the contents arrived: the file stays truncated and the
\* call goes on.
WriteLost ==
    /\ \/ pc = "writeConfig" /\ AfterConfig
       \/ pc = "writeMeta" /\ pc' = "openManifest" /\ call' = call
       \/ pc = "writeManifest" /\ Return
    /\ UNCHANGED <<disk, memory, loader, history>>

-----------------------------------------------------------------------------
(* Load: configuration, metadata file, then the logs of the segments the   *)
(* manifest names, entry by entry.                                         *)

\* Mutant: the first segment of the manifest stays the mutable one.
LoadOpenFirst ==
    /\ pc = "down"
    /\ configFile = "stored"
    /\ ~metaFile.torn
    /\ mutable' = FreshSegment(Head(Append(manifest.sealed, manifest.mutable)))
    /\ queue' = <<>>
    /\ segments' = <<>>
    /\ nextId' = manifest.next
    /\ docMeta' = metaFile.data
    /\ pos' = 0
    /\ pc' = "replay"
    /\ call' = [NoCall EXCEPT !.op = "load"]
    /\ UNCHANGED <<disk, history>>

LoadOpen ==
    /\ pc = "down"
    /\ configFile = "stored"
    /\ ~metaFile.torn
    /\ LET ids == Append(manifest.sealed, manifest.mutable)
       IN  /\ mutable' = FreshSegment(Head(ids))
           /\ queue' = Tail(ids)
    /\ segments' = <<>>
    /\ nextId' = manifest.next
    /\ docMeta' = metaFile.data
    /\ pos' = 0
    /\ pc' = "replay"
    /\ call' = [NoCall EXCEPT !.op = "load"]
    /\ UNCHANGED <<disk, history>>

\* A truncated configuration or metadata file does not parse.
LoadThrows ==
    /\ pc = "down"
    /\ configFile = "torn" \/ (configFile = "stored" /\ metaFile.torn)
    /\ pc' = "failed"
    /\ UNCHANGED <<disk, memory, loader, call, history>>

\* Mutant: removals are not replayed.
ReplayEntryInserts ==
    /\ pc = "replay"
    /\ pos < Len(wal[mutable.id])
    /\ LET entry == wal[mutable.id][pos + 1]
       IN  mutable' = IF entry.op = "INSERT" THEN Indexed(mutable, entry.doc, entry.vec)
                      ELSE mutable
    /\ pos' = pos + 1
    /\ UNCHANGED <<disk, segments, nextId, docMeta, queue, pc, call, history>>

\* Segment::replay_wal.
ReplayEntry ==
    /\ pc = "replay"
    /\ pos < Len(wal[mutable.id])
    /\ LET entry == wal[mutable.id][pos + 1]
       IN  \/ entry.op = "INSERT" /\ mutable' = Indexed(mutable, entry.doc, entry.vec)
           \/ entry.op = "DELETE" /\ mutable' = Unindexed(mutable, entry.doc)
    /\ pos' = pos + 1
    /\ UNCHANGED <<disk, segments, nextId, docMeta, queue, pc, call, history>>

\* A replayed segment joins segments_, still in state MUTABLE; the last one
\* stays the mutable segment.
ReplayNext ==
    /\ pc = "replay"
    /\ pos = Len(wal[mutable.id])
    /\ pos' = 0
    /\ \/ /\ queue # <<>>
          /\ segments' = Append(segments, mutable)
          /\ mutable' = FreshSegment(Head(queue))
          /\ queue' = Tail(queue)
          /\ UNCHANGED <<pc, call>>
       \/ /\ queue = <<>>
          /\ Return
          /\ UNCHANGED <<segments, mutable, queue>>
    /\ UNCHANGED <<disk, nextId, docMeta, history>>

\* Memory without a collection.
Forget ==
    /\ segments' = <<>>
    /\ mutable' = FreshSegment(0)
    /\ nextId' = 1
    /\ docMeta' = Nothing
    /\ queue' = <<>>
    /\ pos' = 0
    /\ call' = NoCall

\* A log cannot be opened for the writer of its segment.
ReplayThrows ==
    /\ pc = "replay"
    /\ pc' = "failed"
    /\ Forget
    /\ UNCHANGED <<disk, history>>

-----------------------------------------------------------------------------
(* The process ends, in the middle of a call or between two.               *)

\* The manifest names every segment there is, or they are being read from it.
Listed == pc \in {"replay", "failed"} \/ manifest.mutable = mutable.id

Stop ==
    /\ pc # "down"
    /\ pc' = "down"
    /\ Forget
    /\ adrift' = adrift \cup unsaved
    /\ UNCHANGED <<disk, truth, careless, unsaved>>

-----------------------------------------------------------------------------
Advance ==
    \/ UpsertIndex \/ Seal \/ Rotate \/ UpsertMeta
    \/ RemoveLog \/ RemoveIndex
    \/ WriteConfig \/ OpenMeta \/ WriteMeta \/ OpenManifest \/ WriteManifest
    \/ ReplayEntry \/ ReplayNext

\* A file that cannot be opened or written.
Fail == SealThrows \/ RotateThrows \/ RemoveStops \/ SaveStops \/ WriteLost \/ ReplayThrows

Manage == Create \/ Save \/ LoadOpen \/ LoadThrows

Upsert == \E d \in Docs, v \in Vecs : UpsertLog(d, v)

Remove == \E d \in Docs : RemoveMeta(d)

\* Crashes at any point; directories are always loaded, never recreated.
NextCrash == Advance \/ Fail \/ Manage \/ Upsert \/ Remove \/ RemoveUnlogged \/ Stop

\* Everything: as above, and Collection(name, config) over an old directory.
Next == NextCrash \/ Recreate

\* The process ends only while the manifest names every segment, and no document
\* is removed from a segment whose log a failed seal has closed.
NextListed ==
    \/ Advance \/ Fail \/ Manage \/ Upsert
    \/ mutable.state # "CLOSED" /\ Remove
    \/ Listed /\ Stop

Spec       == Init /\ [][Next]_vars
SpecCrash  == Init /\ [][NextCrash]_vars
SpecListed == Init /\ [][NextListed]_vars

-----------------------------------------------------------------------------
(* Properties                                                              *)

PCs == {"down", "failed", "replay", "idle",
        "index", "seal", "rotate", "meta", "rmLog", "rmIndex",
        "writeConfig", "openMeta", "writeMeta", "openManifest", "writeManifest"}

\* Type invariant of the collection and its files.
TypeOK ==
    /\ wal \in [SegIds -> Seq(Entry)]
    /\ configFile \in {"absent", "torn", "stored"}
    /\ metaFile \in [torn : BOOLEAN, data : Contents]
    /\ manifest \in Manifest
    /\ segments \in Seq(Segment)
    /\ mutable \in Segment
    /\ nextId \in 1 .. MaxSegs
    /\ docMeta \in Contents
    /\ queue \in Seq(SegIds)
    /\ pos \in Nat
    /\ pc \in PCs
    /\ call \in Call
    /\ truth \in Contents
    /\ careless \in BOOLEAN
    /\ unsaved \in SUBSET Docs
    /\ adrift \in SUBSET Docs

\* Whatever was saved, interrupted, loaded or recreated, no two segments in
\* memory (nor one still to be replayed by a load) append to the same log file,
\* and the id the next rotation takes is nobody's.
DistinctLogs ==
    LET ids == [i \in DOMAIN segments |-> segments[i].id] \o <<mutable.id>> \o queue
    IN  \A i \in DOMAIN ids :
            /\ ids[i] < nextId
            /\ \A j \in DOMAIN ids : ids[i] = ids[j] => i = j

\* Memory numbers its segments from before the ones the manifest names: the
\* directory was recreated, not loaded.
Behind == nextId < manifest.next

\* As long as the manifest on disk lists a segment as sealed, nobody writes the
\* log of that segment, unless the directory was recreated.  (A save that was
\* interrupted leaves a blank manifest, which lists none: SealedFrozen.)
ListedFrozen ==
    [][Behind \/ \A i \in DOMAIN manifest.sealed :
                    wal'[manifest.sealed[i]] = wal[manifest.sealed[i]]]_vars

\* Without a loaded collection, the next load decides what is mutable.
Loading == pc \in {"down", "failed", "replay"}

\* The segment whose log takes the next entry.
Current == IF Loading THEN manifest.mutable ELSE mutable.id

\* As long as the process ends only while the manifest names every segment, the
\* log of a segment that was rotated out is final, through saves that fail or
\* are interrupted, crashes and loads: no segment takes writes again after a
\* later one has (segment.hpp: "no new inserts").
SealedFrozen ==
    [][\A id \in SegIds : id < Current => wal'[id] = wal[id] /\ id < Current']_vars

\* How many entries of its log a segment reflects: a call that has logged is
\* one entry ahead of the index, a load is at pos.
Reflected ==
    CASE pc \in {"down", "failed", "replay"} -> pos
      [] pc \in {"index", "rmIndex"}         -> Len(wal[mutable.id]) - 1
      [] OTHER                               -> Len(wal[mutable.id])

\* The entries of document d among the first n of a log.
EntriesOf(log, n, d) == {i \in 1 .. n : log[i].doc = d}

IsLastOf(i, log, n, d) ==
    i \in EntriesOf(log, n, d) /\ \A j \in EntriesOf(log, n, d) : j <= i

\* i and k are neighbours among the entries of d.
Follows(i, k, log, n, d) ==
    /\ i \in EntriesOf(log, n, d) /\ k \in EntriesOf(log, n, d) /\ i < k
    /\ \A j \in EntriesOf(log, n, d) : j <= i \/ k <= j

\* What n entries of a log amount to for one document: the id map holds its
\* last entry, and the leftover nodes are the INSERTs an INSERT followed.
MatchesDoc(seg, log, n, d) ==
    /\ \/ EntriesOf(log, n, d) = {} /\ seg.cur[d] = None
       \/ \E i \in 1 .. n : IsLastOf(i, log, n, d) /\ seg.cur[d] = log[i].vec
    /\ \A v \in Vecs :
           v \in seg.stale[d] <=>
               \E i, k \in 1 .. n :
                   /\ log[i] = [op |-> "INSERT", doc |-> d, vec |-> v]
                   /\ log[k].op = "INSERT"
                   /\ Follows(i, k, log, n, d)

MatchesLog(seg, log, n) == \A d \in Docs : MatchesDoc(seg, log, n, d)

\* As long as the process ends only while the manifest names every segment, the
\* index of every segment, before and after any number of crashes and loads, is
\* what its log says from its first entry: nothing is lost, applied twice,
\* applied out of order or taken from another run's log.
IndexIsLog ==
    /\ \A i \in DOMAIN segments :
           MatchesLog(segments[i], wal[segments[i].id], Len(wal[segments[i].id]))
    /\ MatchesLog(mutable, wal[mutable.id], Reflected)

\* vector_count_ after n entries of a log.
CountAfter(log, n) ==
    LET count[i \in 0 .. n] ==
            IF i = 0 THEN 0
            ELSE IF log[i].op = "INSERT" THEN count[i - 1] + 1
            ELSE IF count[i - 1] > 0 THEN count[i - 1] - 1 ELSE 0
    IN  count[n]

\* Under the same condition, the sizes that seal segments and that decide which
\* segments a search skips are the same after a load as before it.
CountIsLog ==
    /\ \A i \in DOMAIN segments :
           segments[i].count = CountAfter(wal[segments[i].id], Len(wal[segments[i].id]))
    /\ mutable.count = CountAfter(wal[mutable.id], Reflected)

\* A call that fails and a process that ends put the metadata of nobody else
\* wrong.  In an idle collection the metadata store names for every document the
\* metadata of its last logged write, unless that write itself was cut short, or
\* a process ended, or a second construction began, before its metadata was
\* saved; and writing such a document once more, to the end, puts it right.
MetadataAgrees == pc = "idle" => \A d \in Docs \ adrift : docMeta[d] = truth[d]

\* For a client that upserts only absent documents and removes only documents
\* of the mutable segment, the segments a search visits hold the last logged
\* payload of every document and nothing else, and size() counts the documents
\* that have one, across rotations, crashes and loads, and calls that fail
\* before and after they have logged.
SearchIsExact ==
    pc = "idle" /\ ~careless =>
        /\ \A d \in Docs : Visible(d) = {truth[d]} \ {None}
        /\ Size = Cardinality({d \in Docs : truth[d] # None})

-----------------------------------------------------------------------------
(* What the documentation says and the code does not do.                   *)

\* wal.hpp: on restart the logged mutations are replayed.  (A segment whose log
\* is closed takes removals that are not logged, and is left aside.)
LoggedSurvives ==
    pc = "idle" /\ mutable.state # "CLOSED" =>
        \A d \in Docs : truth[d] # None => HasVector(d)
=============================================================================
