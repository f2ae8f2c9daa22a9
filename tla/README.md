# NovaVec in TLA+

NovaVec is a vector database written in C++ with a Python binding and a REST
API: collections of vectors with JSON metadata, kept in segments that are
indexed in memory and logged on disk. This directory holds TLA+ models of it,
the TLC configurations that check them on small instances, and theorems that
TLAPS proves for every instance. Paths below are relative to `src/`.

## 1. The system

| part | state it keeps | operations | talks to |
|---|---|---|---|
| `Collection` (`collection/`) | its configuration, one of each of the next three | construct, upsert, search, remove, save, load, size | calls the manager and the metadata store one after the other; writes `collection_config.json` |
| `SegmentManager` (`storage/segment_manager`) | sealed segments, the mutable segment, `next_segment_id_`, a shared mutex | insert, remove, seal and rotate, fan-out search with a merge, save and load of `segments.manifest` | owns the segments; a search runs one `std::async` per segment |
| `Segment` (`storage/segment`) | state MUTABLE or SEALED, an index, a log writer, `vector_count_`, a metadata store of its own | insert, remove, search, seal, replay_wal | logs, then indexes |
| `MetadataStore` (`storage/metadata_store`) | a roaring bitmap for each field and value, the metadata of each document, `total_docs_`, a shared mutex | insert, remove, get_bitmap, intersect_filters, selectivity, save, load | read by planner and engine |
| write-ahead log (`storage/wal`) | a descriptor, `seq_counter_`, and for SYNC_PERIODIC a thread with a mutex and a condition variable | append, replay, periodic sync, destruction | one file for each segment |
| HNSW index (`indexes/hnsw`) | nodes with neighbour lists by layer, `id_map_`, entry point, top layer, `visited_` with a generation | insert, search, remove, save, load | the default index of a segment |
| flat index (`indexes/flat_index`) | an array of vectors, one of ids, a reverse map, a count | insert, search, remove, save, load | index of a segment |
| IVF, IVF-HNSW (`indexes/ivf`, `indexes/ivf_hnsw`) | centroids; lists of slots, or one HNSW index for each cell; a count | train, insert, search, save, load | index of a segment that nobody trains; `bench_runner` trains them by themselves |
| k-means (`indexes/ivf/kmeans`) | centroids and assignments while it runs | train, the two rules for the nearest centroids | called by the IVF indexes |
| planner and engine (`query/`) | none | plan, search | read the metadata store, search the manager |
| `MmapStore` (`storage/mmap_store`) | a file mapping | create, open, get, close | nobody |
| REST API (`api/`) | `collections_registry` | create, delete, upsert a batch, delete a point, search, save at shutdown | the Python binding |
| bindings, benchmarks, demo | none of the system | | |

What makes a part correct, and what is hard about it:

* **Collection, manager, segment.** What is searched is what was logged:
  indexes follow the logs, no two segments share a log, the log of a segment
  that was rotated out is final as long as the manifest names its successor,
  metadata agrees with the last writes. Hard: three files are rewritten one
  after the other, a crash comes between any two steps, the manifest is older
  than the logs, a directory can be created twice, and a file that cannot be
  opened or written stops an upsert, a removal, a seal, a rotation or a save
  half-way, in a process that goes on.
* **MetadataStore.** A bitmap never misses a document and, if nothing
  overlaps, never keeps one too many. Hard: `insert` of a known document
  unlocks, removes, and locks again.
* **Log file.** Replay invents nothing and loses nothing that was acknowledged.
  Hard: torn writes, damaged lengths that are read before the checksum that
  covers them, power failures.
* **Sync thread.** No lost wakeup, no use of a closed descriptor, every write
  synced some time.
* **HNSW.** A graph that stays in shape and lets every document be found. Hard:
  candidates are document ids that are resolved again and again through a map
  that removals and replacements change. Searches share one array of marks, and
  an insertion grows the arrays before it locks.
* **IVF and k-means.** A vector is found where it was put, though it is put
  there by one rule and looked for by another. Hard: ties, duplicates, empty
  cells; a second training, which resets a part of the state; a save that
  rewrites one file after the other.
* **Flat index.** Three arrays and a count that must agree. Hard: removal.
* **Planner and engine.** The nearest matching documents survive a trim in each
  segment, one in the merge and one behind the filter.

Every hazard is listed with its line in `PROJECT.json`, with the properties
that would catch it going wrong.

## 2. The modules

| module | models | proofs |
|---|---|---|
| `DocumentStore` | what a collection promises, without segments, logs and files | |
| `Collection` | Collection, SegmentManager, Segment and their files | `CollectionProofs` |
| `CollectionStore`, `MCCollection` | that `Collection` implements `DocumentStore` | `CollectionProofs` |
| `MetadataStore`, `MCMetadataStore` | MetadataStore | `MetadataProofs` |
| `Wal`, `MCWal` | the file of a WALWriter and WALReader::replay | `WalProofs` |
| `WalSync` | run_periodic_sync against ~WALWriter | `WalProofs` |
| `HnswGraph` | the graph of an HNSWIndex as a value; insert, remove, search, load as operators | `HnswGraphProofs` |
| `Hnsw`, `MCHnsw` | an HNSWIndex through its life, one call at a time | `HnswProofs` |
| `HnswSearch`, `MCHnswSearch` | searches of an HNSWIndex that overlap, step by step, and an insertion | `HnswSearchProofs` |
| `KMeans` | kmeans_train step by step, the rules for the nearest centroids | `IvfProofs` |
| `Ivf`, `MCIvf` | IVFIndex and IVFHNSWIndex: training, insertion, search, files | `IvfProofs` |
| `FlatIndex` | FlatIndex, as operators | (used by the next) |
| `Query`, `MCQuery` | QueryPlanner, QueryEngine, SegmentManager::search and merge_results over flat indexes | `QueryProofs` |

The modules divide the system by the question they answer. `Collection` is
about files and crashes and reduces an index to the nodes it holds; `Hnsw` and
`HnswSearch` are about one index, `Hnsw` with all calls and these in one step
each, `HnswSearch` with searches taken apart; `Ivf` composes `KMeans` with one
graph of `HnswGraph` for each cell; `Query` runs whole calls on segments in memory; `Wal` takes
the log file apart that is a sequence of entries in `Collection`; `WalSync` is
the thread of which `Wal` sees only the effect; `MetadataStore` is about
threads inside a store that `Collection` and `Query` call in one step.
`FlatIndex` is composed into `Query`.

**Collection.** A variable for each file (`wal`, `configFile`, `metaFile`,
`manifest`) and each member (`segments`, `mutable`, `nextId`, `docMeta`); a
program counter, since the binding runs one call at a time (it never releases
the interpreter lock). An upsert is `UpsertLog`, `UpsertIndex`, `Seal`,
`Rotate`, `UpsertMeta`; a removal `RemoveMeta`, `RemoveLog`, `RemoveIndex`; a
save truncates and fills three files (`Save` .. `WriteManifest`); a load reads
them and replays the logs entry by entry (`LoadOpen`, `ReplayEntry`,
`ReplayNext`). `Stop` ends the process between any two of these. `cur` and
`stale` of a segment are the node that `id_map_` has for a document and the
nodes it forgot without a tombstone. `Recreate` is the constructor over an old
directory, what the REST API does when a deleted collection is created again
or when it is restarted (its registry starts empty and loads nothing).

Each file that cannot be opened or written has its step (`Fail`). `SealThrows`:
`seal` has closed the log and then fails to save; the segment stays the mutable
one, `CLOSED`, and the upsert ends before the collection's metadata.
`RotateThrows`: the log of the next segment cannot be opened; the id is used up and
the mutable segment is a sealed one. `RemoveStops`: the append throws after the
metadata is gone, or the segment is sealed and returns without a word;
`RemoveUnlogged`: the segment has no log and goes on. `SaveStops`: the metadata
file cannot be opened, and `save` throws, or the manifest cannot, and it returns.
`WriteLost`: the contents of a file do not arrive, which nobody asks. `ReplayThrows`:
a load cannot open a log. A closed segment still takes removals and no upsert
(which would dereference null: the process ends, `Stop`); a sealed one takes
neither.

**DocumentStore and CollectionStore.** `DocumentStore` is the collection as a
client may think of it: `Put`, `Erase`, `Show`, `Age`, `Start`, `Stop` on what
is held and what is shown. A write takes effect at one moment for good, is shown
a moment later and before the next write begins; a stop takes away what is
shown and nothing that is held. It is as weak as the code: a document written
again keeps its older vectors (`aged`), and at some moment (the rotation of a
segment) its newest one is out of reach of a removal, too. `CollectionStore`
gives the refinement mapping: what is held is read off the logs on disk, what is
shown off the indexes in memory. So an upsert maps to `Put` at `UpsertLog` and
to `Show` at `UpsertIndex`, `Rotate` to `Age`, the end of a load to `Start`, and
everything else, saves and their half-written files included, to a stutter.

**MetadataStore.** One action for each section under the mutex. `insert` of a
known document is `InsertKnown`, `RemoveOld`, `InsertAgain` with the store open
in between; `intersect_filters` (offered by the class, called by nobody in the
repository) is a lookup for each filter.

**Wal.** The file is a sequence of words, a word for a field. A short write
leaves a prefix of an entry; `Crash`, `PowerFail` and `Rot` damage the file.
`Replay` does what the reader does, also with words it takes for lengths that
are none.

**WalSync.** One action for each point at which the thread or the destructor
can be preempted; `wait_for` is modelled by its contract.

**HnswGraph and Hnsw.** `Search`, `SearchLayer`, `SelectNeighbors`, `Connect`
are the functions of those names; an insertion is one action, with any level
drawn. `wild` records an access to a neighbour list that does not exist.

**HnswSearch.** A thread that searches has a record of the locals of `search`
and `search_layer`: the layer, the generation, the heap of candidates, the
neighbours still to visit, the results. `OpenLayer` takes a generation and marks the
entry point, `Visit` tests and sets the mark of one neighbour, `Skip` goes past
a candidate that has no neighbours in the layer; what happens between two accesses to the
shared marks belongs to the step before. An insertion is `Grow`, outside the
lock, and `Link`, which waits until no search is active. A reallocation leaves
running searches `undefined`. The module starts from an index that was loaded,
so that arrays have no room to spare.

**KMeans.** `Seed` draws one centroid of k-means++, `Assign` and `Update` are
the two halves of an iteration of Lloyd's algorithm. A centroid is a sum and a
count, so that comparisons are exact; a draw with positive weight is any
such draw, and the vector given to an empty cell is any vector.

**Ivf.** `Train`, `Iterate`, `Adopt` are the beginning, the steps and the end
of `train`; `kind` says which of the two classes the behaviour is about.
`SaveMeta` writes the one file of an IVFIndex or the first of an IVFHNSWIndex,
`SaveCell` one of the others. `Reopen` ends the process at any moment between
and loads what there is. Nobody in the repository loads these indexes; the module
takes `load` at its word.

**Query.** `Upsert` and `Remove` are whole calls; `Plan` and `Search` are the
operators the invariants evaluate for every query.

## 3. What is checked

| run | what it shows | bounds |
|---|---|---|
| `collection_any` | types, distinct logs, logs frozen as long as the manifest lists them, metadata that is that of the last logged write, with failures and crashes everywhere and recreated directories | 2 documents, 1 payload, 3 segment ids, 2 entries in a log, threshold 2 |
| `collection_listed` | index and count follow the log; rotated logs are final; searched segments hold exactly the live documents; the refinement of `DocumentStore` | 2 documents, 2 payloads, 2 segment ids, 3 entries in a log, threshold 2 |
| `metadata_writers` | exact bitmaps and counts unless calls clash; completeness and sane selectivities always | 2 documents, 2 tags, 2 writers, 1 reader, no insert from count 3 on |
| `wal_file` | no fabrication, only damaged entries lost, SYNC_ALWAYS keeps its promise | 3 appends, 2 by one writer, 1 rotten word, 2 policies |
| `wal_sync_thread` | wakeups, the closed descriptor, both liveness properties | 3 writes |
| `hnsw_graph` | the shape of the graph, sound searches, findable documents, reload | 4 documents and vectors, 2 levels, M = 2 |
| `hnsw_searches` | arrays, marks and graph fit; exact searches when alone, only repetitions hide documents otherwise; searches return | 2 threads, 2 searches, an index that grows from 1 to 3 vectors, 2 levels, 8 generations |
| `ivf_trained` | convergence and its result; count and storage; searches that find what was inserted and what was saved | 3 cells, 4 training sets, 3 vectors, 3 insertions, 2 trainings |
| `query_flat` | bounds of the arrays, exact queries, what a post-filter may lose | 6 documents and vectors, 1 tag, threshold 3, top_k 1 and 2 |
| `bad_crash`, `bad_tombstone`, `bad_replace` | section 5 | |

Why the bounds are enough for the cases of interest. Three segment ids give
two sealed segments, a second rotation with a stale
manifest, and a recreated directory whose ids collide with old ones; two ids
with logs of three entries give an update, a removal and a re-insertion in one
log, and a load behind a rotation. `MaxSegs` and `MaxLog` disable upserts and removals that
would exceed them; nothing else is bounded. The one payload of `collection_any` tells
metadata that is there from metadata that is not; that an update leaves no older
payload behind is what `MetadataIsKept` adds, for any payloads.
`collection_listed` takes states that differ only in metadata (`docMeta`, the
contents of `metaFile`, and the history of both) for one state, `BesidesMetadata`:
no guard reads them and no property of that run does. Three appends give a torn entry
with a whole one on either side. `Junk` has a length that stays in the file,
one that leaves it, and zero. Four HNSW nodes in one upper layer overflow
a list there (M = 2), so that pruning happens; each vector is used once, so that
there are at most four nodes, among them old ones of documents that were
replaced. Two searches that both begin before an insertion of the second or third
vector overlap in every order, in layers 1 and 0, with and without a filter;
one vector in a loaded index makes the second insertion and the third grow
arrays. Eight generations are more than two searches and two insertions of
one layer each need and fewer than they need with two layers, so that runs with
and without a wrap occur, and stale marks do hide nodes in them. `MaxOpen` is
never reached here; it is what bounds the endless searches of section 5 in
instances that have them. Of the training sets two take four
iterations, one has more cells than different vectors, so that cells run empty, and one has ties;
the second training is with one of them, behind any of the four. `MaxIter` is the
300 of the code. Six documents fill two flat segments of three, and give selectivities
on both sides of one fifth and the over-fetches 1 to 4; from three upserts on
there is no removal and no replacement. The vectors of `Hnsw` and `Query` are
marks of rulers without equal distances, as their assumptions demand: the order
of equals is not part of what is claimed. Centroids do tie, and are equal, in
`Ivf`.

Deadlock is checked except in four runs. In `wal_sync_thread` the system ends
when the destructor returned; in `hnsw_graph`, `hnsw_searches` and `query_flat`
all ids, vectors or searches are used up in the end.

**Fairness** is assumed in `WalSync` and `HnswSearch`: in `WalSync` weak for the steps of the thread and
of the destructor, since a scheduler runs both; strong for `Timeout`, since
`wait_for` with a predicate computes its deadline once, so that spurious
wakeups, after which it waits again, cannot put the timeout off for ever.
Nothing obliges a program to write or to destroy. In `HnswSearch` the steps of
each thread that has begun a search are weakly fair, for the scheduler runs it
and no step of a search waits; nobody has to begin a search or to insert.
`SearchesReturn` is about searches without a filter, see section 5.

Some properties have a condition kept by a history variable, because the code
does not have them without it:

* `ListedFrozen`: unless the directory was recreated. A recreated collection
  starts numbering from zero and appends to logs the manifest calls sealed. It
  speaks of what the manifest on disk lists: an interrupted save leaves a blank
  one, which lists nothing, see section 5.
* `IndexIsLog`, `CountIsLog`, `SealedFrozen`, `IsDocumentStore`, `SearchIsExact`
  (specification `SpecListed`): the process ends only while the manifest names every
  segment, otherwise see `bad_crash`; and nothing is removed from a
  segment whose log a failed seal has closed, for that removal would not be logged
  (section 5).
* `MetadataAgrees`: not for a document whose own last write was cut short between
  log and metadata, and not for one whose metadata was lost with a process, or
  with a second construction, before a save: the metadata file is a snapshot and
  is not replayed (`adrift`). A complete write of the document ends this.
* `SearchIsExact`, `SelectiveExact`, `NearestFirst`: no document was upserted
  twice, none removed from a sealed segment (or, in `Query`, none removed).
* `IndexExact`, `TotalExact`, `IntersectStable`: no call met another insert of
  the same document in its open window (`clash`).
* `AloneExact`: no other search was active at the same time, and if the
  generations have started again, no node carried the search's own generation
  when it took it. `OnlyRepeatsHide`: the generations have not started again,
  and the beam is as wide as the graph.
* `Trained`: what it says of centroids holds from the second iteration on, see
  section 5. `SearchIsExact` of `Ivf`: the files that were loaded are all of one
  training (`index.round`).
* `AllFindable`, `SearchIsSound`, `ReloadKeeps`, `LinksInLayer`: what clients
  may have done is in `past`.

Every property has a mutant in `PROJECT.json`: a plausible slip in the code
that the property's run finds.

## 4. What is proved

The theorems hold for all values of the constants that satisfy the named
assumptions, which TLC evaluates in the runs.

* **`CollectionProofs`** (`TypeCorrect`, `LogsDistinct`, `ListedLogsFrozen`,
  `SealedLogsFrozen`, `LoadedNeverBehind`, `IndexesAreTheirLogs`,
  `CountsAreTheirLogs`, `MetadataIsKept`, `ImplementsStore`,
  `SearchesAreExact`). All of them hold with the failures of section 2.
  `DistinctLogs` alone is not inductive: a load takes its ids from the manifest, a
  rotation from `nextId`, and both from files that may be older. The invariant
  `IInv` adds that the ids of a manifest increase up to its `next`, and so do those in
  memory, the mutable one's and those queued by a load, up to `nextId`. (They need not be
  consecutive: a rotation that throws leaves a gap.) `ListedLogsFrozen` rests on
  `SealedBelow`: unless memory is behind the manifest, what the manifest lists as sealed
  lies below the segment that takes writes. `LoadedNeverBehind` says when memory
  is not behind (`Ahead`), and with it, for `SpecListed`, the segment that takes writes, or
  would after a load, only moves on to later ones (`CurrentMoves`); `SealedLogsFrozen`
  is that and the fact that only its log is written (`OnlyMutableLogWritten`).
  For `IndexIsLog` the induction carries `Accounted`: every log with entries belongs
  to a segment in memory, and without a process to one the manifest names. A
  rotation opens a log for appending, and the new, empty index is only right if
  that file is empty. This is what fails without the condition of
  `SpecListed`. Appending an entry is handled by lemmas on the last entry of a
  document and on neighbouring entries. `CountIsLog` rests on it, by lemmas on
  what one more entry adds to the count. For `MetadataAgrees` the induction
  (`MetaTruth`) says at each point of a call whose metadata is how old: in the store,
  in the file (`unsaved`), and during an upsert or a removal.
  Then the refinement (`ImplementsStore`): initial states map to initial states, and each action maps to the
  step of `DocumentStore` that section 2 names, or to a stutter. Its invariant
  compares what the indexes show with what the logs hold, document by document,
  on top of `IndexIsLog`. The same comparison gives `SearchIsExact`, the property
  of `SearchesAreExact`.
* **`MetadataProofs`** (`TypeCorrect`, `IndexIsExact`, `TotalIsExact`,
  `NoDocumentMissed`, `SelectivityInRange`, `IntersectionIsStable`). As long as
  there was no clash, index and count are exact in the store and in the file, a
  writer behind its removal has a document that is absent, and no two writers
  are at one document. Completeness needs none of that. That a selectivity is
  at most one is a fact about cardinalities: documents in a bitmap are
  counted. For the reader the invariant follows what it has intersected so far.
* **`WalProofs`** (`FileInvariant`, `TypeCorrect`, `NothingIsFabricated`,
  `OnlyDamagedSkipped`, `DurableSurvives`). The invariant `FInv` has three parts:
  where each entry lies in the file and what is left of it (`Placed`), which
  entries are still there in full under the policy (`Promised`), and the ranges of
  the scalars. That replay invents nothing comes from one fact: a
  checksum that matches is the last word of a written entry, which also fixes where the
  entry starts. That it skips nothing intact is an induction along the
  positions a reader reaches.
  Of `WalSync` it proves `WakeupNotLost` and `CloseIsFinal`. The invariant ties
  each program point of either thread to the owner of the mutex, says what the
  thread has seen of the stop flag, and orders the teardown.
* **`HnswGraphProofs`** has no invariant of a behaviour: it says what the
  operators of `HnswGraph` return for every graph in shape. Its means is the
  *tower*: for each layer a set of nodes that a search in the layer does not
  leave, each inside the one below. Two towers are used: all nodes, which gives
  types and ranges, and the nodes that reach up to the layer, which gives that
  a list of a layer names only nodes that are in the layer, that none is read
  that does not exist (`wild`), and that no list exceeds its capacity.
  `InsertedIs`, `RemovedIs`, `LoadedIs` then say what each call does to a graph,
  and `InsertedJoins` and `WideSearch` when a search finds all of it (see the
  next), which `HnswProofs` and `IvfProofs` both build on.
* **`HnswProofs`** (`GraphInvariant`, `TypeCorrect`, `ListsStayBounded`,
  `LayersAreClosed`, `SearchesAreSound`, `ReloadsKeep`, `AddedAreFound`). The
  inductive invariant `HInv` adds to the shape of the graph that an id leads to a
  live node of its document (`IdsLead`), that a node that is not deleted is what
  its document's id leads to (`LiveAreLed`), and that vectors are used once.
  `AllFindable` rests on a second invariant, `FInv`: while documents were only
  added, and no more than fit in one list of layer 0 besides its owner, layer 0 is
  joined (no smaller set of nodes is closed under its lists) and its lists name no
  node twice and not their owner. So no list has outgrown its capacity, and none was
  ever pruned. The proof has two halves. An insertion keeps it: the search of
  layer 0 finds at least the node it starts from, one or more of what it found
  are linked both ways with the new node, and the links that were there stay
  (`InsertedJoins`). And a search with a beam as wide as the graph never drops a
  node and expands one that it has not expanded in each round, so that after as
  many rounds as there are nodes what it visited is closed (`WideSearch`).
* **`HnswSearchProofs`** (`SearchInvariant`, `TypeCorrect`, `AloneIsExact`,
  `OverlapInvariant`, `OnlyRepetitionsHide`). The
  invariant `SInv` says that the arrays have room for every node (`Roomy`), that
  what a searcher holds is in the graph and its heaps are in order (`Propers`),
  that until the generations start again no mark is newer than the counter and so
  none is a new search's own (`Young`), that who is alone is alone (`Apart`), and where
  such a search is (`Courses`). The last is the heart of it: `search` of
  `HnswGraph` works with a set of visited nodes and expands a node at a time,
  the search in steps with marks that others have left, a heap in which a node
  can be twice, and a neighbour at a time. So `Courses` says that the marks with
  its generation are the visited set after i rounds and j neighbours of the next,
  and its heaps, as sets, the two beams of that moment. The lemmas for it are
  about heaps (a push puts a node where it belongs, the first is the nearest, a
  trim drops the farthest) and about reading a round as a fold over neighbours.
  A search that meets another, or a wrapped counter with an old mark, has no such
  course. `TypeCorrect` needs none of this and holds for overlapping searches
  too. What is left of a course that others' marks lead astray is `RInv`, which
  holds until the generations start again: no two searches in a layer have the
  same one (`Rivals`), so a mark that is overwritten only looks like none, and a
  search may examine a node again. As long as repetitions leave its beam room
  (`Narrow`; a beam of one has nothing to lose) it is still on a trail (`Trail`):
  it has found what `search_layer` has after some rounds and looks, has every
  candidate that is left then, and perhaps candidates again whose
  neighbours were all visited. A node it sees again either changes nothing or has
  no place among its results (`Settled`, `Hopeless`). Whatever the room, a search
  with a beam as wide as the graph stays within what `search_layer` reaches
  (`Within`). At the end of layer 0 either there was room and the search has what
  `search_layer` has, or its beam is full: then a result without repetitions
  has every node. The theorems assume that the documents are numbered in the
  order of insertion (`SearchAssumption`), which is how the module inserts.
* **`IvfProofs`** (`IndexInvariant`, `TypeCorrect`, `TrainingConverges`,
  `ClusteringImproves`, `SearchesAreExact`). `KInv` and `MInv` say what k-means
  has at each point; the key to `Trained` is that an assignment that moves nobody leaves the centroids
  the means they were computed to be. That nobody moves follows from the test for
  convergence if a training set has no more than `Tol` vectors, an assumption of
  the theorem: in a larger one some vectors may move in the last iteration, and
  `Trained` is not claimed. Nor is it for a training that `MaxIter` cuts off.
  `ClusteringImproves` needs neither assumption, only `NInv`: when the means are
  taken every vector is where its nearest centroid is, and no centroid counts
  more vectors than there are. `Inertia` is then a sum of whole numbers, for its
  scale is a multiple of every count (`ProductIs`), and three sums are compared:
  to the nearest new centroids, to the new centroids of the vectors' cells, to
  the old ones. The first is least because the nearest is nearest
  (`PartsAre`), the second is at most the third cell by cell (`CellByCell`), since no
  point is nearer to numbers than their mean (`MeanIsBest`); an empty cell, whatever
  is drawn for it, has no part in them. That a sum has one value, in whatever
  order it is taken, is `SumStep`.
  `IInv` has a part for each way an index can go wrong. `XInv`: its arrays
  fit together. `PInv`: what a running save has written is what the index
  has. `CInv`: the documents in memory and in files together are no more
  than are counted, because any mixture of both can be loaded next. `QInv`: there
  is a list of the centroids of each training so far such that whatever
  comes from a training, in memory or in a file, is where these centroids put it;
  this is what an overwritten file must be compared with. `SInv`: what a finished
  save had stays in the index and in the files, as long as both are of its
  training. For the search there are lemmas that both rules order centroids
  totally, with ties and duplicates, and agree on the first (`NearestCentroidIs`,
  `ProbedAre`), and that the nearest k survive a trim in each cell
  (`NearestOfPart`). What a cell that is a graph contributes is known from
  `WideSearch` if every node fits in the list of every other (`AllFit`, a
  condition of `SearchesAreExact` for IVFHNSWIndex only); larger cells are
  searched approximately, and TLC checks those of its instance.
* **`QueryProofs`** (`TypeCorrect`, `SelectiveIsExact`, `FoundIsNearest`). The
  invariant says that, without removals and replacements, every segment scans
  all it holds, and that what the segments hold together is what was upserted. On
  top of that stand lemmas about `Nearest`: the nearest k of a set are among
  the nearest n of every part they lie in, so trimming segment by segment and
  then again loses nothing (`MergeIsExact`), and filtering behind a trim loses
  only what is beyond it.

Inductions over data (lengths of logs, counts, recursions of a search) are
arguments about sets of natural numbers: a set that has 0 and with each number
the next one is `Nat`. A recursive function or a fold is first shown to exist, by
such an induction over its approximations; what it satisfies follows from its
equation.

**Only model-checked:**

* `Trained` of `KMeans` for training sets of more than `Tol` vectors and for a
  training that `MaxIter` cuts off, and `SearchIsExact` of `Ivf` for graphs that do
  not fit in one list.
* Liveness, which needs ENABLED.

## 5. Where code and documentation differ

With a run that shows it:

* `bad_crash`: what is logged after a rotation is gone after a crash, because
  the manifest does not name the new segment.
* `bad_tombstone`: removing the document of the HNSW entry point hides the
  others, for a tombstone is not traversed.
* `bad_replace`: replacing it does the same.

Met on the way, without a run:

* `storage/segment.cpp:149`: `seal` closes the log and then saves index and metadata.
  If one of the saves throws, the segment stays the mutable one without a log. Removals
  reach the index and not the disk, and the next load undoes them, where
  `collection/collection.cpp:116` says "the delete survives a restart via WAL
  replay"; the next upsert dereferences a null pointer (`storage/segment.cpp:82`).
* `storage/segment_manager.cpp:224`: a segment that was sealed and rotated out takes
  inserts again when the process ends before, or in the middle of, the save
  that names its successor, for the load makes it the mutable segment.
  `storage/segment.hpp:29` says "After sealing, the segment accepts no new inserts."
* `indexes/hnsw/hnsw_index.cpp:238`: an insertion can access a neighbour list that does not
  exist, behind the end of a vector. Insert one document at level 1, upsert it at
  level 0, insert another at level 1: the old node is met in layer 1 and resolves to
  the new one, which has no list there (`wild` in `HnswGraph`).
  `indexes/hnsw/hnsw_node.hpp:29` says that `neighbors[layer]` holds neighbours
  "at that layer", and every node has `top_layer + 1` lists.
* `storage/segment.cpp:85`: a replaced vector, and a removed one in a sealed
  segment, stay searchable, where `api/routes/vectors.py:26` says "it is
  replaced" and `:79` "excluded from future search results". `DocumentStore`
  says exactly what stays.
* `storage/wal.cpp:233`: an acknowledged, synced entry behind a torn one is not
  replayed, for the reader takes the words the torn one lacks from its
  successor. `storage/wal.hpp:96` says truncated data are skipped.
* `indexes/hnsw/hnsw_index.cpp:64`: the visited marks of concurrent searches are
  said not to interfere. A mark keeps one search's generation at a time: two
  searches make each other visit nodes again, and a document is
  returned twice, or in place of another (`OnlyRepeatsHide` says what is left).
* `indexes/hnsw/hnsw_index.cpp:129`: with a filter that matches fewer documents
  than the beam is wide a result is never full, every node visited again is
  pushed again, and two overlapping searches can do this for each other for
  ever. TLC shows it when `SearchesReturn` is stated without its restriction.
* `indexes/hnsw/hnsw_index.hpp:42`: writes are said to take the unique lock;
  `insert` reallocates four arrays before it does.
* `indexes/ivf/kmeans.cpp:124`: if no vector leaves the cell that all are
  initialised to be in, training ends in the first iteration with a drawn vector for
  a centroid and not the mean; so it always is with one cell.
* `indexes/ivf/kmeans.cpp:106`: training uses L2, while insertion and search use
  the metric of the index.
* `indexes/ivf/ivf_index.cpp:26`: a second training leaves vectors and count
  where they are; `size()` counts documents that no search finds.
* `indexes/ivf_hnsw/ivf_hnsw_index.cpp:146`: an interrupted save behind a second
  training leaves cells that were filled under other centroids.
* `indexes/ivf/ivf_index.cpp:114`, `indexes/ivf_hnsw/ivf_hnsw_index.cpp:141`: a
  save of an index that is not trained reads centroids that are not there.
* `indexes/flat_index.cpp:72`: a removal decrements the count that bounds the
  scan and places the next vector. The last vector is no longer scanned and the
  next insertion overwrites it, under an id from another slot. `TypeOK` of
  `Query` shows at least that no array is left.
* `query/query_engine.cpp:38`: the over-fetch is said to guarantee top_k
  results. It follows an average, so it does not: four documents suffice.
* `query/query_engine.cpp:23` passes 0.2 to the planner, and
  `filter_selectivity_threshold` of the configuration is never read.
* `storage/segment.cpp:116` counts a removal of any document: `size()` is then
  too small, and a segment that counts zero is skipped by searches.
* `storage/segment_manager.cpp:69`: if the log of the new segment cannot be opened, the
  sealed segment stays the mutable one. Every upsert throws from then on, and
  removals return as if they had been done (`storage/segment.cpp:98`).
* `collection/collection.cpp:112`: a removal drops the metadata before its DELETE
  is logged, and an upsert inserts it after sealing and rotating. If the append, the seal
  or the rotation throws, the document's metadata is not that of its vector until it is
  written again; so it is, after a crash, for every document written since
  the last save (`:210`).
* `storage/segment_manager.cpp:175`: a manifest that cannot be opened is not reported,
  and no save looks whether what it wrote arrived.
* `indexes/hnsw/hnsw_index.cpp:527`: a document that was upserted again and then
  removed has an older node without a tombstone; `load` maps its id to that one, and the
  document is back.
* `collection/collection.cpp:154`: after a crash in the middle of a save, `load`
  can fail on a truncated file.
* `api/main.py:73`: collections are saved at shutdown, and none is loaded at
  startup.
* An IVF index throws until it is trained, after the entry was logged; nobody
  trains it, and such a log can then not be replayed.

## 6. What is not modelled, and the plan

Out of reach or not worth it: distances other than L2 in one dimension and the
rounding of any, the text of JSON and file headers, the file mapping that nobody
uses, demo and benchmarks, the per-segment metadata stores and the `.idx` files,
which are written and never read.

Not modelled yet, in the order of further work:

1. `Registry`: the REST API's registry over collections, batches that fail in
   part, restart; composed with `Collection`, and with it segments over an index
   that throws because it is not trained.
2. Queries that run while a writer does.
