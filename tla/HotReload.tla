------------------------------ MODULE HotReload ------------------------------
(***************************************************************************)
(* The hot-swappable state of uniques-http-api and everything that races   *)
(* on it: the index reload task (index/reload/tick.rs), the formats reload *)
(* task (formats/reload.rs) and the request handlers.                      *)
(*                                                                         *)
(* AppState is one RwLock<Arc<QuerySnapshot>>.  A snapshot pairs an index  *)
(* with the format bitmaps computed against that index and with a handle   *)
(* on a collection store, whose bitmaps are positions in the same index.   *)
(* Both tasks are tokio tasks of their own, so either may run between any  *)
(* two steps of the other; a step here ends where the code releases the    *)
(* lock, awaits, or reads a file another process may replace.              *)
(*                                                                         *)
(* An index is identified by the build that produced it; BuiltAt gives the *)
(* manifest.built_at_secs of that build, and two builds may share it.      *)
(***************************************************************************)
EXTENDS Integers

CONSTANTS
    Builds,            \* the index builds a publisher may upload
    BuiltAt,           \* BuiltAt[b]: manifest.built_at_secs of build b
    NoBuild,           \* "no index held" / "no collection bitmap applied"
    Manifests,         \* contents of the formats manifest: its id -> version map
    EmptyManifest,     \* the map of a manifest without entries
    Unreadable,        \* the manifest file is absent or not JSON
    Collections,       \* ids clients POST collections under
    NoCollection,      \* a query without a collection parameter
    Clients,           \* request slots: each serves one request at a time
    FormatsReload,     \* formats.reload_interval_secs > 0
    Eviction,          \* the store's capacity, TTL or TTI can expire an entry
    MaxPublishes,      \* bound: uploads of a new archive
    MaxManifestWrites, \* bound: rewrites of the formats manifest
    MaxLoadFailures    \* bound: transient failures of load_index

ASSUME BuildsAssumption ==
    /\ BuiltAt \in [Builds -> Nat]
    /\ NoBuild \notin Builds
ASSUME ManifestsAssumption ==
    /\ EmptyManifest \in Manifests
    /\ Unreadable \notin Manifests
ASSUME ClientsAssumption == NoCollection \notin Collections
ASSUME SettingsAssumption ==
    /\ FormatsReload \in BOOLEAN
    /\ Eviction \in BOOLEAN

VARIABLES
    archive, sidecar, publishes,        \* the published index (external)
    manifest, manifestWrites, failures, \* the formats manifest (external)
    current,                            \* AppState.query
    entries, nextStore,                 \* contents of every collection store
    ipc, iremote, ibuild, iformats,     \* the index reload task
    fpc, fversions, fbase, fformats,    \* the formats reload task
    req                                 \* requests being served

sourceVars  == <<archive, sidecar, publishes, manifest, manifestWrites>>
storeVars   == <<entries, nextStore>>
indexTask   == <<ipc, iremote, ibuild, iformats>>
formatsTask == <<fpc, fversions, fbase, fformats>>
vars == <<sourceVars, failures, current, storeVars, indexTask, formatsTask, req>>

(***************************************************************************)
(* Snapshots.  A FormatIndex is what its bitmaps were computed against and *)
(* the manifest_versions it was read from; a store is a number, the handle *)
(* that QuerySnapshot clones share.                                        *)
(***************************************************************************)
FormatIndex == [index : Builds, versions : Manifests]
NoFormats   == [index |-> NoBuild, versions |-> EmptyManifest]
Snapshot    == [index : Builds, formats : FormatIndex, store : Nat]
Entry       == [store : Nat, coll : Collections, index : Builds]

\* Mutant: an unreadable manifest is recorded as if it had been read.
LoadFormatsUnchecked(b) == [index |-> b, versions |-> manifest]

\* load_format_index: an unreadable manifest gives FormatIndex::empty().
LoadFormats(b) ==
    [index    |-> b,
     versions |-> IF manifest = Unreadable THEN EmptyManifest ELSE manifest]

Newer(b, c) == BuiltAt[b] > BuiltAt[c]

Idle == [pc |-> "idle", snap |-> NoBuild, coll |-> NoCollection, filter |-> NoBuild]

Bitmaps(store, id) == {e \in entries : e.store = store /\ e.coll = id}

(***************************************************************************)
(* Startup: main loads the published index and the formats for it, with a  *)
(* fresh collection store, before it spawns the tasks.                     *)
(***************************************************************************)
Init ==
    /\ archive \in Builds
    /\ sidecar = BuiltAt[archive]
    /\ manifest \in Manifests \cup {Unreadable}
    /\ publishes = 0 /\ manifestWrites = 0 /\ failures = 0
    /\ current = [index |-> archive, formats |-> LoadFormats(archive), store |-> 0]
    /\ entries = {} /\ nextStore = 1
    /\ ipc = "idle" /\ iremote = 0 /\ ibuild = NoBuild /\ iformats = NoFormats
    /\ fpc = "idle" /\ fversions = EmptyManifest /\ fbase = NoBuild /\ fformats = NoFormats
    /\ req = [c \in Clients |-> Idle]

(***************************************************************************)
(* The publisher (external): the archive first, version.json last; and the *)
(* operator who edits the formats manifest.                                *)
(***************************************************************************)
PublishArchive(b) ==
    /\ publishes < MaxPublishes
    /\ b # archive
    /\ archive' = b
    /\ publishes' = publishes + 1
    /\ UNCHANGED <<sidecar, manifest, manifestWrites, failures, current, storeVars,
                   indexTask, formatsTask, req>>

PublishSidecar ==
    /\ sidecar # BuiltAt[archive]
    /\ sidecar' = BuiltAt[archive]
    /\ UNCHANGED <<archive, publishes, manifest, manifestWrites, failures, current,
                   storeVars, indexTask, formatsTask, req>>

WriteManifest(m) ==
    /\ manifestWrites < MaxManifestWrites
    /\ m # manifest
    /\ manifest' = m
    /\ manifestWrites' = manifestWrites + 1
    /\ UNCHANGED <<archive, sidecar, publishes, failures, current, storeVars,
                   indexTask, formatsTask, req>>

(***************************************************************************)
(* The index reload task: reload_tick and, inside it, commit_if_newer.     *)
(***************************************************************************)
\* source.read_version()
IndexPoll ==
    /\ ipc = "idle"
    /\ ipc' = "polled"
    /\ iremote' = sidecar
    /\ UNCHANGED <<sourceVars, failures, current, storeVars, ibuild, iformats,
                   formatsTask, req>>

\* state.current_built_at_secs(); an index that is not newer ends the tick.
IndexCompare ==
    /\ ipc = "polled"
    /\ ipc' = IF iremote <= BuiltAt[current.index] THEN "idle" ELSE "loading"
    /\ iremote' = 0
    /\ UNCHANGED <<sourceVars, failures, current, storeVars, ibuild, iformats,
                   formatsTask, req>>

\* spawn_blocking(source.load_index()): whatever is published by then.
IndexLoad ==
    /\ ipc = "loading"
    /\ ipc' = "loaded"
    /\ ibuild' = archive
    /\ UNCHANGED <<sourceVars, failures, current, storeVars, iremote, iformats,
                   formatsTask, req>>

\* load_index returns Err: the tick is abandoned and only logged.
IndexLoadFails ==
    /\ ipc = "loading"
    /\ failures < MaxLoadFailures
    /\ failures' = failures + 1
    /\ ipc' = "idle"
    /\ UNCHANGED <<sourceVars, current, storeVars, iremote, ibuild, iformats,
                   formatsTask, req>>

\* Mutant: the formats of the index being replaced are carried over.
IndexKeepFormats ==
    /\ ipc = "loaded"
    /\ ipc' = "checking"
    /\ iformats' = current.formats
    /\ UNCHANGED <<sourceVars, failures, current, storeVars, iremote, ibuild,
                   formatsTask, req>>

\* rebuild_formats_for_index(new_index)
IndexRebuildFormats ==
    /\ ipc = "loaded"
    /\ ipc' = "checking"
    /\ iformats' = LoadFormats(ibuild)
    /\ UNCHANGED <<sourceVars, failures, current, storeVars, iremote, ibuild,
                   formatsTask, req>>

\* Mutant: the version is not compared again after the load.
IndexCheckSkipped ==
    /\ ipc = "checking"
    /\ ipc' = "swapping"
    /\ UNCHANGED <<sourceVars, failures, current, storeVars, iremote, ibuild, iformats,
                   formatsTask, req>>

\* commit_if_newer takes the read lock for the comparison and releases it ...
IndexCheck ==
    /\ ipc = "checking"
    /\ \/ /\ Newer(ibuild, current.index)
          /\ ipc' = "swapping"
          /\ UNCHANGED <<ibuild, iformats>>
       \/ /\ ~Newer(ibuild, current.index)
          /\ ipc' = "idle"
          /\ ibuild' = NoBuild
          /\ iformats' = NoFormats
    /\ UNCHANGED <<sourceVars, failures, current, storeVars, iremote, formatsTask, req>>

\* Mutant: the collection store outlives the index it was filled for.
IndexSwapKeepsStore ==
    /\ ipc = "swapping"
    /\ current' = [index |-> ibuild, formats |-> iformats, store |-> current.store]
    /\ ipc' = "idle"
    /\ ibuild' = NoBuild
    /\ iformats' = NoFormats
    /\ UNCHANGED <<sourceVars, failures, storeVars, iremote, formatsTask, req>>

\* ... and then the write lock for the swap, with a new, empty CollectionStore.
IndexSwap ==
    /\ ipc = "swapping"
    /\ current' = [index |-> ibuild, formats |-> iformats, store |-> nextStore]
    /\ nextStore' = nextStore + 1
    /\ ipc' = "idle"
    /\ ibuild' = NoBuild
    /\ iformats' = NoFormats
    /\ UNCHANGED <<sourceVars, failures, entries, iremote, formatsTask, req>>

(***************************************************************************)
(* The formats reload task: formats_reload_tick.                           *)
(***************************************************************************)
\* read_manifest_versions; None ends the tick.
FormatsPoll ==
    /\ FormatsReload
    /\ fpc = "idle"
    /\ manifest # Unreadable
    /\ fpc' = "polled"
    /\ fversions' = manifest
    /\ UNCHANGED <<sourceVars, failures, current, storeVars, indexTask, fbase,
                   fformats, req>>

\* Mutant: a server without formats is taken for one that needs none.
FormatsCompareSkipsEmpty ==
    /\ fpc = "polled"
    /\ IF current.formats.versions \in {fversions, EmptyManifest}
       THEN fpc' = "idle" /\ fbase' = NoBuild
       ELSE fpc' = "loading" /\ fbase' = current
    /\ fversions' = EmptyManifest
    /\ UNCHANGED <<sourceVars, failures, current, storeVars, indexTask, fformats, req>>

\* state.snapshot(), kept across the await below.
FormatsCompare ==
    /\ fpc = "polled"
    /\ IF current.formats.versions = fversions
       THEN fpc' = "idle" /\ fbase' = NoBuild
       ELSE fpc' = "loading" /\ fbase' = current
    /\ fversions' = EmptyManifest
    /\ UNCHANGED <<sourceVars, failures, current, storeVars, indexTask, fformats, req>>

\* spawn_blocking(load_format_index(index)), which reads the manifest again.
FormatsLoad ==
    /\ fpc = "loading"
    /\ fpc' = "swapping"
    /\ fformats' = LoadFormats(fbase.index)
    /\ UNCHANGED <<sourceVars, failures, current, storeVars, indexTask, fversions,
                   fbase, req>>

\* Mutant: the formats commit starts a new store, as the index commit does.
FormatsSwapFreshStore ==
    /\ fpc = "swapping"
    /\ current' = [index |-> fbase.index, formats |-> fformats, store |-> nextStore]
    /\ nextStore' = nextStore + 1
    /\ fpc' = "idle"
    /\ fbase' = NoBuild
    /\ fformats' = NoFormats
    /\ UNCHANGED <<sourceVars, failures, entries, indexTask, fversions, req>>

\* state.commit(): index and collections of the snapshot taken before the await.
FormatsSwap ==
    /\ fpc = "swapping"
    /\ current' = [index |-> fbase.index, formats |-> fformats, store |-> fbase.store]
    /\ fpc' = "idle"
    /\ fbase' = NoBuild
    /\ fformats' = NoFormats
    /\ UNCHANGED <<sourceVars, failures, storeVars, indexTask, fversions, req>>

(***************************************************************************)
(* Requests.  Every handler takes one snapshot and works on it.            *)
(***************************************************************************)
\* post_collection up to the bitmap, built against the snapshot's catalog.
PostBegin(c, id) ==
    /\ req[c].pc = "idle"
    /\ req' = [req EXCEPT ![c] = [pc |-> "posting", snap |-> current, coll |-> id,
                                  filter |-> current.index]]
    /\ UNCHANGED <<sourceVars, failures, current, storeVars, indexTask, formatsTask>>

\* Mutant: one cache for the process, keyed by the collection id alone.
PostInsertSharedKey(c) ==
    /\ req[c].pc = "posting"
    /\ LET r == req[c]
           e == [store |-> r.snap.store, coll |-> r.coll, index |-> r.filter]
       IN  entries' = {x \in entries : x.coll # e.coll} \cup {e}
    /\ req' = [req EXCEPT ![c].pc = "acked"]
    /\ UNCHANGED <<sourceVars, failures, current, nextStore, indexTask, formatsTask>>

\* snapshot.collections.insert, then 200: the entry replaces one of the same id.
PostInsert(c) ==
    /\ req[c].pc = "posting"
    /\ LET r == req[c]
           e == [store |-> r.snap.store, coll |-> r.coll, index |-> r.filter]
       IN  entries' = (entries \ Bitmaps(e.store, e.coll)) \cup {e}
    /\ req' = [req EXCEPT ![c].pc = "acked"]
    /\ UNCHANGED <<sourceVars, failures, current, nextStore, indexTask, formatsTask>>

\* get_cards_v2: snapshot, then parse_request, which answers 422 (and changes
\* nothing) for a collection the store does not hold.
QueryParse(c, id) ==
    /\ req[c].pc = "idle"
    /\ id # NoCollection => Bitmaps(current.store, id) # {}
    /\ req' = [req EXCEPT ![c] = [pc |-> "parsed", snap |-> current, coll |-> id,
                                  filter |-> NoBuild]]
    /\ UNCHANGED <<sourceVars, failures, current, storeVars, indexTask, formatsTask>>

\* Mutant: the second lookup is in the store that is served by then.
QueryBuildServed(c) ==
    /\ req[c].pc = "parsed"
    /\ LET found == Bitmaps(current.store, req[c].coll)
       IN  \/ \E e \in found :
                req' = [req EXCEPT ![c].pc = "answered", ![c].filter = e.index]
           \/ /\ found = {}
              /\ req' = [req EXCEPT ![c].pc = "answered"]
    /\ UNCHANGED <<sourceVars, failures, current, storeVars, indexTask, formatsTask>>

\* build_bitmap looks the collection up a second time and skips the filter when
\* the lookup misses.
QueryBuild(c) ==
    /\ req[c].pc = "parsed"
    /\ LET found == Bitmaps(req[c].snap.store, req[c].coll)
       IN  \/ \E e \in found :
                req' = [req EXCEPT ![c].pc = "answered", ![c].filter = e.index]
           \/ /\ found = {}
              /\ req' = [req EXCEPT ![c].pc = "answered"]
    /\ UNCHANGED <<sourceVars, failures, current, storeVars, indexTask, formatsTask>>

\* The reply is sent and the snapshot's Arc dropped.
Finish(c) ==
    /\ req[c].pc \in {"acked", "answered"}
    /\ req' = [req EXCEPT ![c] = Idle]
    /\ UNCHANGED <<sourceVars, failures, current, storeVars, indexTask, formatsTask>>

\* mini_moka drops an entry: memory pressure, time to live, time to idle.
Evict(e) ==
    /\ Eviction
    /\ entries' = entries \ {e}
    /\ UNCHANGED <<sourceVars, failures, current, nextStore, indexTask, formatsTask, req>>

(***************************************************************************)
(* Specification                                                           *)
(***************************************************************************)
Publisher ==
    \/ \E b \in Builds : PublishArchive(b)
    \/ PublishSidecar
    \/ \E m \in Manifests \cup {Unreadable} : WriteManifest(m)

IndexTask ==
    \/ IndexPoll \/ IndexCompare \/ IndexLoad \/ IndexLoadFails
    \/ IndexRebuildFormats \/ IndexCheck \/ IndexSwap

FormatsTask == FormatsPoll \/ FormatsCompare \/ FormatsLoad \/ FormatsSwap

Request(c) ==
    \/ \E id \in Collections : PostBegin(c, id)
    \/ PostInsert(c)
    \/ \E id \in Collections \cup {NoCollection} : QueryParse(c, id)
    \/ QueryBuild(c)
    \/ Finish(c)

Next ==
    \/ Publisher
    \/ IndexTask
    \/ FormatsTask
    \/ \E c \in Clients : Request(c)
    \/ \E e \in entries : Evict(e)

\* tokio keeps polling both tasks and tokio::time::interval keeps firing, so a
\* task that can take a step takes one.  Nothing is assumed of the publisher,
\* of the clients or of eviction.
Fairness == WF_vars(IndexTask) /\ WF_vars(FormatsTask)

Spec == Init /\ [][Next]_vars /\ Fairness

(***************************************************************************)
(* Properties                                                              *)
(***************************************************************************)
RequestState ==
    [pc : {"idle"}, snap : {NoBuild}, coll : {NoCollection}, filter : {NoBuild}]
    \cup [pc : {"posting", "acked"}, snap : Snapshot, coll : Collections, filter : Builds]
    \cup [pc : {"parsed"}, snap : Snapshot, coll : Collections \cup {NoCollection},
          filter : {NoBuild}]
    \cup [pc : {"answered"}, snap : Snapshot,
          coll : Collections \cup {NoCollection}, filter : Builds \cup {NoBuild}]

\* Types, and which locals a task holds in which of its states.
TypeOK ==
    /\ archive \in Builds /\ sidecar \in Nat
    /\ manifest \in Manifests \cup {Unreadable}
    /\ publishes \in Nat /\ manifestWrites \in Nat /\ failures \in Nat
    /\ current \in Snapshot
    /\ entries \subseteq Entry /\ nextStore \in Nat
    /\ ipc \in {"idle", "polled", "loading", "loaded", "checking", "swapping"}
    /\ iremote \in Nat
    /\ ipc \in {"loaded", "checking", "swapping"} => ibuild \in Builds
    /\ ipc \in {"checking", "swapping"} => iformats \in FormatIndex
    /\ fpc \in {"idle", "polled", "loading", "swapping"}
    /\ fversions \in Manifests
    /\ fpc \in {"loading", "swapping"} => fbase \in Snapshot
    /\ fpc = "swapping" => fformats \in FormatIndex
    /\ req \in [Clients -> RequestState]

\* Index and formats are swapped together, so a query never sees an index with
\* format bitmaps computed against another catalog (QuerySnapshot).
SnapshotCoherent == current.formats.index = current.index

\* The bitmaps a query combined and the catalog it decodes the result with all
\* belong to the same index, whichever swaps happened since it took its
\* snapshot; in particular a collection bitmap never outlives an index swap.
ReplyCoherent ==
    \A c \in Clients : req[c].pc = "answered" =>
        /\ req[c].snap.formats.index = req[c].snap.index
        /\ req[c].filter \in {req[c].snap.index, NoBuild}

\* What commit_if_newer promises: the index reload task replaces the served index
\* only by a strictly newer one, although it compares and swaps under two separate
\* acquisitions of the lock and the formats task may commit between them.
SwapIsUpgrade ==
    [][IndexSwap => BuiltAt[current.index] < BuiltAt[current'.index]]_vars

\* A posted collection survives every swap that keeps the served index: the store
\* is replaced only together with the index.
CollectionsKeptWithIndex ==
    [][current'.index = current.index => current'.store = current.store]_vars

\* The served index never gets older ("publish it only if strictly newer").
IndexMonotone ==
    [][BuiltAt[current.index] <= BuiltAt[current'.index]]_vars

\* A collection whose POST was answered 200 can be queried as long as the index it
\* was built for is the one served.
AckedCollectionQueryable ==
    \A c \in Clients :
        req[c].pc = "acked" /\ req[c].snap.index = current.index
            => Bitmaps(current.store, req[c].coll) # {}

\* The filter of the collection that c's query names is at hand, or has been applied.
Filtering(c) ==
    \/ req[c].pc = "parsed" /\ Bitmaps(req[c].snap.store, req[c].coll) # {}
    \/ req[c].pc = "answered" /\ req[c].filter # NoBuild

\* What a step may do to the filter of c's query: have it when the query is accepted, and
\* lose it only by an expiry of the entry.
KeepsFilter(c) ==
    /\ req[c].pc = "idle" /\ req'[c].pc = "parsed" /\ req'[c].coll # NoCollection
          => Filtering(c)'
    /\ Filtering(c) /\ ~Filtering(c)'
          => \/ req[c].pc = "answered"
             \/ \E e \in Bitmaps(req[c].snap.store, req[c].coll) : Evict(e)

\* A query is accepted with a collection only if its filter is at hand, and between the two
\* lookups only an expiry takes it away: no swap of index or formats, each with its stores,
\* and no POST costs an accepted query its filter.  (What expires is skipped without error.)
OnlyExpiryLosesFilter == [][\A c \in Clients : KeepsFilter(c)]_vars

\* Once publishing stops with version.json naming the archive, the server ends up
\* serving an index at least as new, whatever the two tasks had in flight.
EventuallyServesPublished ==
    \A b \in Builds :
        <>[](archive = b /\ sidecar = BuiltAt[b])
            => <>[](BuiltAt[current.index] >= BuiltAt[b])

\* Once the formats manifest stops changing, the served formats are the ones it
\* lists, even if an index swap put back formats read from an older manifest.
EventuallyServesManifest ==
    \A m \in Manifests : <>[](manifest = m) => <>[](current.formats.versions = m)

\* The two tasks together bring the server up to date, each in spite of the other.
EventuallyCurrent == EventuallyServesPublished /\ EventuallyServesManifest

\* The server seen by its clients: one index with its own filters, only ever
\* replaced by a newer one, and the collections posted since it came into service.
Served == INSTANCE ServedIndex WITH
    served  <- current.index,
    filters <- current.formats.index,
    shelf   <- {e.coll : e \in {x \in entries : x.store = current.store}}

\* Without a formats reload task, every step of the tasks, the handlers and the
\* store looks to the clients like one step of ServedIndex, or like none.
ImplementsServedIndex == Served!ServedSpec

(***************************************************************************)
(* Inductive invariants behind the theorems of HotReloadProofs.            *)
(***************************************************************************)
LiveSnapshots ==
    {current}
    \cup (IF fpc \in {"loading", "swapping"} THEN {fbase} ELSE {})
    \cup {req[c].snap : c \in {d \in Clients : req[d].pc # "idle"}}

\* Every store ever created belongs to one index: the snapshots that share a store
\* agree on the index, and the store's bitmaps were built for it.
StoresOwned ==
    \E owner \in [0 .. (nextStore - 1) -> Builds] :
        /\ \A s \in LiveSnapshots :
              s.store \in 0 .. (nextStore - 1) /\ s.index = owner[s.store]
        /\ \A e \in entries :
              e.store \in 0 .. (nextStore - 1) /\ e.index = owner[e.store]

\* Formats, held by a snapshot or still by a task, belong to the index beside them.
FormatsOwned ==
    /\ \A s \in LiveSnapshots : s.formats.index = s.index
    /\ ipc \in {"checking", "swapping"} => iformats.index = ibuild
    /\ fpc = "swapping" => fformats.index = fbase.index

\* s is an earlier value of AppState.query: of an older index, or the same index
\* with the same store.
Earlier(s) ==
    \/ Newer(current.index, s.index)
    \/ s.index = current.index /\ s.store = current.store

\* Why comparing and swapping under two locks is enough: all that can come between
\* them is a formats commit, which never raises the served index.
VersionsOrdered ==
    /\ ipc = "swapping" => Newer(ibuild, current.index)
    /\ fpc \in {"loading", "swapping"} => Earlier(fbase)

RequestsOwned ==
    \A c \in Clients :
        /\ req[c].pc \in {"posting", "acked"} => req[c].filter = req[c].snap.index
        /\ req[c].pc = "answered" => req[c].filter \in {req[c].snap.index, NoBuild}

ReloadInv == TypeOK /\ StoresOwned /\ FormatsOwned /\ VersionsOrdered /\ RequestsOwned

\* Without eviction: the entries that acknowledged requests rely on stay.
EntriesStay ==
    \A c \in Clients : req[c].pc = "acked" => Bitmaps(req[c].snap.store, req[c].coll) # {}

\* Without a formats task: a request's snapshot is an earlier one of the server.
SnapshotsEarlier ==
    /\ fpc = "idle"
    /\ \A c \in Clients : req[c].pc # "idle" => Earlier(req[c].snap)
==============================================================================
