# Formal model of rust-cards-api

TLA+ models of the card search service (Rust crates `index-core`, `cli-indexer`,
`uniques-http-api` and the React client `demo-ui`), checked with TLC on small
instances and, where it matters most, proved with TLAPS for every instance.
`PROJECT.json` maps every definition to the lines of code it models.

## 1. The system and its parts

`cli-indexer` crawls a tree of card JSON files (one file per *unique* of a *family*
of a *set* and *faction*) and writes an **index directory**: `catalog.json` (which
bit positions each family owns), `cards.bin` (32 bytes per bit position), one roaring
bitmap file per ability part, statistic, faction, and the summaries, with
`manifest.json` last. Index directories are merged into bigger ones. The directory is
packed into `full_index.tar.zst` and uploaded with a small `version.json` beside it.
`uniques-http-api` loads an index into memory, answers card queries by combining
bitmaps, keeps user-posted collections as bitmaps of the same index, and swaps in
newer indexes and newer format definitions while it serves. `demo-ui` is its client.

| Component | State | Operations | Hard behaviour | What makes it correct |
|---|---|---|---|---|
| Served state (`http/state.rs`) | `RwLock<Arc<QuerySnapshot>>`: index, formats, collection store | `snapshot`, `commit`, `commit_if_newer` | check and swap under two locks; two writers; snapshots held across awaits | index, formats and collections of one snapshot belong together; the index never gets older |
| Index reload task (`index/reload*`) | the tick's locals | poll version, compare, load, rebuild formats, commit | a publication, a failure or a formats commit between any two steps | only upgrades; keeps trying; ends up with what is published |
| Formats reload task (`formats/reload.rs`) | the tick's locals | poll manifest, compare, load, commit | commits what it read before an await | ends up with the formats the manifest lists |
| Collections (`collections/*`) | cache id -> bitmap per index | POST, lookup at parse time, lookup at evaluation | eviction between lookups; a POST racing a swap | an acknowledged collection can be queried; an accepted filter is applied unless it expires |
| Object-store source (`index/loader/object_store.rs`) | etag cache, version cache | conditional GET of `version.json`, GET of the archive, digest | two objects that change independently; 304 answers; failures; restarts | the caches agree; what starts is verified; no futile download; published is eventually served |
| Disk source and index directory (`index/reload/disk.rs`, `index/loader.rs`, writers in `merge.rs`, `build.rs`) | the files | write in order, read in order | files replaced while they are read | a loaded index is not a mixture of two builds |
| Archive storage (`index/loader/archive.rs`) | decompressed entries | read entry, list entries | none: one pass over immutable bytes | — |
| Formats loader (`formats/loader.rs`, `build.rs`, `schema.rs`) | — | load every format in parallel, merge by id | failed and duplicate formats; files replaced while they are read | what is ready is what its recorded version names; a failure that was transient is noticed again |
| Catalog (`index-core/catalog.rs`) | open family, next free bit, families | `on_card`, `finalize_current`, lookups | gaps, out-of-order and overlong uniques | spans are disjoint; a card's bit decodes to that card |
| Index build (`build.rs`, `crawl.rs`, `path.rs`, `compact.rs`, `card.rs`) | the bitmaps under construction | crawl, parse, index one card, write outputs | order of the crawl, cards that do not parse | every bit that is set is a card of the catalog |
| Merge (`merge.rs`) | source catalogs, plan | plan, remap, write, overwrite in place | overlapping families, sources of different span, files left from an earlier merge | each source card keeps its identity under the remapped bit |
| Extra filters, audit (`add_extra_filter.rs`, `audit_missing.rs`) | catalog and bitmap files | write bitmap, update catalog | an error between the two writes | a bitmap in the catalog belongs to it |
| Card queries (`index/query/cards.rs`, `http/api/cards/*`) | — | parse, combine bitmaps, page, families | cursors over a changing index, out-of-range positions | pages partition the result; families and totals agree with it |
| Effect options (`http/api/effects/*`) | — | list, filter | an option is judged against what the other boxes leave on a line | an option is offered exactly if choosing it has a card |
| Offline query, bench, CLI (`query.rs`, `bench_query.rs`, `cli.rs`) | — | load, evaluate, print, time | none | same answers as the server |
| demo-ui search (`useCardsQuery.ts`, `useFilteredEffectOptions.ts`, the sentinel of `ResultsPanel.tsx`) | filters, results, cursor, pending requests and timers | debounce, search, load more, ask for options | answers out of order, filters changed while a request or a timer is pending, refs that lag behind a render | the list and the options belong to the filters in the panel; it does not stay loading |
| demo-ui filter panel (`FilterPanel.tsx`, `EffectSlotFields.tsx`, `EffectIdCombobox.tsx`, `buildQuery.ts`, `parseCostInput.ts`) | the filters, text of each box, the box in focus, the catalog of effects | edit, toggle, add and remove slots, type, pick | slots that are empty in between, two modes of picking, suggestions narrowed for a slot by its number | the query says what the panel says; a suggestion leads to a card |
| demo-ui mount queue (`alteredMountQueue.ts`, `AlteredCardSlot.tsx`) | places taken, waiting list, what each slot shows | start, forget, acquire, release | a release hands over synchronously; a forgotten mount goes on | never more mounted than places, nobody waits for ever, a mounted slot has content |
| Configuration (`config.rs`) | — | load, validate | none | — |

Interaction: `main` starts the server, the index reload task and the formats reload
task, which share `AppState`. Handlers take one `Arc<QuerySnapshot>` each. The object
store and the index directory are written by other processes. The client only sees
HTTP replies.

The hazards, each at its line and with the properties that cover it, are in
`PROJECT.json` under `hazards`.

## 2. How the modules fit together

| Module | Models | Extends / used by |
|---|---|---|
| `HotReload` | `AppState`, both reload tasks, the handlers that hold a snapshot | `MCHotReload`, `HotReloadProofs` |
| `ServedIndex` | abstract: what clients are promised about reloading | instantiated by `HotReload` |
| `ObjectStoreIndex` | the object-store source under `main` and the reload task | `MCObjectStoreIndex`, `ObjectStoreIndexProofs` |
| `CatalogEntries` | `catalog.json` as its readers see it: decoding and both lookups | extended by `Catalog`, `Merge` |
| `Catalog` | one set's build: crawl order, `CatalogBuilder`, bits of cards | `MCCatalog`, `CatalogProofs` |
| `Merge` | overlap groups, layout plan, remapped bits, rows of `cards.bin` | `MCMerge`, `MergeProofs` |
| `IndexFiles` | build, merge and loading, file by file, over directories never cleared | `MCIndexFiles`, `IndexFilesProofs` |
| `CardIndex` | what the build records of one card | extends `CatalogEntries` |
| `CardAnswers` | what server and command line answer from an index, and what a request means | extends `CardIndex` |
| `CardQuery` | index, publish, ask, page, ask for options | extends `CardAnswers`; `MCCardQuery`, `CardQueryProofs` |
| `FilterPanel` | the panel of the demo UI over those answers | extends `CardAnswers`; `MCFilterPanel`, `CardQueryProofs` |
| `FormatsLoader` | the formats directory, its deployment and its loads | `MCFormatsLoader`, `FormatsLoaderProofs` |
| `CardsQueryHook` | searching, paging and options of the demo UI | `MCCardsQueryHook`, `DemoUiProofs` |
| `MountQueue` | card slots and the queue of their mounts | `MCMountQueue`, `DemoUiProofs` |

The `MC*` modules only give constants. A `\* Mutant:` definition is a plausible bug of
the definition after it; no specification uses one. `PROJECT.json` lists under `mutants`
the property that catches each.

Two components that interact are modelled together where the interaction is a race, and
apart where one only sees the other's result. `HotReload` sees a source as "the archive
published now" and "the version named now", two variables that change apart;
`ObjectStoreIndex` and `IndexFiles` refine exactly that view and keep of the reload task
only the comparison and the swap; `FormatsLoader` does the same for `manifest.json` and the
files it names. `CardQuery` and `FilterPanel` take a request as one step on one snapshot,
because `HotReload` shows that a request has one snapshot to its end. `FilterPanel` is about
*what* is asked, `CardsQueryHook` about *when*: there a set of filters is a name and an
answer is a set of cards.

### `HotReload`

| Model | Code |
|---|---|
| `current` | `AppState.query`, an `Arc<QuerySnapshot>` (`http/state.rs`) |
| `entries`, `nextStore` | the `CollectionStore`s; clones of a snapshot share one, so a store is a number |
| `ipc`, `iremote`, `ibuild`, `iformats` | `reload_tick` at its awaits, and the locals it keeps |
| `fpc`, `fversions`, `fbase`, `fformats` | `formats_reload_tick`, likewise |
| `req[c]` | one request: `post_collection`, or `get_cards_v2` with its two lookups of the collection |
| `archive`, `sidecar`, `manifest` | what is published (external) |

A step ends where the code releases the lock, awaits, or reads a file that somebody else
writes. So `commit_if_newer` is two steps, `IndexCheck` (read lock) and `IndexSwap` (write
lock), and `formats_reload_tick` is four, with `state.snapshot()` in the second and
`state.commit` in the last. A build is its identity; `BuiltAt` gives its
`built_at_secs`, which two builds may share.

### `ObjectStoreIndex`

`cachedEtag` and `cachedVersion` are the two `Mutex<Option<_>>` of
`ObjectStoreIndexClient`; `sidecars` is the history of `version.json`, and an etag is a
position in it. `BootFetch` .. `BootInstall` are `load_app_state_from_object_store`, and
`Poll` .. `Install` one tick. `Exit` is the end of the process, which loses both caches.
The publisher puts the archive first and `version.json` after it; an upload may be damaged,
and `version.json` may have no digest.

### `CatalogEntries` and `Catalog`

`IndexCard(p)` is one turn of the loop of `build_index`: `on_card`, which closes and opens
families (`Finalized`, `NextStart`, `Opened`), and the record with the bit computed by
`apply_card_index`. `Write` is `finalize_last` with everything after it. Sort keys that
compare equal come in any order, which matters because `04` and `4` compare equal and their
files then interleave. Readers are relations (`Decodes`, `LooksUp`, `Resolves`): an input
related to nothing is an error. The u32 arithmetic is that of a release build (`U32`).

### `Merge`

`Group(s)` is one turn of `build_overlap_groups`, `PlaceSet` the `Mapping::Offset` branch
and `PlaceRow` one family block of the `Mapping::RemapVec` branch of `build_plan`,
`CopyRange` one `copy_range`. `mapping[s]` is what every bitmap of `s` is remapped with.
The sources are catalogs as `Catalog` leaves them (`Built`); TLC has all of them within the
bounds.

### `IndexFiles`

`src` and `out` are the directory of one set and the merged one: for each file, which run
wrote it and from which build. `BuildFile` and `MergeFile` write one file, in the order of
`write_index_outputs` and of `merge_indexes`; `Kill` ends a command anywhere. `ReadFile`
reads one file in the order of `load_uniques_index_from`, `ReadFails` ends a load (at
startup the process), `Install` is `commit_if_newer`. A file that is half written when it
is read is not modelled as content; it is a reason for `ReadFails`, which is possible at
every file while a merge runs.

### `CardIndex`, `CardAnswers` and `CardQuery`

`Indexed(ix, card)` is `apply_card_index`: the bit of a card goes into the bitmaps of its
idGds, per line and whole, of its statistics and its faction, and its 32-byte record is
packed (`Compact`). `CardAnswers` reads those bitmaps as sets of bits. `Status` is what
`parse_request` refuses, in its order; `Groups` and `Answer` are `build_bitmap`; `PageOf`,
`NextCursor` and `FamiliesOf` make the reply; `Offered` is `get_effects_filtered`;
`QueryPerLine`, `QueryWhole` and `QueryRef` are the command line's own code. `Matches` is the
reference: what a request says, read card by card from the parsed JSON and without any
bitmap. `CardQuery` has `Build` (one card), `Publish` (the new index with its formats and
no collections), `PostCollection`, `Search`, `NextPage` and `Options`; a second index may be
published between two pages.

### `FormatsLoader`

`BeginFile` .. `EndManifest` are a deployment: first the format's file, then
`manifest.json`, each unreadable while it is written. `Tick` compares the versions of
`manifest.json` with those recorded; `ReadManifest`, `ReadFile(t, p)` in any order (they run
in parallel) and `Commit` are one load, which the index task starts too (`LoadIndex`). Of a
definition only its version is kept, and whether it is valid.

### `FilterPanel`

`panel` is `FilterState`, with the text of a box as the sequence of what is between its
commas. The actions are the controls; `Pick` has the two modes of `selectItem` (replace the
token being typed, append to what is there). `Listed` is what a box shows of its options: all
of them after it got the focus, and once the user types the first `MaxFiltered` of those that
match the token being typed, an empty one included. `Containing` says which words and numbers
an option has in it. `Query(panel)` is `buildQuery` with
`appendFilterParams`: empty slots are left out, so the slots sent are renumbered, and
`CompactedSlotIndex` renumbers the slot being edited. `catalog` may be of an index that is
no longer served.

### `CardsQueryHook`

`next` is the React state with what has been set, `shown` the state last rendered, which is
what the refs read by `loadMore` hold. `Debounce` is the timer's callback; forgetting a
request is aborting it, since an aborted one changes nothing. `LoadMore` takes the filters of
now (`filtersRef`) and the cursor last rendered. `Narrow` is the effect of
`useFilteredEffectOptions` on a new key, with its cleanup. Answers come in any order and may
fail. `Rendered` is an assumption: a state that was set is rendered before the next answer
comes from the network.

### `MountQueue`

`inFlight`, `waitQueue`, `Acquire` and `Release` are `alteredMountQueue.ts`. A mount is one
call of `withAlteredMountSlot` by the effect of an `AlteredCardSlot`; `current[s]` is the
one that is not cancelled. A cancelled mount still waits for its place and gives it back
(`GoOn`), and `Fill` fills its node even so, in one step: the renderer is vendored
(`altered-card-renderer-minified.js`) and clears and fills a node without an await between.
`EventuallyMounted` reads: a slot that shows a placeholder for ever has its mount started
anew again and again.

## 3. What the runs check

| Run | Shows | Bounds |
|---|---|---|
| `server` | with both tasks, eviction, failures and a client: snapshots and replies never mix two indexes; the index task only upgrades; collections go only with their index; an accepted query loses its collection filter only when the entry expires between its two lookups; the published index and the manifest's formats are served in the end | 3 builds, two with one `built_at_secs`; 2 uploads, 1 manifest write, 1 failed load, 1 request slot |
| `index_only` | without formats task and eviction: the index never gets older, acknowledged collections stay, and the server implements `ServedIndex` | 2 request slots, 3 builds in turn |
| `downgrade` | **violation**: the formats task puts an older index back | 1 upload, 1 manifest write |
| `object_store` | caches agree, startup is verified, downloads are upgrades, the published version is served in the end | 3 builds, 3 uploads, 1 failure, 1 restart |
| `catalog_build` | every card has a slot of its own that decodes to it and is found; no reference is indexed twice; a UniqueID from 1 resolves to its own family | 4 families (two of one number), 3 UniqueIDs, at most 4 files, 6 bits |
| `merge_layout` | every card of every source decodes and is found in the merge, its row is at its bit, and chained sets list a family once | 3 sets, 3 families, 9 bits |
| `index_directory` | a merge that ends has every file of the last build anew, whatever earlier commands left behind; nothing the server reads after the manifest is older than it; the last merge is served in the end | 2 builds of one set, 3 commands or kills, 1 restart |
| `card_query` | the bitmaps select the cards a request describes; pages partition the answer and end, even over a swap; families count it; options are offered exactly if they lead to a card; command line and server agree | 2 indexes of 5 and 2 positions (with gaps, a family in two sets, cards with repeated and unknown ids), some 80 requests |
| `formats` | a ready format is the recorded version; between deployments nothing valid is left failed; the deployed version is ready in the end | 4 entries (one not valid, two of one id), 2 deployments, 1 index load |
| `demo_ui_search` | outside the debounce window list and answers to come are of the panel's filters; options are of the box and filters of now; searching settles | 5 filters (two that page, by family, by reference, not valid), 3 edits or moves of the focus, pages of 1 |
| `mount_queue` | never more mounts than places, nobody waits beside a free place; a mounted slot has content; who stays in view is mounted or fails | 2 slots, 5 mounts, 2 places: up to 3 wait |
| `filter_panel` | the query selects what the panel says; what is suggested leads to cards, and an empty box suggests all that does, up to the length of a list while typing | 3 slots, 2 things filled in, 2 indexes, lists of 1 while typing |

Why the bounds are enough. The interesting cases of `HotReload` need one upload while the
index task loads, one while the formats task holds its snapshot, and two builds that are
not newer than each other; a third upload repeats the first. In `ObjectStoreIndex` a
history of `version.json` with three entries has an etag that is current, one that is
stale and one in between. A family in `Catalog` interacts only with the one before it and
with those that share its number. Three sets are the fewest of which two share a family
across a third. In `IndexFiles` a restart resets all of the server's state, so a second
one adds nothing; every further command only overwrites as the ones before did. The two
datasets of `CardQuery` have what its bitmaps can confuse: one idGd on several lines, of
two kinds on one line, a statistic given twice, a position without a card, a family in two
sets, a card without a known faction; its requests use every filter alone and the ones that
share code together. In `FormatsLoader` one deployment can meet a load at each of its four
points and the second one the load that follows. In `CardsQueryHook` two edits are needed
to leave and come back to filters while an answer is under way, and a third to do so
with the focus. In `MountQueue` three mounts may wait at once, so that a card in view is
behind cancelled mounts, its own and the other slot's, and others come behind it; in which
order they get their places then matters, and `NobodyIsOvertaken` says it for any number. In `FilterPanel` two things filled in are enough for two active
slots, or an active slot and a restriction, with empty slots on either side; a list of 1
(`MAX_FILTERED_SUGGESTIONS` is 40) leaves something out as soon as two options match. For the
properties that are proved, the bounds do not matter at all.

**Fairness.** `HotReload` assumes weak fairness of each task, `FormatsLoader` of the
formats task, `ObjectStoreIndex` and `IndexFiles` of the server: tokio's interval keeps
firing, an error ends a tick and never the loop (`reload.rs`, `formats/reload.rs`), and a
process that exits is started again by its supervisor (only `ObjectStoreIndex` relies on
that last point). `CardQuery` assumes that a client that pages goes on. `CardsQueryHook`
assumes that timers expire, that React renders and that a request ends in an answer or an
error; `MountQueue`, that the promises of a mount settle. Nothing is assumed of publishers,
of whoever deploys formats, of the commands that build and merge, of operators, of users
or eviction. The liveness properties therefore begin with what has to stop: publishing,
rewriting the manifest, merging, editing, scrolling away.

**Deadlock** is checked for the server, the object store and the mount queue, which never
stop. The other runs turn it off: builds and merges end, a server of `IndexFiles` that is
down with its restarts used up stays down, a client has had its answer, formats are all
deployed, and a panel or search on which the bound of edits is used up has nothing left to
do.

## 4. What is proved

TLAPS proves these for every value of the constants, without the bounds of the runs.

* `HotReloadProofs`. `ReloadInvariant` is the inductive `ReloadInv`: types; every store
  belongs to one index (`StoresOwned`, with the owners as a witness function, because the
  number of a store does not tell); formats belong to the index beside them, also those a
  task still holds (`FormatsOwned`); what a task holds is ordered with what is served
  (`VersionsOrdered`). From it follow `SnapshotCoherent`, `ReplyCoherent`,
  `CollectionsKeptWithIndex` and `SwapIsUpgrade`. The last is why two separate locks in
  `commit_if_newer` do no harm: only a formats commit can come between them, and it never
  raises the version (`Earlier`). Under `~FormatsReload`, `IndexMonotone` and the
  refinement of `ServedIndex`; with `~Eviction` as well, `AckedCollectionQueryable`. These
  hypotheses are needed: `downgrade` is the counterexample without the first, an entry that
  expires after its POST the one without the second. `OnlyExpiryLosesFilter` needs neither: an
  entry leaves a store by expiry or for another under its id (`EntriesKept`), and a query
  looks in the store it was accepted with. (`server` has one request slot, so POSTs beside the
  query are in the theorem only.)
* `ObjectStoreIndexProofs`. `SourceInv` says that versions are published in order and
  never before their archive, and that a load in progress brings something newer; then
  `CachesAgree`, `BootVerified`, `NoFutileDownload`. It assumes that the publisher uploads
  builds in the order they were made.
* `CatalogProofs`. `CatalogInv` says that entries are disjoint and in order, each with the
  bits it owns, and that every card lies in the entry of its family; then `SlotsDistinct`
  and `CardsDecode` for any families, gaps and ties. For families with a number of their
  own (`OwnNumber`) `RankedInv` adds that a family has one entry, from which
  `CardsResolve`, `CardsFound` and `DuplicatesRejected` follow. `ResolvedFaithful` is proved
  for UniqueIDs from 1 (see 0 below). `CatalogTiles`: a written catalog fills its span,
  family after family (`Tiles`), with each card on a bit of its own of some family.
* `MergeProofs`. `MergeInv` judges what has been laid out by ranges of the sources: a set of
  its own group, or one family of another set. A range that has a place has it for itself
  and below `next`, the remap sends each of its bits there (`Regions`), and the merged catalog
  has its families there in order (`Listed`); a copied range stays as it was copied
  (`Copies`). That much gives `SourcesDecode` and `RowsFollowBits`. `ListedOnceIfChained`
  needs more: a family that has been begun in a group has the turn until all its blocks are
  placed (`FamilyTurn`), so its entries are `Neighbours`; and between two sets of different
  groups lies one that shares nothing with those before it (`Breaks`), so chained sets are in
  one group. `Breaks` is itself kept by every step, so no induction over the order of
  `--sets` is needed. For any built sources, in any order, also when the bit space runs out.
  `MergeTiles`: if every source fills its span, so does the merged catalog, at every step.
* `IndexFilesProofs`. `FilesInv` says that a build or merge that has come to the n-th file
  has written those before it from one source; that files of the merged directory only get
  newer, `idgd_catalog` and `cards.bin` never fall behind the manifest, nor a listed bitmap
  behind `idgd_catalog`; and the same of what a load has read, against the directory as it
  is *now*. It is needed because no property of the directory says what a half-finished
  command or a half-finished load may hold. Then `FinishedIsFresh` and
  `NothingOlderThanManifest`, for any histories of builds and any commands killed anywhere.
* `FormatsLoaderProofs`. `FormatsInv` judges what a load has read of a format, and what is
  served, against `manifest.json` as it is now (`OutcomeSound`): it is what its entry named,
  or it failed although nothing is wrong with the format, and then the entry is an older one
  or the format's deployment is still under way. No later step can make that untrue, and
  `Commit` hands it from the load to what is served. Then `ReadyIsRecorded` and
  `NoLostRetry`, for any formats with ids shared or not.
* `DemoUiProofs`. `MountInv` says that `inFlight` counts the mounts that hold a place and
  that the queue is exactly those that wait, which `Acquire`, `Release` and going on each
  keep; and that a mount that has drawn is of a filled node. Then `QueueSound` and
  `MountedIsFilled`, for any slots, mounts and places; and `NobodyIsOvertaken`: who waits keeps
  its place in the queue until the first of all is let in, and then moves up by one, which is
  why cancelled mounts in front, as many as there are, delay a card but do not starve it.
  Of the search: the debounce timer
  holds the filters of now or none, and expiring it aborts what was asked for others; so
  `ListIsOfFilters`. The cleanup of the effect leaves at most one key, that of now; so
  `OptionsAreOfKey`. Both for any filters, answers and page size.
* `CardQueryProofs`, of `CardQuery` and `FilterPanel`. What an answer is depends on a whole
  build, so the argument has more layers than steps:
  - `Recorded`: after n cards each store is the union of what each of the n cards puts into
    it. Each filter of a request, looked up in the finished stores, is therefore the filter
    read card by card, and intersecting the bitmaps is the answer (`AnswerReads`,
    `AnswerIsReadingHolds`). The layout of 32-byte records, the bucket bounds of the
    statistics, the lines and the references of formats and collections are all in this.
  - Positions are listed by rank, and what comes after a cursor is the rest of the list
    (`PageContinues`); the groups of adjoining rows of a family share no position. With `Inv`,
    which says that what is served is the snapshot of some whole dataset and that what a
    client was told by it is what it still says, follow `PagesPartition`,
    `FamiliesCountAnswer`, `OptionsLead` and `ToolsAgree`.
  - `PanelInv` says what every sequence of edits leaves: slots, texts and costs that are well
    formed, a focus in a box that exists, catalogs of indexes that were served. Slots that are
    active are renumbered by rank and none is lost or doubled (`SlotsRenumbered`), so the
    panel's query is one the server takes (`QueryTaken`) and selects what the panel says of a
    card (`PanelMatches`): `AnswerIsPanel`. The slot being edited is told as itself, or as one
    after all others (`EditedAbility`), so what the server judges an option by is what is left
    when its box is filled (`FilledAnswer`): `PickLeads`, for both ways an id gets into a
    text. A list that is cut off while typing has its full length, and what it leaves out
    comes after all of it (`FirstMembers`), for any `MaxFiltered`.

  The theorems hold for any datasets that satisfy `IsDataset` (families that fill the span
  in order, `Tiles`, and each card on a bit of its own of some family), which `CatalogTiles`
  and `MergeTiles` show of what a build and a merge write; and for any formats, collections,
  requests within the types of `RequestsAssumption`, any panel texts and any sequence of
  edits. Two of them say when they speak: `FamiliesCountAnswer` of catalogs where no family
  has rows in two places (`Together`; a merge keeps that for chained sets, `MergeProofs`), and
  `ToolsAgree` of references that only one row of the catalog matches.

Types are part of each of these invariants. Assumptions are the named `ASSUME`s of the
modules and nothing else; TLC evaluates them in every run.

Facts about a whole sequence of cards or slots are shown for its first k elements, k by k:
`StepByStep` in `CardQueryProofs` gets that from the well-foundedness of the natural
numbers, as the induction theorems of the library take an operator, which no backend can
instantiate.

**Model-checked only**: the seven liveness properties (`EventuallyCurrent`,
`EventuallyServesPublished`, `EventuallyServesMerge`, `PagingEnds`, `EventuallyReady`,
`Settles`, `EventuallyMounted`): they need ENABLED, which TLAPS does not reason about. Every
safety invariant and action property of the passing runs is a theorem.

## 5. Where code and documents disagree

One disagreement has a run of its own, with TLC's counterexample, and is listed in
`PROJECT.json` under `findings`:

* `downgrade`: `formats_reload_tick` commits the index it read before its await, without
  comparing versions. A newer index is replaced by the older one until the next tick of
  the index task, and its collections are gone for good.

The others were met while modelling. The properties above are stated so that they hold of
the code as it is; the places where that takes an exception are named here.

0. UniqueID 0: `resolve` and `lookup_bit` check a UniqueID only from above
   (`loader.rs:200`), so 0 resolves to the last card of the family before
   (`docs/api-spec.md:245`: the bit is `start + uid - 1`). `ResolvedFaithful` begins at 1.
1. Evicted collections: `build_bitmap` (`cards.rs:140`) skips the collection filter when its
   own lookup misses, so a query accepted with a collection is answered without it
   (`plans/18-collections.md:224` wants an empty result or an error). Stores are always bounded,
   so this can happen; `OnlyExpiryLosesFilter` says that nothing but an expiry at that moment
   brings it about, no swap and no POST; it allows the skip itself.
2. Damaged archives: a tick's second `fetch_version` is answered 304 and so has no digest;
   `fetch_archive_bytes` (`object_store.rs:123`) then checks nothing, although
   `version.json` has one (`plans/16`:209). Such an archive, if it decodes, stays served
   until a newer version appears. `BootVerified` is about startup only.
3. Merge order: `build_overlap_groups` (`merge.rs:326`) compares only with the group being
   filled, so the result depends on the order of `--sets` (`plans/04-merge-indexes.md:9`).
   `ListedOnceIfChained` is about sets in an order that works.
4. Bitmaps left behind: neither build nor merge removes files of an earlier run
   (`merge.rs:791`, against `plans/04:319`): a set that lost its last card with an idGd on a
   line keeps that bitmap, and the next merge reads it. `FinishedIsFresh` is about the
   bitmaps that have cards.
5. Positions without a card: without a filter on what is on the cards, `total` and the pages
   include positions that no card has (`cards.rs:159`; `docs/api-spec.md:126` counts cards).
   `AnswerIsReading` says which filters exclude them.
6. Ids of formats listed twice: `plans/17-format-filters.md` says "first successful entry
   wins"; `merge_loaded_results` (`formats/loader.rs:124`) marks the id failed.
7. `matchCount` above 1: `effects/filtered` ignores it (`effects/handlers.rs:90`;
   `docs/api-spec.md:377`), so an option may be offered that leads to no card.
   `OptionsLead` and `PickLeads` are about a count of 1.
8. Two bounds on one cost: only the first of `gt`, `gte`, `lt`, `lte` counts
   (`parse.rs:469`). `Matches` is only asked of requests with one.
9. Suggestions of an empty slot: `compactedSlotIndex` (`buildQuery.ts:22`) is said to match
   "the renumbering done in `appendFilterParams`", but an empty slot has no number there,
   and is given that of the next active slot. The server then strips that slot's own ability
   from the query and judges the options by its boxes, so what is suggested may lead to no
   card. TLC finds it in `filter_panel` at once if the exemption `EditsAnother` is taken out
   of `PickLeads`.
10. A gap in the list: between the debounce timer's `setState` and its render the sentinel may
   call `loadMore` with the new filters and the old cursor. Its request is newer than the
   search, so the search does not abort it, and its page follows the first page of the new
   list without what is between. For the same reason a page of new filters may follow an old
   list inside the debounce window. `ListIsOfFilters` does not say that a list is gapless.
11. A cancelled mount may fill a node after it was cleared (`AlteredCardSlot.tsx`, against
   `plans/06`:69); the next mount of the slot clears it again. `MountedIsFilled` is about
   the slots that are shown as mounted.

## 6. What is not modelled, and why

* The catalog in `NothingOlderThanManifest`. `load_uniques_index_from` reads `catalog.json`
  before `manifest.json`. A whole merge between the two leaves an old catalog under the
  new version, and no later poll replaces it. The property leaves the catalog out for that
  reason; the length check of `cards.bin` catches the case only if the span changed.
* Extra filters and the audit. `add_extra_filter` writes a bitmap and then
  `extra_catalog.json`; nothing else reads either, so nothing modelled could go wrong by it.
* Archive storage: one pass over bytes that do not change.
* Configuration: read once at startup. What it decides is a constant of `HotReload`.
* The views of the demo UI beyond the panel, the hooks and the card slots: they hold no state.
  The field for a single reference bypasses the panel's query; keyboard movement in a list
  of suggestions changes nothing else.
* Reload from an archive on disk: with `index.source = archive`, `main` still creates a
  `DiskIndexSource`, whose `read_version` looks for `manifest.json` under the path of the
  `.tar.zst` and fails at every tick. There is no state to model.
* Stores whose answers carry no etag: `fetch_version` then always reads the whole of
  `version.json`.
* `ServedIndex` has `Forget`, but the run that checks the refinement has no eviction; the
  proof covers it.
* `Merge` takes sources written by `build`. A source that is itself a merge can have one
  family in several rows, of which `build_plan` keeps the last; it is among the hazards.
* `IndexFiles` has merges that end in different seconds. Two that end in the same second
  have one version, and a server that loaded the first never loads the second.
* A card's JSON beyond what is indexed: translations, names, recap texts, and the counts of the
  summaries. The benchmark's workload.
* Text: the wording of errors, JSON layout, logs, progress and timing.

## 7. Plan

Done, in this order: `HotReload`, `ServedIndex`, `HotReloadProofs`; `ObjectStoreIndex` and
its proofs; `CatalogEntries`, `Catalog` and `CatalogProofs`; `Merge`; `IndexFiles`;
`CardIndex`, `CardAnswers`, `CardQuery`; `FormatsLoader`; `CardsQueryHook`, `MountQueue` and
`DemoUiProofs`; `FilterPanel`; `FormatsLoaderProofs`, `IndexFilesProofs` and `MergeProofs`;
`CardQueryProofs`, for `CardQuery` and then for `FilterPanel`.

What could follow: the part of `PickLeads` for abilities combined by "or", where an option
that is left out may still have cards because of the other abilities; the composition of
`FilterPanel` with `CardsQueryHook`, so that a suggestion may be picked from the answer for
another key; and `ExtraFilter`, if anything comes to read extra filters.
