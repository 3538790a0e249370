--------------------------- MODULE HotReloadProofs ---------------------------
(***************************************************************************)
(* Proofs about HotReload, for every set of builds, manifests, clients and *)
(* collections, and every bound.                                           *)
(***************************************************************************)
EXTENDS HotReload, TLAPS

\* Init establishes the types.
LEMMA InitTypeOK == Init => TypeOK
  <1> SUFFICES ASSUME Init PROVE TypeOK
    OBVIOUS
  <1>1. LoadFormats(archive) \in FormatIndex
    BY ManifestsAssumption DEF Init, LoadFormats, FormatIndex
  <1>2. current \in Snapshot
    BY <1>1 DEF Init, Snapshot
  <1>3. req \in [Clients -> RequestState]
    BY DEF Init, RequestState, Idle
  <1> QED
    BY <1>2, <1>3, BuildsAssumption, ManifestsAssumption DEF Init, TypeOK, NoFormats

\* A client's request record, by the state it is in.
LEMMA RequestFields ==
  ASSUME NEW r \in RequestState
  PROVE  /\ r.pc # "idle" => r.snap \in Snapshot
         /\ r.pc \in {"posting", "acked"} => r.coll \in Collections /\ r.filter \in Builds
         /\ r.pc \in {"parsed", "answered"} =>
               r.coll \in Collections \cup {NoCollection} /\ r.filter \in Builds \cup {NoBuild}
  BY DEF RequestState

\* Every step keeps the types.
LEMMA StepTypeOK == TypeOK /\ [Next]_vars => TypeOK'
  <1> SUFFICES ASSUME TypeOK, [Next]_vars PROVE TypeOK'
    OBVIOUS
  <1> USE BuildsAssumption, ManifestsAssumption, ClientsAssumption, SettingsAssumption
  <1>a. ASSUME NEW b \in Builds PROVE LoadFormats(b) \in FormatIndex
    BY DEF TypeOK, LoadFormats, FormatIndex
  <1>1. ASSUME NEW b \in Builds, PublishArchive(b) PROVE TypeOK'
    BY <1>1 DEF TypeOK, PublishArchive, storeVars, indexTask, formatsTask
  <1>2. CASE PublishSidecar
    BY <1>2 DEF TypeOK, PublishSidecar, storeVars, indexTask, formatsTask
  <1>3. ASSUME NEW m \in Manifests \cup {Unreadable}, WriteManifest(m) PROVE TypeOK'
    BY <1>3 DEF TypeOK, WriteManifest, storeVars, indexTask, formatsTask
  <1>4. CASE IndexPoll
    BY <1>4 DEF TypeOK, IndexPoll, sourceVars, storeVars, formatsTask
  <1>5. CASE IndexCompare
    BY <1>5 DEF TypeOK, IndexCompare, sourceVars, storeVars, formatsTask
  <1>6. CASE IndexLoad
    BY <1>6 DEF TypeOK, IndexLoad, sourceVars, storeVars, formatsTask
  <1>7. CASE IndexLoadFails
    BY <1>7 DEF TypeOK, IndexLoadFails, sourceVars, storeVars, formatsTask
  <1>8. CASE IndexRebuildFormats
    BY <1>8, <1>a DEF TypeOK, IndexRebuildFormats, sourceVars, storeVars, formatsTask
  <1>9. CASE IndexCheck
    BY <1>9 DEF TypeOK, IndexCheck, NoFormats, sourceVars, storeVars, formatsTask
  <1>10. CASE IndexSwap
    BY <1>10 DEF TypeOK, IndexSwap, NoFormats, Snapshot, sourceVars, storeVars, formatsTask
  <1>11. CASE FormatsPoll
    BY <1>11 DEF TypeOK, FormatsPoll, sourceVars, storeVars, indexTask
  <1>12. CASE FormatsCompare
    BY <1>12 DEF TypeOK, FormatsCompare, sourceVars, storeVars, indexTask
  <1>13. CASE FormatsLoad
    BY <1>13, <1>a DEF TypeOK, FormatsLoad, Snapshot, sourceVars, storeVars, indexTask
  <1>14. CASE FormatsSwap
    BY <1>14 DEF TypeOK, FormatsSwap, NoFormats, Snapshot, sourceVars, storeVars, indexTask
  <1>15. ASSUME NEW c \in Clients, NEW id \in Collections, PostBegin(c, id) PROVE TypeOK'
    BY <1>15 DEF TypeOK, PostBegin, RequestState, Snapshot, sourceVars, storeVars, indexTask, formatsTask
  <1>16. ASSUME NEW c \in Clients, PostInsert(c) PROVE TypeOK'
    BY <1>16 DEF TypeOK, PostInsert, Bitmaps, RequestState, Snapshot, Entry, sourceVars, indexTask, formatsTask
  <1>17. ASSUME NEW c \in Clients, NEW id \in Collections \cup {NoCollection}, QueryParse(c, id)
         PROVE TypeOK'
    BY <1>17 DEF TypeOK, QueryParse, RequestState, sourceVars, storeVars, indexTask, formatsTask
  <1>18. ASSUME NEW c \in Clients, QueryBuild(c) PROVE TypeOK'
    BY <1>18 DEF TypeOK, QueryBuild, Bitmaps, RequestState, Entry, sourceVars, storeVars, indexTask, formatsTask
  <1>19. ASSUME NEW c \in Clients, Finish(c) PROVE TypeOK'
    BY <1>19 DEF TypeOK, Finish, Idle, RequestState, sourceVars, storeVars, indexTask, formatsTask
  <1>20. ASSUME NEW e \in entries, Evict(e) PROVE TypeOK'
    BY <1>20 DEF TypeOK, Evict, sourceVars, indexTask, formatsTask
  <1>21. CASE UNCHANGED vars
    BY <1>21 DEF TypeOK, vars, sourceVars, storeVars, indexTask, formatsTask
  <1> QED
    BY <1>1, <1>2, <1>3, <1>4, <1>5, <1>6, <1>7, <1>8, <1>9, <1>10, <1>11, <1>12, <1>13,
       <1>14, <1>15, <1>16, <1>17, <1>18, <1>19, <1>20, <1>21
    DEF Next, Publisher, IndexTask, FormatsTask, Request

\* The type invariant of the server's state and of its tasks' locals.
THEOREM TypeCorrect == Spec => []TypeOK
  BY InitTypeOK, StepTypeOK, PTL DEF Spec

-------------------------------------------------------------------------------
(***************************************************************************)
(* Snapshots in use.  Only a swap of the index creates a store; every      *)
(* other step hands on snapshots whose index and store are already in use. *)
(***************************************************************************)

\* A request in progress after the step works on the served snapshot or on the one
\* it had before.
SnapshotKept(d) ==
    req'[d].pc # "idle" =>
        \/ req'[d].snap = current
        \/ req[d].pc # "idle" /\ req'[d].snap = req[d].snap

\* No handler step changes the snapshot a request works on, except taking one.
LEMMA RequestSnapshots ==
  ASSUME TypeOK, NEW c \in Clients, Request(c)
  PROVE  \A d \in Clients : SnapshotKept(d)
  <1> USE DEF SnapshotKept
  <1>1. \A d \in Clients : d # c => req'[d] = req[d]
    BY DEF TypeOK, Request, PostBegin, PostInsert, QueryParse, QueryBuild, Finish
  <1>2. req[c] \in RequestState
    BY DEF TypeOK
  <1>3. ASSUME NEW id, PostBegin(c, id) \/ QueryParse(c, id) PROVE req'[c].snap = current
    BY <1>3 DEF TypeOK, PostBegin, QueryParse
  <1>4. CASE PostInsert(c)
    BY <1>1, <1>2, <1>4 DEF TypeOK, PostInsert, RequestState
  <1>5. CASE QueryBuild(c)
    BY <1>1, <1>2, <1>5 DEF TypeOK, QueryBuild, RequestState
  <1>6. CASE Finish(c)
    BY <1>1, <1>6 DEF TypeOK, Finish, Idle
  <1> QED
    BY <1>1, <1>3, <1>4, <1>5, <1>6 DEF Request

\* After any step but an index swap, each live snapshot has the index and the
\* store of one that was live before it.
LEMMA LiveSnapshotsKept ==
  ASSUME TypeOK, [Next]_vars, ~IndexSwap
  PROVE  /\ nextStore' = nextStore
         /\ \A s \in LiveSnapshots' :
              \E t \in LiveSnapshots : t.index = s.index /\ t.store = s.store
  <1> DEFINE P == /\ nextStore' = nextStore
                  /\ \A s \in LiveSnapshots' :
                       \E t \in LiveSnapshots : t.index = s.index /\ t.store = s.store
  <1> USE DEF LiveSnapshots
  <1>1. CASE Publisher \/ UNCHANGED vars
    BY <1>1 DEF Publisher, PublishArchive, PublishSidecar, WriteManifest, vars,
                storeVars, formatsTask
  <1>2. CASE IndexTask
    BY <1>2 DEF IndexTask, IndexPoll, IndexCompare, IndexLoad, IndexLoadFails,
                IndexRebuildFormats, IndexCheck, storeVars, formatsTask
  <1>3. CASE FormatsPoll \/ FormatsCompare \/ FormatsLoad
    BY <1>3 DEF FormatsPoll, FormatsCompare, FormatsLoad, storeVars
  <1>4. CASE FormatsSwap
    BY <1>4 DEF FormatsSwap, storeVars
  <1>5. ASSUME NEW c \in Clients, Request(c) PROVE P
    <2>1. \A d \in Clients : SnapshotKept(d)
      BY <1>5, RequestSnapshots
    <2>2. UNCHANGED <<current, nextStore, fpc, fbase>>
      BY <1>5 DEF Request, PostBegin, PostInsert, QueryParse, QueryBuild, Finish,
                  storeVars, formatsTask
    <2> QED
      BY <2>1, <2>2 DEF SnapshotKept
  <1>6. ASSUME NEW e \in entries, Evict(e) PROVE P
    BY <1>6 DEF Evict, formatsTask
  <1> QED
    BY <1>1, <1>2, <1>3, <1>4, <1>5, <1>6 DEF Next, FormatsTask

\* Stores keep the index they were created for.
LEMMA StepStoresOwned == ReloadInv /\ [Next]_vars => StoresOwned'
  <1> SUFFICES ASSUME ReloadInv, [Next]_vars PROVE StoresOwned'
    OBVIOUS
  <1> DEFINE Owns(o) ==
        /\ \A s \in LiveSnapshots : s.store \in 0 .. (nextStore - 1) /\ s.index = o[s.store]
        /\ \A e \in entries : e.store \in 0 .. (nextStore - 1) /\ e.index = o[e.store]
  <1>1. PICK owner \in [0 .. (nextStore - 1) -> Builds] : Owns(owner)
    BY DEF ReloadInv, StoresOwned
  <1>2. CASE IndexSwap
    <2> DEFINE owner2 == [n \in 0 .. nextStore |-> IF n = nextStore THEN ibuild ELSE owner[n]]
    <2>1. nextStore \in Nat /\ nextStore' = nextStore + 1 /\ nextStore' - 1 = nextStore
      BY <1>2 DEF IndexSwap, ReloadInv, TypeOK
    <2>2. owner2 \in [0 .. (nextStore' - 1) -> Builds]
      BY <1>1, <1>2, <2>1 DEF IndexSwap, ReloadInv, TypeOK
    <2>3. \A n \in 0 .. (nextStore - 1) : n \in 0 .. nextStore /\ owner2[n] = owner[n]
      BY <2>1
    <2>4. LiveSnapshots' \subseteq LiveSnapshots \cup {current'}
      BY <1>2 DEF IndexSwap, LiveSnapshots, formatsTask
    <2>5. current'.store = nextStore /\ current'.index = owner2[nextStore]
      BY <1>2, <2>1 DEF IndexSwap
    <2>6. \A s \in LiveSnapshots' : s.store \in 0 .. nextStore /\ s.index = owner2[s.store]
      <3> HIDE DEF owner2
      <3> QED BY <1>1, <2>1, <2>3, <2>4, <2>5
    <2>7. \A e \in entries' : e.store \in 0 .. nextStore /\ e.index = owner2[e.store]
      <3> HIDE DEF owner2
      <3> QED BY <1>1, <1>2, <2>3 DEF IndexSwap
    <2> QED
      BY <2>1, <2>2, <2>6, <2>7 DEF StoresOwned
  <1>3. CASE ~IndexSwap
    <2>1. /\ nextStore' = nextStore
          /\ \A s \in LiveSnapshots' :
               \E t \in LiveSnapshots : t.index = s.index /\ t.store = s.store
      BY <1>3, LiveSnapshotsKept DEF ReloadInv
    <2>2. \A s \in LiveSnapshots' : s.store \in 0 .. (nextStore - 1) /\ s.index = owner[s.store]
      BY <1>1, <2>1
    <2>3. \A e \in entries' : e.store \in 0 .. (nextStore - 1) /\ e.index = owner[e.store]
      <3>1. ASSUME NEW c \in Clients, PostInsert(c)
            PROVE  \A e \in entries' : e \in entries \/
                      (e.store = req[c].snap.store /\ e.index = req[c].snap.index)
        BY <3>1 DEF PostInsert, Bitmaps, ReloadInv, RequestsOwned
      <3>2. ASSUME NEW c \in Clients, PostInsert(c) PROVE req[c].snap \in LiveSnapshots
        BY <3>2 DEF PostInsert, LiveSnapshots
      <3>3. \/ entries' \subseteq entries
            \/ \E c \in Clients : PostInsert(c)
        <4>1. CASE Publisher \/ UNCHANGED vars
          BY <4>1 DEF Publisher, PublishArchive, PublishSidecar, WriteManifest, vars, storeVars
        <4>2. CASE IndexTask
          BY <4>2, <1>3 DEF IndexTask, IndexPoll, IndexCompare, IndexLoad, IndexLoadFails,
                IndexRebuildFormats, IndexCheck, storeVars
        <4>3. CASE FormatsTask
          BY <4>3 DEF FormatsTask, FormatsPoll, FormatsCompare, FormatsLoad, FormatsSwap, storeVars
        <4>4. ASSUME NEW c \in Clients, Request(c)
              PROVE entries' \subseteq entries \/ PostInsert(c)
          BY <4>4 DEF Request, PostBegin, QueryParse, QueryBuild, Finish, storeVars
        <4>5. ASSUME NEW e \in entries, Evict(e) PROVE entries' \subseteq entries
          BY <4>5 DEF Evict
        <4> QED
          BY <4>1, <4>2, <4>3, <4>4, <4>5 DEF Next
      <3> QED
        BY <1>1, <3>1, <3>2, <3>3
    <2> QED
      BY <1>1, <2>1, <2>2, <2>3 DEF StoresOwned
  <1> QED
    BY <1>2, <1>3

\* Formats stay with the index they were computed for.
LEMMA StepFormatsOwned == ReloadInv /\ [Next]_vars => FormatsOwned'
  <1> SUFFICES ASSUME ReloadInv, [Next]_vars PROVE FormatsOwned'
    OBVIOUS
  <1> USE DEF ReloadInv, FormatsOwned, LiveSnapshots
  <1>1. CASE Publisher \/ UNCHANGED vars
    BY <1>1 DEF Publisher, PublishArchive, PublishSidecar, WriteManifest, vars,
                indexTask, formatsTask
  <1>2. CASE IndexPoll \/ IndexCompare \/ IndexLoad \/ IndexLoadFails \/ IndexCheck
    BY <1>2 DEF IndexPoll, IndexCompare, IndexLoad, IndexLoadFails, IndexCheck, formatsTask
  <1>3. CASE IndexRebuildFormats
    BY <1>3 DEF IndexRebuildFormats, LoadFormats, formatsTask
  <1>4. CASE IndexSwap
    BY <1>4 DEF IndexSwap, formatsTask
  <1>5. CASE FormatsPoll \/ FormatsCompare
    BY <1>5 DEF FormatsPoll, FormatsCompare, indexTask
  <1>6. CASE FormatsLoad
    BY <1>6 DEF FormatsLoad, LoadFormats, indexTask
  <1>7. CASE FormatsSwap
    BY <1>7 DEF FormatsSwap, indexTask
  <1>8. ASSUME NEW c \in Clients, Request(c) PROVE FormatsOwned'
    <2>1. \A d \in Clients : SnapshotKept(d)
      BY <1>8, RequestSnapshots
    <2>2. UNCHANGED <<current, indexTask, formatsTask>>
      BY <1>8 DEF Request, PostBegin, PostInsert, QueryParse, QueryBuild, Finish
    <2> QED
      BY <2>1, <2>2 DEF SnapshotKept, indexTask, formatsTask
  <1>9. ASSUME NEW e \in entries, Evict(e) PROVE FormatsOwned'
    BY <1>9 DEF Evict, indexTask, formatsTask
  <1> QED
    BY <1>1, <1>2, <1>3, <1>4, <1>5, <1>6, <1>7, <1>8, <1>9 DEF Next, IndexTask, FormatsTask

\* Nothing that happens between the comparison and the swap of commit_if_newer
\* makes the index about to be installed an older one.
LEMMA StepVersionsOrdered == ReloadInv /\ [Next]_vars => VersionsOrdered'
  <1> SUFFICES ASSUME ReloadInv, [Next]_vars PROVE VersionsOrdered'
    OBVIOUS
  <1> USE BuildsAssumption DEF ReloadInv, VersionsOrdered, Earlier, Newer, TypeOK
  <1>1. CASE Publisher \/ UNCHANGED vars
    BY <1>1 DEF Publisher, PublishArchive, PublishSidecar, WriteManifest, vars,
                indexTask, formatsTask
  <1>2. CASE IndexTask /\ ~IndexSwap
    BY <1>2 DEF IndexTask, IndexPoll, IndexCompare, IndexLoad, IndexLoadFails,
                IndexRebuildFormats, IndexCheck, formatsTask
  <1>3. CASE IndexSwap
    BY <1>3 DEF IndexSwap, Snapshot, formatsTask
  <1>4. CASE FormatsPoll \/ FormatsCompare \/ FormatsLoad
    BY <1>4 DEF FormatsPoll, FormatsCompare, FormatsLoad, indexTask
  <1>5. CASE FormatsSwap
    BY <1>5 DEF FormatsSwap, Snapshot, indexTask
  <1>6. ASSUME NEW c \in Clients, Request(c) PROVE VersionsOrdered'
    BY <1>6 DEF Request, PostBegin, PostInsert, QueryParse, QueryBuild, Finish,
                indexTask, formatsTask
  <1>7. ASSUME NEW e \in entries, Evict(e) PROVE VersionsOrdered'
    BY <1>7 DEF Evict, indexTask, formatsTask
  <1> QED
    BY <1>1, <1>2, <1>3, <1>4, <1>5, <1>6, <1>7 DEF Next, IndexTask, FormatsTask

\* The bitmap a request holds was built for its snapshot's index.
LEMMA StepRequestsOwned == ReloadInv /\ [Next]_vars => RequestsOwned'
  <1> SUFFICES ASSUME ReloadInv, [Next]_vars, NEW d \in Clients
               PROVE  /\ req'[d].pc \in {"posting", "acked"} => req'[d].filter = req'[d].snap.index
                      /\ req'[d].pc = "answered" => req'[d].filter \in {req'[d].snap.index, NoBuild}
    BY DEF RequestsOwned
  <1> USE DEF ReloadInv, RequestsOwned, TypeOK
  <1>0. req[d] \in RequestState
    OBVIOUS
  <1>1. CASE UNCHANGED req
    BY <1>1
  <1>2. ASSUME NEW c \in Clients, c # d, Request(c) PROVE req'[d] = req[d]
    BY <1>2 DEF Request, PostBegin, PostInsert, QueryParse, QueryBuild, Finish
  <1>3. ASSUME NEW id, PostBegin(d, id) \/ QueryParse(d, id)
        PROVE  /\ req'[d].pc = "posting" => req'[d].filter = req'[d].snap.index
               /\ req'[d].pc \in {"posting", "parsed"}
    BY <1>3 DEF PostBegin, QueryParse
  <1>4. CASE PostInsert(d)
    BY <1>0, <1>4 DEF PostInsert, RequestState
  <1>5. CASE QueryBuild(d)
    <2> DEFINE found == Bitmaps(req[d].snap.store, req[d].coll)
    <2>1. /\ req'[d].pc = "answered" /\ req'[d].snap = req[d].snap
          /\ \/ \E e \in found : req'[d].filter = e.index
             \/ req'[d].filter = req[d].filter
      BY <1>0, <1>5 DEF QueryBuild, RequestState
    <2>2. req[d].pc = "parsed" => req[d].filter = NoBuild
      BY <1>0 DEF RequestState
    <2>3. \A e \in found : e.index = req[d].snap.index
      <3>1. req[d].snap \in LiveSnapshots
        BY <1>5 DEF QueryBuild, LiveSnapshots
      <3> QED
        BY <3>1 DEF StoresOwned, Bitmaps
    <2> QED
      BY <1>5, <2>1, <2>2, <2>3 DEF QueryBuild
  <1>6. CASE Finish(d)
    BY <1>6 DEF Finish, Idle
  <1>7. \/ UNCHANGED req
        \/ \E c \in Clients : Request(c)
    BY DEF Next, Publisher, PublishArchive, PublishSidecar, WriteManifest, vars,
           IndexTask, IndexPoll, IndexCompare, IndexLoad, IndexLoadFails,
           IndexRebuildFormats, IndexCheck, IndexSwap, FormatsTask, FormatsPoll,
           FormatsCompare, FormatsLoad, FormatsSwap, Evict
  <1> QED
    BY <1>1, <1>2, <1>3, <1>4, <1>5, <1>6, <1>7 DEF Request

-------------------------------------------------------------------------------
(***************************************************************************)
(* Theorems that hold for every setting of the server.                     *)
(***************************************************************************)

\* Init establishes the inductive invariant; store 0 belongs to the published index.
LEMMA InitReloadInv == Init => ReloadInv
  <1> SUFFICES ASSUME Init PROVE ReloadInv
    OBVIOUS
  <1>1. TypeOK
    BY InitTypeOK
  <1>2. LiveSnapshots = {current}
    BY DEF Init, LiveSnapshots, Idle
  <1>3. StoresOwned
    <2>1. 0 .. (nextStore - 1) = {0} /\ entries = {}
      BY DEF Init
    <2>2. [n \in 0 .. (nextStore - 1) |-> archive] \in [0 .. (nextStore - 1) -> Builds]
      BY DEF Init
    <2>3. current.store = 0 /\ current.index = archive
      BY DEF Init
    <2> QED
      BY <1>2, <2>1, <2>2, <2>3 DEF StoresOwned
  <1>4. FormatsOwned /\ VersionsOrdered /\ RequestsOwned
    BY <1>2 DEF Init, FormatsOwned, VersionsOrdered, RequestsOwned, LoadFormats, Idle
  <1> QED
    BY <1>1, <1>3, <1>4 DEF ReloadInv

\* The inductive invariant of the reload machinery.
THEOREM ReloadInvariant == Spec => []ReloadInv
  <1>1. ReloadInv /\ [Next]_vars => ReloadInv'
    BY StepTypeOK, StepStoresOwned, StepFormatsOwned, StepVersionsOrdered, StepRequestsOwned
    DEF ReloadInv
  <1> QED
    BY InitReloadInv, <1>1, PTL DEF Spec

\* Index and formats are always those of one build in the served snapshot.
THEOREM ServedSnapshotCoherent == Spec => []SnapshotCoherent
  <1>1. ReloadInv => SnapshotCoherent
    BY DEF ReloadInv, FormatsOwned, LiveSnapshots, SnapshotCoherent
  <1> QED
    BY <1>1, ReloadInvariant, PTL

\* No reply ever mixes bitmaps and catalog of two builds.
THEOREM RepliesCoherent == Spec => []ReplyCoherent
  <1>1. ReloadInv => ReplyCoherent
    BY DEF ReloadInv, FormatsOwned, RequestsOwned, LiveSnapshots, ReplyCoherent
  <1> QED
    BY <1>1, ReloadInvariant, PTL

\* The index task only ever installs a strictly newer index.
THEOREM IndexSwapUpgrades == Spec => SwapIsUpgrade
  <1>1. ReloadInv => (IndexSwap => BuiltAt[current.index] < BuiltAt[current'.index])
    BY BuildsAssumption DEF ReloadInv, TypeOK, VersionsOrdered, Newer, IndexSwap, Snapshot
  <1> QED
    BY <1>1, ReloadInvariant, PTL DEF SwapIsUpgrade

\* No swap empties the collection store of an index that stays in service.
THEOREM CollectionsSurviveReload == Spec => CollectionsKeptWithIndex
  <1>1. ReloadInv /\ [Next]_vars =>
           (current'.index = current.index => current'.store = current.store)
    <2> SUFFICES ASSUME ReloadInv, [Next]_vars, current'.index = current.index
                 PROVE  current'.store = current.store
      OBVIOUS
    <2>1. CASE IndexSwap
      BY <2>1, BuildsAssumption
      DEF ReloadInv, TypeOK, VersionsOrdered, Newer, IndexSwap, Snapshot
    <2>2. CASE FormatsSwap
      BY <2>2, BuildsAssumption
      DEF ReloadInv, TypeOK, VersionsOrdered, Earlier, Newer, FormatsSwap, Snapshot
    <2>3. CASE UNCHANGED current
      BY <2>3
    <2> QED
      BY <2>1, <2>2, <2>3
      DEF Next, Publisher, PublishArchive, PublishSidecar, WriteManifest, vars, IndexTask,
          IndexPoll, IndexCompare, IndexLoad, IndexLoadFails, IndexRebuildFormats, IndexCheck,
          FormatsTask, FormatsPoll, FormatsCompare, FormatsLoad, Request, PostBegin,
          PostInsert, QueryParse, QueryBuild, Finish, Evict
  <1> QED
    BY <1>1, ReloadInvariant, PTL DEF CollectionsKeptWithIndex, Spec

-------------------------------------------------------------------------------
(***************************************************************************)
(* A server whose formats are not reloaded on their own: only the index    *)
(* task writes AppState.query.                                             *)
(***************************************************************************)

\* Which steps change the served snapshot.
LEMMA OnlySwapsChangeCurrent ==
  ASSUME [Next]_vars, ~IndexSwap, ~FormatsSwap
  PROVE  UNCHANGED current
  BY DEF Next, Publisher, PublishArchive, PublishSidecar, WriteManifest, vars, IndexTask,
         IndexPoll, IndexCompare, IndexLoad, IndexLoadFails, IndexRebuildFormats, IndexCheck,
         FormatsTask, FormatsPoll, FormatsCompare, FormatsLoad, Request, PostBegin,
         PostInsert, QueryParse, QueryBuild, Finish, Evict

\* Without a formats task every snapshot a request holds is the served one or one
\* of an older index.
LEMMA StepSnapshotsEarlier ==
  ASSUME ~FormatsReload, ReloadInv, SnapshotsEarlier, [Next]_vars
  PROVE  SnapshotsEarlier'
  <1> USE DEF SnapshotsEarlier
  <1>1. fpc' = "idle"
    BY DEF Next, Publisher, PublishArchive, PublishSidecar, WriteManifest, vars, IndexTask,
           IndexPoll, IndexCompare, IndexLoad, IndexLoadFails, IndexRebuildFormats,
           IndexCheck, IndexSwap, FormatsTask, FormatsPoll, FormatsCompare, FormatsLoad,
           FormatsSwap, Request, PostBegin, PostInsert, QueryParse, QueryBuild, Finish,
           Evict, formatsTask
  <1>2. \/ UNCHANGED req
        \/ UNCHANGED current /\ \E c \in Clients : Request(c)
    BY DEF Next, Publisher, PublishArchive, PublishSidecar, WriteManifest, vars,
           IndexTask, IndexPoll, IndexCompare, IndexLoad, IndexLoadFails,
           IndexRebuildFormats, IndexCheck, IndexSwap, FormatsTask, FormatsPoll,
           FormatsCompare, FormatsLoad, FormatsSwap, Evict, Request, PostBegin, PostInsert,
           QueryParse, QueryBuild, Finish
  <1>3. \A s : Earlier(s) /\ UNCHANGED current => Earlier(s)'
    BY DEF Earlier, Newer
  <1>4. Earlier(current)
    BY DEF Earlier
  <1>5. CASE IndexSwap
    <2>1. \A d \in Clients : req[d].pc # "idle" => req[d].snap \in Snapshot
      BY RequestFields DEF ReloadInv, TypeOK
    <2>2. UNCHANGED req /\ Newer(current'.index, current.index) /\ current'.index \in Builds
      BY <1>5 DEF IndexSwap, ReloadInv, VersionsOrdered, TypeOK
    <2>3. \A d \in Clients : req[d].pc # "idle" => Newer(current'.index, req[d].snap.index)
      BY <2>1, <2>2, BuildsAssumption DEF Earlier, Newer, ReloadInv, TypeOK, Snapshot
    <2> QED
      BY <1>1, <2>2, <2>3 DEF Earlier, Newer
  <1>6. CASE ~IndexSwap
    <2>1. UNCHANGED current
      BY <1>6, OnlySwapsChangeCurrent DEF FormatsSwap
    <2>2. \A d \in Clients : SnapshotKept(d) \/ UNCHANGED req
      BY <1>2, RequestSnapshots DEF ReloadInv
    <2> QED
      BY <1>1, <1>3, <1>4, <2>1, <2>2 DEF SnapshotKept, Earlier, Newer
  <1> QED
    BY <1>5, <1>6

\* Without a formats task, every request holds a snapshot the server has served.
LEMMA SnapshotsEarlierInvariant ==
  ASSUME ~FormatsReload PROVE Spec => []SnapshotsEarlier
  <1>1. Init => SnapshotsEarlier
    BY DEF Init, SnapshotsEarlier, Idle
  <1>2. ReloadInv /\ SnapshotsEarlier /\ [Next]_vars => SnapshotsEarlier'
    BY StepSnapshotsEarlier
  <1> QED
    BY <1>1, <1>2, ReloadInvariant, PTL DEF Spec

\* With one writer the served index never gets older.
THEOREM ServedIndexMonotone ==
  ASSUME ~FormatsReload PROVE Spec => IndexMonotone
  <1>1. ReloadInv /\ SnapshotsEarlier /\ [Next]_vars =>
            BuiltAt[current.index] <= BuiltAt[current'.index]
    <2> SUFFICES ASSUME ReloadInv, SnapshotsEarlier, [Next]_vars
                 PROVE  BuiltAt[current.index] <= BuiltAt[current'.index]
      OBVIOUS
    <2>1. BuiltAt[current.index] \in Nat
      BY BuildsAssumption DEF ReloadInv, TypeOK, Snapshot
    <2>2. CASE IndexSwap
      BY <2>2, BuildsAssumption
      DEF ReloadInv, TypeOK, VersionsOrdered, Newer, IndexSwap, Snapshot
    <2>3. CASE ~IndexSwap
      BY <2>1, <2>3, OnlySwapsChangeCurrent DEF SnapshotsEarlier, FormatsSwap
    <2> QED
      BY <2>2, <2>3
  <1> QED
    BY <1>1, ReloadInvariant, SnapshotsEarlierInvariant, PTL DEF IndexMonotone, Spec

-------------------------------------------------------------------------------
(***************************************************************************)
(* Entries leave a store by expiry alone.                                  *)
(***************************************************************************)

\* Unless one of its entries expires, an id the store holds stays in it (an insert under
\* the same id replaces the bitmap).
LEMMA EntriesKept ==
  ASSUME TypeOK, [Next]_vars, NEW store, NEW id, Bitmaps(store, id) # {},
         \A e \in Bitmaps(store, id) : ~Evict(e)
  PROVE  Bitmaps(store, id)' # {}
  <1> USE DEF Bitmaps
  <1>1. ASSUME NEW c \in Clients, PostInsert(c) PROVE Bitmaps(store, id)' # {}
    BY <1>1 DEF PostInsert
  <1>2. ASSUME NEW e \in entries, Evict(e) PROVE Bitmaps(store, id)' # {}
    <2>1. e \notin Bitmaps(store, id) /\ entries' = entries \ {e}
      BY <1>2 DEF Evict
    <2> QED
      BY <2>1
  <1>3. CASE ~(\E c \in Clients : PostInsert(c)) /\ ~(\E e \in entries : Evict(e))
    <2>1. UNCHANGED entries
      BY <1>3 DEF Next, Publisher, PublishArchive, PublishSidecar, WriteManifest, vars,
             IndexTask, IndexPoll, IndexCompare, IndexLoad, IndexLoadFails,
             IndexRebuildFormats, IndexCheck, IndexSwap, FormatsTask, FormatsPoll,
             FormatsCompare, FormatsLoad, FormatsSwap, Request, PostBegin, QueryParse,
             QueryBuild, Finish, storeVars
    <2> QED
      BY <2>1
  <1> QED
    BY <1>1, <1>2, <1>3

\* A step is a step of one request or leaves them all alone.
LEMMA RequestSteps ==
  [Next]_vars => UNCHANGED req \/ \E c \in Clients : Request(c)
  BY DEF Next, Publisher, PublishArchive, PublishSidecar, WriteManifest, vars,
         IndexTask, IndexPoll, IndexCompare, IndexLoad, IndexLoadFails,
         IndexRebuildFormats, IndexCheck, IndexSwap, FormatsTask, FormatsPoll,
         FormatsCompare, FormatsLoad, FormatsSwap, Evict

\* A request's record changes by its own steps.
LEMMA OwnSteps ==
  ASSUME TypeOK, [Next]_vars, NEW c \in Clients
  PROVE  req'[c] = req[c] \/ Request(c)
  <1>1. req \in [Clients -> RequestState]
    BY DEF TypeOK
  <1>2. ASSUME NEW d \in Clients, d # c, Request(d) PROVE req'[c] = req[c]
    BY <1>1, <1>2 DEF Request, PostBegin, PostInsert, QueryParse, QueryBuild, Finish
  <1> QED
    BY <1>2, RequestSteps

\* The filter of an accepted query is lost by an expiry between the two lookups, and by
\* nothing else, whatever is evicted when and whichever tasks run.
THEOREM FilterLostByExpiryOnly == Spec => OnlyExpiryLosesFilter
  <1>1. ASSUME TypeOK, [Next]_vars, NEW c \in Clients PROVE KeepsFilter(c)
    <2>0. req[c] \in RequestState /\ req \in [Clients -> RequestState]
      BY <1>1 DEF TypeOK
    <2>1. CASE req'[c] = req[c]
      <3>1. ASSUME \A e \in Bitmaps(req[c].snap.store, req[c].coll) : ~Evict(e),
                   Bitmaps(req[c].snap.store, req[c].coll) # {}
            PROVE  Bitmaps(req[c].snap.store, req[c].coll)' # {}
        <4> PICK store, id : store = req[c].snap.store /\ id = req[c].coll
          OBVIOUS
        <4>1. Bitmaps(store, id)' # {}
          BY <1>1, <3>1, EntriesKept
        <4> QED
          BY <2>1, <4>1 DEF Bitmaps
      <3> QED
        BY <2>1, <3>1 DEF KeepsFilter, Filtering, Bitmaps
    <2>2. ASSUME NEW id, PostBegin(c, id) PROVE KeepsFilter(c)
      BY <2>0, <2>2 DEF PostBegin, KeepsFilter, Filtering
    <2>3. CASE PostInsert(c)
      BY <2>0, <2>3 DEF PostInsert, KeepsFilter, Filtering
    <2>4. ASSUME NEW id, QueryParse(c, id) PROVE KeepsFilter(c)
      BY <2>0, <2>4 DEF QueryParse, storeVars, KeepsFilter, Filtering, Bitmaps
    <2>5. CASE QueryBuild(c)
      <3>1. \A e \in entries : e.index # NoBuild
        BY <1>1, BuildsAssumption DEF TypeOK, Entry
      <3>2. /\ req[c].pc = "parsed" /\ req'[c].pc = "answered"
            /\ \/ \E e \in Bitmaps(req[c].snap.store, req[c].coll) : req'[c].filter = e.index
               \/ Bitmaps(req[c].snap.store, req[c].coll) = {}
        BY <2>0, <2>5 DEF QueryBuild, RequestState
      <3> QED
        BY <3>1, <3>2 DEF KeepsFilter, Filtering, Bitmaps
    <2>6. CASE Finish(c)
      BY <2>0, <2>6 DEF Finish, Idle, KeepsFilter, Filtering
    <2> QED
      BY <1>1, <2>1, <2>2, <2>3, <2>4, <2>5, <2>6, OwnSteps DEF Request
  <1>2. TypeOK /\ [Next]_vars => \A c \in Clients : KeepsFilter(c)
    BY <1>1
  <1> QED
    BY <1>2, TypeCorrect, PTL DEF Spec, OnlyExpiryLosesFilter

\* Without eviction, every step keeps the entries that acknowledged requests rely on.
LEMMA StepEntriesStay ==
  ASSUME ~Eviction, TypeOK, EntriesStay, [Next]_vars
  PROVE  EntriesStay'
  <1> SUFFICES ASSUME NEW d \in Clients, req'[d].pc = "acked"
               PROVE  Bitmaps(req[d].snap.store, req[d].coll)' # {}
    BY DEF EntriesStay, Bitmaps
  <1>0. req[d] \in RequestState /\ req \in [Clients -> RequestState]
    BY DEF TypeOK
  <1>1. CASE req'[d] = req[d]
    <2>1. \A e : ~Evict(e)
      BY DEF Evict
    <2> PICK store, id : store = req[d].snap.store /\ id = req[d].coll
      OBVIOUS
    <2>2. Bitmaps(store, id) # {}
      BY <1>1 DEF EntriesStay
    <2>3. Bitmaps(store, id)' # {}
      BY <2>1, <2>2, EntriesKept
    <2> QED
      BY <1>1, <2>3 DEF Bitmaps
  <1>2. CASE PostInsert(d)
    <2>1. req'[d].snap = req[d].snap /\ req'[d].coll = req[d].coll
      BY <1>0, <1>2 DEF PostInsert, RequestState
    <2> DEFINE e == [store |-> req[d].snap.store, coll |-> req[d].coll,
                     index |-> req[d].filter]
    <2>2. e \in entries'
      BY <1>2 DEF PostInsert
    <2>3. e.store = req'[d].snap.store /\ e.coll = req'[d].coll
      BY <2>1
    <2> QED
      BY <2>2, <2>3 DEF Bitmaps
  <1>3. CASE ~PostInsert(d) /\ Request(d)
    <2>1. ASSUME NEW id, PostBegin(d, id) \/ QueryParse(d, id) PROVE FALSE
      BY <1>0, <2>1 DEF PostBegin, QueryParse
    <2>2. ~QueryBuild(d)
      BY <1>0 DEF QueryBuild, RequestState
    <2>3. ~Finish(d)
      BY <1>0 DEF Finish, Idle
    <2> QED
      BY <1>3, <2>1, <2>2, <2>3 DEF Request
  <1> QED
    BY <1>1, <1>2, <1>3, OwnSteps

\* Without eviction, the entries acknowledged requests rely on stay in their stores.
LEMMA EntriesStayInvariant ==
  ASSUME ~Eviction PROVE Spec => []EntriesStay
  <1>1. Init => EntriesStay
    BY DEF Init, EntriesStay, Idle
  <1>2. TypeOK /\ EntriesStay /\ [Next]_vars => EntriesStay'
    BY StepEntriesStay
  <1> QED
    BY <1>1, <1>2, TypeCorrect, PTL DEF Spec

\* An acknowledged collection stays queryable while its index is served.
THEOREM AckedCollectionStays ==
  ASSUME ~Eviction, ~FormatsReload PROVE Spec => []AckedCollectionQueryable
  <1>1. ReloadInv /\ EntriesStay /\ SnapshotsEarlier => AckedCollectionQueryable
    <2> SUFFICES ASSUME ReloadInv, EntriesStay, SnapshotsEarlier, NEW c \in Clients,
                        req[c].pc = "acked", req[c].snap.index = current.index
                 PROVE  Bitmaps(current.store, req[c].coll) # {}
      BY DEF AckedCollectionQueryable
    <2>1. BuiltAt[current.index] \in Nat
      BY BuildsAssumption DEF ReloadInv, TypeOK, Snapshot
    <2>2. req[c].snap.store = current.store
      BY <2>1 DEF SnapshotsEarlier, Earlier, Newer
    <2> QED
      BY <2>2 DEF EntriesStay
  <1> QED
    BY <1>1, ReloadInvariant, EntriesStayInvariant, SnapshotsEarlierInvariant, PTL

-------------------------------------------------------------------------------
(***************************************************************************)
(* HotReload implements ServedIndex when formats are not reloaded alone.   *)
(***************************************************************************)

\* The collections a query may name now.
Shelf == {e.coll : e \in {x \in entries : x.store = current.store}}

\* Each step of the server is a step of ServedIndex or leaves its variables alone.
LEMMA StepSimulates ==
  ASSUME ~FormatsReload, ReloadInv, SnapshotsEarlier, [Next]_vars
  PROVE  [Served!ServedNext]_(Served!servedVars)
  <1> DEFINE Stutter == UNCHANGED <<current, Shelf>>
  <1> USE DEF Shelf
  <1>0. Stutter => UNCHANGED Served!servedVars
    BY DEF Served!servedVars
  <1>1. CASE IndexSwap
    <2>1. current'.index \in {b \in Builds : BuiltAt[b] > BuiltAt[current.index]}
      BY <1>1 DEF IndexSwap, ReloadInv, TypeOK, VersionsOrdered, Newer
    <2>2. current'.formats.index = current'.index
      BY <1>1 DEF IndexSwap, ReloadInv, FormatsOwned
    <2>3. \A e \in entries : e.store # nextStore
      BY DEF ReloadInv, TypeOK, StoresOwned
    <2>4. Shelf' = {}
      BY <1>1, <2>3 DEF IndexSwap
    <2> QED
      BY <2>1, <2>2, <2>4 DEF Served!ServedNext, Served!Upgrade
  <1>2. ASSUME NEW c \in Clients, PostInsert(c)
        PROVE  \/ Stutter
               \/ \E id \in Collections : Served!Post(id)
    <2> DEFINE e == [store |-> req[c].snap.store, coll |-> req[c].coll,
                     index |-> req[c].filter]
    <2>1. /\ UNCHANGED current /\ e.coll \in Collections
          /\ entries' = (entries \ Bitmaps(e.store, e.coll)) \cup {e}
      BY <1>2, RequestFields DEF PostInsert, ReloadInv, TypeOK
    <2>2. CASE e.store = current.store
      <3>1. Shelf' = Shelf \cup {e.coll}
        BY <2>1, <2>2 DEF Bitmaps
      <3> QED
        BY <2>1, <3>1 DEF Served!Post
    <2>3. CASE e.store # current.store
      BY <2>1, <2>3 DEF Bitmaps
    <2> QED
      BY <2>2, <2>3
  <1>3. ASSUME NEW e \in entries, Evict(e)
        PROVE  \/ Stutter
               \/ \E id \in Collections : Served!Forget(id)
    <2>1. UNCHANGED current /\ entries' = entries \ {e} /\ e.coll \in Collections
      BY <1>3 DEF Evict, ReloadInv, TypeOK, Entry
    <2>2. Shelf' = Shelf \/ Shelf' = Shelf \ {e.coll}
      BY <2>1
    <2> QED
      BY <2>1, <2>2 DEF Served!Forget
  <1>4. CASE /\ ~IndexSwap
             /\ ~\E c \in Clients : PostInsert(c)
             /\ ~\E e \in entries : Evict(e)
    <2>1. UNCHANGED current
      BY <1>4, OnlySwapsChangeCurrent DEF SnapshotsEarlier, FormatsSwap
    <2>2. UNCHANGED entries
      BY <1>4 DEF Next, Publisher, PublishArchive, PublishSidecar, WriteManifest, vars,
             IndexTask, IndexPoll, IndexCompare, IndexLoad, IndexLoadFails,
             IndexRebuildFormats, IndexCheck, FormatsTask, FormatsPoll,
             FormatsCompare, FormatsLoad, FormatsSwap, Request, PostBegin, QueryParse,
             QueryBuild, Finish, storeVars
    <2> QED
      BY <1>0, <2>1, <2>2
  <1> QED
    BY <1>0, <1>1, <1>2, <1>3, <1>4 DEF Served!ServedNext

\* To its clients, a server without formats reload is an atomic, monotone register
\* of (index, formats, collections).
THEOREM ServerImplementsServedIndex ==
  ASSUME ~FormatsReload PROVE Spec => ImplementsServedIndex
  <1>1. Init => Served!ServedInit
    BY DEF Init, LoadFormats, Served!ServedInit
  <1>2. ReloadInv /\ SnapshotsEarlier /\ [Next]_vars =>
            [Served!ServedNext]_(Served!servedVars)
    BY StepSimulates
  <1> QED
    BY <1>1, <1>2, ReloadInvariant, SnapshotsEarlierInvariant, PTL
    DEF Spec, ImplementsServedIndex, Served!ServedSpec
==============================================================================
