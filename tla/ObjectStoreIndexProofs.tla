------------------------ MODULE ObjectStoreIndexProofs ------------------------
(***************************************************************************)
(* Proofs about ObjectStoreIndex, for every set of builds with any build   *)
(* times, and every number of uploads, failures and restarts.              *)
(***************************************************************************)
EXTENDS ObjectStoreIndex, SequenceTheorems, TLAPS

\* A step that does not publish version.json, and may exchange the archive for a newer
\* one, keeps what is known of the sidecars.
LEMMA PublishedKept ==
  ASSUME SourceInv, UNCHANGED sidecars, archive' \in Archive,
         BuiltAt[archive'.build] >= BuiltAt[archive.build]
  PROVE  PublishedInOrder'
  <1> SUFFICES ASSUME NEW i \in 1 .. Len(sidecars)
               PROVE  sidecars[i].version <= BuiltAt[archive'.build]
    BY DEF PublishedInOrder
  <1>1. sidecars[i] \in Sidecar
    BY DEF SourceInv, TypeOK
  <1>2. BuiltAt[archive.build] \in Nat /\ BuiltAt[archive'.build] \in Nat
    BY ArchiveAssumption DEF SourceInv, TypeOK, Archive
  <1> QED
    BY <1>1, <1>2 DEF SourceInv, PublishedInOrder, Sidecar

\* What the conditional GET of version.json leaves in the caches and answers.
LEMMA FetchVersionFacts ==
  ASSUME SourceInv, FetchVersion, UNCHANGED sidecars
  PROVE  /\ cachedEtag' = Len(sidecars)
         /\ cachedVersion' = sidecars[cachedEtag'].version
         /\ FetchedVersion = cachedVersion'
         /\ cachedEtag' \in 1 .. Len(sidecars) /\ cachedVersion' \in Nat
         /\ FetchedSha \in Builds \cup {NoSha}
         /\ FetchedVersion <= BuiltAt[archive.build]
         /\ cachedEtag = 0 => FetchedSha = sidecars[cachedEtag'].sha
  <1>1. Len(sidecars) \in Nat /\ Len(sidecars) > 0 /\ Latest \in Sidecar
    BY DEF SourceInv, TypeOK, Latest
  <1>2. cachedEtag' = Len(sidecars)
    BY DEF FetchVersion, NotModified
  <1>3. cachedVersion' = sidecars[cachedEtag'].version /\ FetchedVersion = cachedVersion'
    BY <1>2 DEF FetchVersion, FetchedVersion, NotModified, Latest, SourceInv, CachesAgree
  <1>4. FetchedSha \in Builds \cup {NoSha}
    BY <1>1 DEF FetchedSha, Sidecar
  <1>5. cachedEtag = 0 => FetchedSha = sidecars[cachedEtag'].sha
    BY <1>2 DEF FetchedSha, NotModified, Latest
  <1>6. cachedVersion' \in Nat /\ FetchedVersion <= BuiltAt[archive.build]
    BY <1>1, <1>2, <1>3 DEF SourceInv, PublishedInOrder, Latest, Sidecar
  <1> QED
    BY <1>1, <1>2, <1>3, <1>4, <1>5, <1>6

\* Init establishes the invariant.
LEMMA InitSourceInv == Init => SourceInv
  <1> SUFFICES ASSUME Init PROVE SourceInv
    OBVIOUS
  <1>1. PICK sha \in {archive.build, NoSha} :
          sidecars = <<[version |-> BuiltAt[archive.build], sha |-> sha]>>
    BY DEF Init
  <1>2. archive \in Archive /\ archive.build \in Builds /\ BuiltAt[archive.build] \in Nat
    BY ArchiveAssumption DEF Init, Archive
  <1>3. /\ sidecars \in Seq(Sidecar) /\ Len(sidecars) = 1
        /\ sidecars[1].version = BuiltAt[archive.build]
    BY <1>1, <1>2 DEF Sidecar
  <1>4. TypeOK
    <2>1. sidecars \in Seq(Sidecar) /\ sidecars # <<>>
      BY <1>3
    <2>2. expected \in Builds \cup {NoSha} /\ bytes = Nothing /\ served = Nothing /\ pc = "boot"
      BY DEF Init
    <2>3. /\ pending = FALSE /\ uploads = 0 /\ failures = 0 /\ restarts = 0
          /\ cachedEtag = 0 /\ cachedVersion = 0 /\ polled = 0
      BY DEF Init
    <2>4. 0 \in 0 .. Len(sidecars)
      BY <1>3
    <2> QED
      BY <1>2, <2>1, <2>2, <2>3, <2>4 DEF TypeOK
  <1>5. PublishedInOrder
    BY <1>2, <1>3 DEF PublishedInOrder
  <1> QED
    BY <1>4, <1>5 DEF Init, SourceInv, CachesAgree, BootVerified, LoadsNewer, BootExpects

\* An upload of the archive keeps the invariant.
LEMMA PutArchiveKeeps ==
  ASSUME SourceInv, NEW b \in Builds, NEW d \in BOOLEAN, PutArchive(b, d)
  PROVE  SourceInv'
  <1> USE DEF PutArchive, clientVars, taskVars
  <1>1. archive' \in Archive /\ BuiltAt[archive'.build] >= BuiltAt[archive.build]
    BY DEF Archive
  <1>2. /\ archive.build \in Builds /\ BuiltAt[archive.build] \in Nat
        /\ BuiltAt[archive'.build] \in Nat
    BY <1>1, ArchiveAssumption DEF SourceInv, TypeOK, Archive
  <1>3. TypeOK'
    BY <1>1 DEF SourceInv, TypeOK
  <1>4. PublishedInOrder'
    BY <1>1, PublishedKept
  <1>5. served \in Archive => BuiltAt[served.build] \in Nat
    BY ArchiveAssumption DEF Archive
  <1>6. LoadsNewer'
    BY <1>1, <1>2, <1>5 DEF SourceInv, TypeOK, LoadsNewer
  <1> QED
    BY <1>3, <1>4, <1>6 DEF SourceInv, CachesAgree, BootVerified, BootExpects, Matches

\* An upload of version.json keeps the invariant.
LEMMA PutSidecarKeeps ==
  ASSUME SourceInv, PutSidecar
  PROVE  SourceInv'
  <1> USE DEF PutSidecar, clientVars, taskVars
  <1>1. PICK sha \in {archive.build, NoSha} :
          sidecars' = Append(sidecars, [version |-> BuiltAt[archive.build], sha |-> sha])
    OBVIOUS
  <1>2. archive.build \in Builds /\ BuiltAt[archive.build] \in Nat
    BY ArchiveAssumption DEF SourceInv, TypeOK, Archive
  <1>3. [version |-> BuiltAt[archive.build], sha |-> sha] \in Sidecar
    BY <1>2 DEF Sidecar
  <1>4. /\ sidecars' \in Seq(Sidecar) /\ sidecars' # <<>>
        /\ Len(sidecars') = Len(sidecars) + 1 /\ Len(sidecars) \in Nat
        /\ \A i \in 1 .. Len(sidecars) : sidecars'[i] = sidecars[i]
        /\ sidecars'[Len(sidecars) + 1].version = BuiltAt[archive.build]
    BY <1>1, <1>3 DEF SourceInv, TypeOK
  <1>5. TypeOK'
    <2>1. cachedEtag \in 0 .. Len(sidecars')
      BY <1>4 DEF SourceInv, TypeOK
    <2>2. UNCHANGED <<archive, uploads, failures, restarts, clientVars, taskVars, served>>
          /\ pending' = FALSE
      OBVIOUS
    <2> HIDE DEF PutSidecar
    <2> QED
      BY <1>4, <2>1, <2>2 DEF SourceInv, TypeOK
  <1>6. PublishedInOrder'
    BY <1>2, <1>4 DEF SourceInv, PublishedInOrder
  <1>7. cachedEtag # 0 => sidecars'[cachedEtag] = sidecars[cachedEtag]
    BY <1>4 DEF SourceInv, TypeOK
  <1> QED
    BY <1>5, <1>6, <1>7
    DEF SourceInv, CachesAgree, BootVerified, LoadsNewer, BootExpects, Matches

\* The end of the process keeps the invariant.
LEMMA ExitKeeps ==
  ASSUME SourceInv, Exit, UNCHANGED <<failures, restarts>>
            \/ (failures' \in Nat /\ restarts' \in Nat)
  PROVE  SourceInv'
  <1> USE DEF Exit, storeVars
  <1>1. TypeOK'
    <2>1. Len(sidecars) \in Nat /\ 0 \in 0 .. Len(sidecars)
      BY DEF SourceInv, TypeOK
    <2> QED
      BY <2>1 DEF SourceInv, TypeOK
  <1> QED
    BY <1>1 DEF SourceInv, CachesAgree, BootVerified, PublishedInOrder, LoadsNewer, BootExpects

\* Startup keeps the invariant.
LEMMA StartupKeeps ==
  ASSUME SourceInv, Startup
  PROVE  SourceInv'
  <1> USE DEF storeVars, clientVars
  <1>1. CASE BootFetch
    <2> USE <1>1 DEF BootFetch
    <2>1. FetchVersion /\ UNCHANGED sidecars
      OBVIOUS
    <2>2. /\ cachedEtag' = Len(sidecars)
          /\ cachedVersion' = sidecars[cachedEtag'].version
          /\ cachedEtag' \in 1 .. Len(sidecars) /\ cachedVersion' \in Nat
          /\ FetchedSha \in Builds \cup {NoSha}
          /\ cachedEtag = 0 => FetchedSha = sidecars[cachedEtag'].sha
      BY <2>1, FetchVersionFacts
    <2>3. TypeOK'
      BY <2>2 DEF SourceInv, TypeOK
    <2> QED
      BY <2>2, <2>3
      DEF SourceInv, CachesAgree, BootVerified, PublishedInOrder, LoadsNewer, BootExpects
  <1>2. CASE BootDownload
    <2> USE <1>2 DEF BootDownload
    <2>1. TypeOK'
      BY DEF SourceInv, TypeOK
    <2>2. BootVerified'
      BY DEF SourceInv, BootVerified, BootExpects, Loadable, Matches
    <2> QED
      BY <2>1, <2>2 DEF SourceInv, CachesAgree, PublishedInOrder, LoadsNewer, BootExpects
  <1>3. CASE BootInstall
    <2> USE <1>3 DEF BootInstall
    <2>1. TypeOK'
      BY DEF SourceInv, TypeOK
    <2> QED
      BY <2>1
      DEF SourceInv, CachesAgree, BootVerified, PublishedInOrder, LoadsNewer, BootExpects
  <1>4. CASE BootRejected
    BY <1>4, ExitKeeps DEF BootRejected
  <1> QED
    BY <1>1, <1>2, <1>3, <1>4 DEF Startup

\* A step of the reload task keeps the invariant.
LEMMA TickKeeps ==
  ASSUME SourceInv, Tick
  PROVE  SourceInv'
  <1> USE DEF storeVars, clientVars
  <1>a. /\ archive.build \in Builds /\ BuiltAt[archive.build] \in Nat
        /\ served \in Archive => BuiltAt[served.build] \in Nat
    BY ArchiveAssumption DEF SourceInv, TypeOK, Archive
  <1>b. ASSUME FetchVersion, UNCHANGED sidecars
        PROVE  /\ cachedEtag' = Len(sidecars)
               /\ cachedVersion' = sidecars[cachedEtag'].version
               /\ FetchedVersion = cachedVersion'
               /\ cachedEtag' \in 1 .. Len(sidecars) /\ cachedVersion' \in Nat
               /\ FetchedSha \in Builds \cup {NoSha}
               /\ FetchedVersion <= BuiltAt[archive.build]
    BY <1>b, FetchVersionFacts
  <1>1. CASE Poll
    <2> USE <1>1 DEF Poll
    <2>1. TypeOK'
      BY <1>b DEF SourceInv, TypeOK
    <2> QED
      BY <1>b, <2>1
      DEF SourceInv, CachesAgree, BootVerified, PublishedInOrder, LoadsNewer, BootExpects
  <1>2. CASE Compare
    <2> USE <1>2 DEF Compare
    <2>1. TypeOK'
      BY DEF SourceInv, TypeOK
    <2>2. LoadsNewer'
      BY <1>a DEF SourceInv, TypeOK, LoadsNewer
    <2> QED
      BY <2>1, <2>2 DEF SourceInv, CachesAgree, BootVerified, PublishedInOrder, BootExpects
  <1>3. CASE Fetch
    <2> USE <1>3 DEF Fetch
    <2>1. TypeOK'
      BY <1>b DEF SourceInv, TypeOK
    <2> QED
      BY <1>b, <2>1
      DEF SourceInv, CachesAgree, BootVerified, PublishedInOrder, LoadsNewer, BootExpects
  <1>4. CASE Download
    <2> USE <1>4 DEF Download
    <2>1. TypeOK'
      BY DEF SourceInv, TypeOK
    <2> QED
      BY <2>1
      DEF SourceInv, CachesAgree, BootVerified, PublishedInOrder, LoadsNewer, BootExpects
  <1>5. CASE Install
    <2> USE <1>5 DEF Install
    <2>1. TypeOK'
      BY DEF SourceInv, TypeOK
    <2> QED
      BY <2>1
      DEF SourceInv, CachesAgree, BootVerified, PublishedInOrder, LoadsNewer, BootExpects
  <1>6. CASE TickRejected
    <2> USE <1>6 DEF TickRejected
    <2>1. TypeOK'
      BY DEF SourceInv, TypeOK
    <2> QED
      BY <2>1
      DEF SourceInv, CachesAgree, BootVerified, PublishedInOrder, LoadsNewer, BootExpects
  <1> QED
    BY <1>1, <1>2, <1>3, <1>4, <1>5, <1>6 DEF Tick

\* Every step keeps the invariant.
LEMMA StepSourceInv == SourceInv /\ [Next]_vars => SourceInv'
  <1> SUFFICES ASSUME SourceInv, [Next]_vars PROVE SourceInv'
    OBVIOUS
  <1>1. CASE Publisher
    BY <1>1, PutArchiveKeeps, PutSidecarKeeps DEF Publisher
  <1>2. CASE Startup
    BY <1>2, StartupKeeps
  <1>3. CASE Tick
    BY <1>3, TickKeeps
  <1>4. CASE RequestFails
    <2>1. failures' \in Nat /\ restarts' \in Nat
      BY <1>4 DEF RequestFails, SourceInv, TypeOK
    <2>2. CASE Exit
      BY <2>1, <2>2, ExitKeeps
    <2>3. CASE ~Exit
      <3> USE <1>4, <2>1, <2>3 DEF RequestFails, storeVars, clientVars
      <3>1. TypeOK'
        BY DEF SourceInv, TypeOK
      <3> QED
        BY <3>1
        DEF SourceInv, CachesAgree, BootVerified, PublishedInOrder, LoadsNewer, BootExpects
    <2> QED
      BY <2>2, <2>3
  <1>5. CASE Restart
    <2>1. failures' \in Nat /\ restarts' \in Nat
      BY <1>5 DEF Restart, SourceInv, TypeOK
    <2> QED
      BY <1>5, <2>1, ExitKeeps DEF Restart
  <1>6. CASE UNCHANGED vars
    BY <1>6
    DEF vars, storeVars, clientVars, taskVars, SourceInv, TypeOK, CachesAgree, BootVerified,
        Matches, PublishedInOrder, LoadsNewer, BootExpects
  <1> QED
    BY <1>1, <1>2, <1>3, <1>4, <1>5, <1>6 DEF Next

\* The inductive invariant of the object store client.
THEOREM SourceInvariant == Spec => []SourceInv
  BY InitSourceInv, StepSourceInv, PTL DEF Spec

\* The etag cache and the version cache of the client always belong together.
THEOREM ClientCachesAgree == Spec => []CachesAgree
  <1>1. SourceInv => CachesAgree
    BY DEF SourceInv
  <1> QED
    BY <1>1, SourceInvariant, PTL

\* The index a process starts with matches the digest published beside it.
THEOREM BootIndexVerified == Spec => []BootVerified
  <1>1. SourceInv => BootVerified
    BY DEF SourceInv
  <1> QED
    BY <1>1, SourceInvariant, PTL

\* commit_if_newer never has to reject an index the task downloaded.
THEOREM DownloadsAreUpgrades == Spec => NoFutileDownload
  <1>1. SourceInv => (Install => BuiltAt[bytes.build] > BuiltAt[served.build])
    BY DEF SourceInv, LoadsNewer, Install
  <1> QED
    BY <1>1, SourceInvariant, PTL DEF NoFutileDownload
==============================================================================
