--------------------------- MODULE ObjectStoreIndex ---------------------------
(***************************************************************************)
(* The object-store index source (index/loader/object_store.rs) as main and *)
(* the index reload task use it: version.json, a small sidecar that is     *)
(* polled with a conditional GET, names the version of full_index.tar.zst, *)
(* the archive.  A publisher puts the archive first and version.json last; *)
(* the two puts are not atomic together.                                   *)
(*                                                                         *)
(* Each put of version.json gets an etag of its own: here its position in  *)
(* sidecars, the history of the object.  The digest of an archive is       *)
(* modelled by the build it was computed from, so an archive matches a     *)
(* digest when it holds that build undamaged.                              *)
(***************************************************************************)
EXTENDS Integers, Sequences

CONSTANTS
    Builds,      \* the index builds that may be uploaded
    BuiltAt,     \* BuiltAt[b]: manifest.built_at_secs inside the archive of b
    NoBuild,     \* nothing loaded
    NoSha,       \* a sidecar without sha256
    MaxUploads,  \* bound: puts of the archive
    MaxFailures, \* bound: failed requests to the store
    MaxRestarts  \* bound: kills of the process

ASSUME ArchiveAssumption ==
    /\ BuiltAt \in [Builds -> Nat]
    /\ NoBuild \notin Builds
    /\ NoSha \notin Builds

VARIABLES
    sidecars, archive, pending, uploads,    \* the store and its publisher (external)
    failures, restarts,
    cachedEtag, cachedVersion,              \* the client's two caches; 0 is None
    pc, polled, expected, bytes,            \* main, then the reload task
    served                                  \* the archive the served index came from

storeVars  == <<sidecars, archive, pending, uploads>>
clientVars == <<cachedEtag, cachedVersion>>
taskVars   == <<pc, polled, expected, bytes>>
vars == <<storeVars, failures, restarts, clientVars, taskVars, served>>

Sidecar == [version : Nat, sha : Builds \cup {NoSha}]
Archive == [build : Builds, damaged : BOOLEAN]
Nothing == [build |-> NoBuild, damaged |-> FALSE]

Latest == sidecars[Len(sidecars)]

Matches(a, sha) == a.build = sha /\ ~a.damaged

Init ==
    /\ archive \in [build : Builds, damaged : {FALSE}]
    /\ \E sha \in {archive.build, NoSha} :
          sidecars = <<[version |-> BuiltAt[archive.build], sha |-> sha]>>
    /\ pending = FALSE
    /\ uploads = 0 /\ failures = 0 /\ restarts = 0
    /\ cachedEtag = 0 /\ cachedVersion = 0
    /\ pc = "boot" /\ polled = 0 /\ expected = NoSha /\ bytes = Nothing
    /\ served = Nothing

(***************************************************************************)
(* The publisher (external).  It uploads builds in the order they were     *)
(* made, may upload one again, and an upload may damage the bytes.         *)
(***************************************************************************)
PutArchive(b, damaged) ==
    /\ uploads < MaxUploads
    /\ BuiltAt[b] >= BuiltAt[archive.build]
    /\ archive' = [build |-> b, damaged |-> damaged]
    /\ pending' = TRUE
    /\ uploads' = uploads + 1
    /\ UNCHANGED <<sidecars, failures, restarts, clientVars, taskVars, served>>

PutSidecar ==
    /\ pending
    /\ \E sha \in {archive.build, NoSha} :
          sidecars' = Append(sidecars, [version |-> BuiltAt[archive.build], sha |-> sha])
    /\ pending' = FALSE
    /\ UNCHANGED <<archive, uploads, failures, restarts, clientVars, taskVars, served>>

(***************************************************************************)
(* fetch_version: a GET of version.json with If-None-Match.  A full answer *)
(* fills both caches; NotModified answers from them, without a digest.     *)
(***************************************************************************)
NotModified == cachedEtag # 0 /\ cachedEtag = Len(sidecars)

\* Mutant: only the etag is remembered, the version once and for all.
FetchVersionKeepsFirst ==
    /\ cachedEtag' = IF NotModified THEN cachedEtag ELSE Len(sidecars)
    /\ cachedVersion' = IF cachedVersion # 0 THEN cachedVersion ELSE Latest.version

FetchVersion ==
    /\ cachedEtag' = IF NotModified THEN cachedEtag ELSE Len(sidecars)
    /\ cachedVersion' = IF NotModified THEN cachedVersion ELSE Latest.version

\* Mutant: "not modified" is reported as nothing new.
FetchedVersionNone == IF NotModified THEN 0 ELSE Latest.version

FetchedVersion == IF NotModified THEN cachedVersion ELSE Latest.version

FetchedSha == IF NotModified THEN NoSha ELSE Latest.sha

\* Mutant: the digest is not checked.
LoadableUnchecked(a) == TRUE

\* fetch_archive_bytes and the decoding after it: a digest, when there is one, must
\* match; a damaged archive that is not checked may or may not decode.
Loadable(a) == expected # NoSha => Matches(a, expected)

(***************************************************************************)
(* Startup: load_app_state_from_object_store.  Any error ends the process, *)
(* which then starts over with empty caches.                               *)
(***************************************************************************)
BootFetch ==
    /\ pc = "boot"
    /\ FetchVersion
    /\ expected' = FetchedSha
    /\ pc' = "boot_archive"
    /\ UNCHANGED <<storeVars, failures, restarts, polled, bytes, served>>

BootDownload ==
    /\ pc = "boot_archive"
    /\ Loadable(archive)
    /\ bytes' = archive
    /\ pc' = "boot_install"
    /\ UNCHANGED <<storeVars, failures, restarts, clientVars, polled, expected, served>>

BootInstall ==
    /\ pc = "boot_install"
    /\ served' = bytes
    /\ bytes' = Nothing
    /\ expected' = NoSha
    /\ pc' = "idle"
    /\ UNCHANGED <<storeVars, failures, restarts, clientVars, polled>>

\* The process is gone: rejected or undecodable archive, or killed.
Exit ==
    /\ cachedEtag' = 0 /\ cachedVersion' = 0
    /\ pc' = "boot" /\ polled' = 0 /\ expected' = NoSha /\ bytes' = Nothing
    /\ served' = Nothing
    /\ UNCHANGED storeVars

BootRejected ==
    /\ pc = "boot_archive"
    /\ ~Loadable(archive) \/ archive.damaged
    /\ Exit
    /\ UNCHANGED <<failures, restarts>>

Restart ==
    /\ restarts < MaxRestarts
    /\ restarts' = restarts + 1
    /\ Exit
    /\ UNCHANGED failures

(***************************************************************************)
(* One tick of the reload task over RemoteIndexSource.                     *)
(***************************************************************************)
\* source.read_version()
Poll ==
    /\ pc = "idle"
    /\ FetchVersion
    /\ polled' = FetchedVersion
    /\ pc' = "compare"
    /\ UNCHANGED <<storeVars, failures, restarts, expected, bytes, served>>

\* Mutant: the version served is loaded again.
CompareNotOlder ==
    /\ pc = "compare"
    /\ pc' = IF polled < BuiltAt[served.build] THEN "idle" ELSE "fetch"
    /\ polled' = 0
    /\ UNCHANGED <<storeVars, failures, restarts, clientVars, expected, bytes, served>>

Compare ==
    /\ pc = "compare"
    /\ pc' = IF polled <= BuiltAt[served.build] THEN "idle" ELSE "fetch"
    /\ polled' = 0
    /\ UNCHANGED <<storeVars, failures, restarts, clientVars, expected, bytes, served>>

\* load_index begins with a second, again conditional, fetch_version.
Fetch ==
    /\ pc = "fetch"
    /\ FetchVersion
    /\ expected' = FetchedSha
    /\ pc' = "archive"
    /\ UNCHANGED <<storeVars, failures, restarts, polled, bytes, served>>

Download ==
    /\ pc = "archive"
    /\ Loadable(archive)
    /\ bytes' = archive
    /\ pc' = "install"
    /\ UNCHANGED <<storeVars, failures, restarts, clientVars, polled, expected, served>>

\* commit_if_newer
Install ==
    /\ pc = "install"
    /\ served' = IF BuiltAt[bytes.build] > BuiltAt[served.build] THEN bytes ELSE served
    /\ bytes' = Nothing
    /\ expected' = NoSha
    /\ pc' = "idle"
    /\ UNCHANGED <<storeVars, failures, restarts, clientVars, polled>>

\* The archive is rejected or does not decode: the tick ends with an error.
TickRejected ==
    /\ pc = "archive"
    /\ ~Loadable(archive) \/ archive.damaged
    /\ pc' = "idle"
    /\ expected' = NoSha
    /\ UNCHANGED <<storeVars, failures, restarts, clientVars, polled, bytes, served>>

\* A request to the store fails: the tick ends with an error, startup with exit.
RequestFails ==
    /\ failures < MaxFailures
    /\ failures' = failures + 1
    /\ UNCHANGED restarts
    /\ \/ /\ pc \in {"fetch", "archive"}
          /\ pc' = "idle"
          /\ expected' = NoSha
          /\ UNCHANGED <<storeVars, clientVars, polled, bytes, served>>
       \/ /\ pc = "boot_archive"
          /\ Exit

(***************************************************************************)
(* Specification                                                           *)
(***************************************************************************)
Publisher == PutSidecar \/ \E b \in Builds, d \in BOOLEAN : PutArchive(b, d)

Startup == BootFetch \/ BootDownload \/ BootInstall \/ BootRejected

Tick == Poll \/ Compare \/ Fetch \/ Download \/ Install \/ TickRejected

Next == Publisher \/ Startup \/ Tick \/ RequestFails \/ Restart

\* The process is restarted when it exits and its tasks are scheduled; nothing is
\* assumed of the publisher.
Spec == Init /\ [][Next]_vars /\ WF_vars(Startup \/ Tick)

(***************************************************************************)
(* Properties                                                              *)
(***************************************************************************)
TypeOK ==
    /\ sidecars \in Seq(Sidecar) /\ sidecars # <<>>
    /\ archive \in Archive /\ pending \in BOOLEAN /\ uploads \in Nat
    /\ failures \in Nat /\ restarts \in Nat
    /\ cachedEtag \in 0 .. Len(sidecars) /\ cachedVersion \in Nat
    /\ pc \in {"boot", "boot_archive", "boot_install",
               "idle", "compare", "fetch", "archive", "install"}
    /\ polled \in Nat /\ expected \in Builds \cup {NoSha}
    /\ bytes \in Archive \cup {Nothing} /\ served \in Archive \cup {Nothing}
    /\ pc \in {"boot_install", "install"} => bytes \in Archive
    /\ pc \in {"idle", "compare", "fetch", "archive", "install"} => served \in Archive

\* A poll answered with "not modified" reports the version of the version.json that
\* is published: the two caches, filled under two locks and kept over failed loads,
\* never drift apart.
CachesAgree == cachedEtag # 0 => cachedVersion = sidecars[cachedEtag].version

\* The index a process starts with has the digest published beside it.
BootVerified ==
    pc = "boot_install" /\ sidecars[cachedEtag].sha # NoSha
        => Matches(bytes, sidecars[cachedEtag].sha)

\* A full download is never wasted: with the archive put before version.json, what
\* the task downloads is newer than what it serves, even if more was published since
\* the poll.
NoFutileDownload ==
    [][Install => BuiltAt[bytes.build] > BuiltAt[served.build]]_vars

\* Once publishing stops with a sound archive and the version.json of it, the server
\* serves an index of at least that version, although failed loads have already
\* cached the etag of the new version.json.
EventuallyServesPublished ==
    \A b \in Builds :
        <>[](~pending /\ archive = [build |-> b, damaged |-> FALSE])
            => <>[](served # Nothing /\ BuiltAt[served.build] >= BuiltAt[b])

(***************************************************************************)
(* Inductive invariant behind the theorems of ObjectStoreIndexProofs.      *)
(***************************************************************************)
\* Versions are published in order, and never before the archive that has them.
PublishedInOrder ==
    \A i \in 1 .. Len(sidecars) : sidecars[i].version <= BuiltAt[archive.build]

\* What a load in progress will bring is newer than what is served.
LoadsNewer ==
    /\ pc = "compare" => polled <= BuiltAt[archive.build]
    /\ pc \in {"fetch", "archive"} => BuiltAt[archive.build] > BuiltAt[served.build]
    /\ pc = "install" => BuiltAt[bytes.build] > BuiltAt[served.build]

\* At startup the caches are empty, so the digest of version.json is the one checked.
BootExpects ==
    /\ pc = "boot" => cachedEtag = 0
    /\ pc \in {"boot_archive", "boot_install"} => cachedEtag # 0
    /\ pc = "boot_archive" => expected = sidecars[cachedEtag].sha

SourceInv ==
    /\ TypeOK /\ CachesAgree /\ BootVerified
    /\ PublishedInOrder /\ LoadsNewer /\ BootExpects
==============================================================================
