--------------------------- MODULE IndexFilesProofs ---------------------------
(***************************************************************************)
(* Proofs about IndexFiles, for any histories of builds, other sets and     *)
(* numbers of commands, kills and restarts.  The invariant says how far a   *)
(* running command has come in its order of files, that the files of the    *)
(* merged directory only get newer, and that what a load has read after     *)
(* manifest.json is not older than it.                                     *)
(***************************************************************************)
EXTENDS IndexFiles, SequenceTheorems, TLAPS

SourceFiles == {"catalog", "whole", "line", "idgd", "cards", "manifest"}
Files == {"catalog", "manifest", "idgd", "cards", "whole", "line"}
FileType == [run : Nat, from : Nat, lists : SUBSET Bitmaps]

TypeOK ==
    /\ shape \in Histories /\ others \in Others
    /\ builds \in Nat /\ builds <= Len(shape)
    /\ src \in [SourceFiles -> Nat]
    /\ plans \in Seq([build : Nat, ended : BOOLEAN])
    /\ out \in [Files -> FileType]
    /\ job \in {NoJob} \cup [command : {"build"}, at : 1 .. 6]
                       \cup [command : {"merge"}, at : 1 .. 7]
    /\ load \in UNION {[S -> FileType] : S \in SUBSET Files}
    /\ served \in [Files -> FileType]

\* What a build writes: bitmaps without a card have no file.
Writes(f) == f \in Bitmaps => f \in shape[builds].has

\* The files of the set's directory a build has come to are its own, and all are if it ended.
BuildInv ==
    /\ \A f \in SourceFiles : src[f] <= builds
    /\ job.command = "build" =>
            /\ builds > 0 /\ src.manifest < builds
            /\ \A i \in 1 .. 6 : i < job.at /\ Writes(BuildOrder[i]) => src[BuildOrder[i]] = builds
    /\ builds > 0 /\ src.manifest = builds =>
            \A f \in SourceFiles : Writes(f) => src[f] = builds

\* The files of the merged directory a merge has come to are its own.
MergeInv ==
    job.command = "merge" =>
        LET m == Len(plans)
        IN  /\ m > 0 /\ out.manifest.run < m
            /\ plans[m].ended => builds > 0 /\ plans[m].build = builds /\ src.manifest = builds
            /\ job.at > 1 => out.catalog.run = m
            /\ job.at > 3 => out.cards.run = m /\ out.cards.from = src.cards
            /\ \A f \in Merged : job.at > (IF f = "whole" THEN 4 ELSE 5) =>
                    out[f].run = m /\ out[f].from = src[f]
            /\ job.at > 6 => out.idgd.run = m /\ Merged \subseteq out.idgd.lists

\* Of the merged directory, at any moment.
OutInv ==
    /\ \A f \in Files : out[f].run <= Len(plans)
    /\ out.idgd.run >= out.manifest.run /\ out.cards.run >= out.manifest.run
    /\ "whole" \in out.idgd.lists => out.whole.run >= out.idgd.run

\* What a load has read is not newer than the directory, and not older than its manifest.
LoadInv ==
    /\ \A f \in DOMAIN load : load[f].run <= out[f].run
    /\ Done("whole") => Done("cards")
    /\ Done("cards") => Done("idgd")
    /\ Done("idgd") => Done("manifest")
    /\ \A f \in {"idgd", "cards", "whole"} : Done(f) => load[f].run >= load.manifest.run
    /\ Done("idgd") /\ "whole" \in load.idgd.lists => out.whole.run >= load.idgd.run

DirInv == BuildInv /\ MergeInv /\ OutInv /\ FinishedIsFresh
FilesInv == TypeOK /\ DirInv /\ LoadInv /\ NothingOlderThanManifest

(***************************************************************************)
(* The orders                                                              *)
(***************************************************************************)
LEMMA Orders ==
    /\ Len(BuildOrder) = 6 /\ DOMAIN BuildOrder = 1 .. 6
    /\ BuildOrder[1] = "catalog" /\ BuildOrder[2] = "whole" /\ BuildOrder[3] = "line"
    /\ BuildOrder[4] = "idgd" /\ BuildOrder[5] = "cards" /\ BuildOrder[6] = "manifest"
    /\ Len(MergeOrder) = 7
    /\ MergeOrder[1] = "catalog" /\ MergeOrder[2] = "rows" /\ MergeOrder[3] = "cards"
    /\ MergeOrder[4] = "whole" /\ MergeOrder[5] = "line" /\ MergeOrder[6] = "idgd"
    /\ MergeOrder[7] = "manifest"
    /\ DOMAIN LoadOrder = 1 .. 6
    /\ LoadOrder[1] = "catalog" /\ LoadOrder[2] = "manifest" /\ LoadOrder[3] = "idgd"
    /\ LoadOrder[4] = "cards" /\ LoadOrder[5] = "whole" /\ LoadOrder[6] = "line"
BY DEF BuildOrder, MergeOrder, LoadOrder

LEMMA FilesOfOrders ==
    /\ {BuildOrder[i] : i \in DOMAIN BuildOrder} = SourceFiles
    /\ {LoadOrder[i] : i \in DOMAIN LoadOrder} = Files
<1>1. {BuildOrder[i] : i \in 1 .. 6} = SourceFiles
  BY Orders, 1 .. 6 = {1, 2, 3, 4, 5, 6} DEF SourceFiles
<1>2. {LoadOrder[i] : i \in 1 .. 6} = Files
  BY Orders, 1 .. 6 = {1, 2, 3, 4, 5, 6} DEF Files
<1> QED
  BY <1>1, <1>2, Orders

\* The next file of a command, and the command after it.
LEMMA Advances ==
    ASSUME TypeOK
    PROVE  /\ job.command = "build" =>
                /\ job \in [command : {"build"}, at : 1 .. 6]
                /\ Advance(BuildOrder) =>
                        job' = IF job.at = 6 THEN NoJob ELSE [command |-> "build", at |-> job.at + 1]
           /\ job.command = "merge" =>
                /\ job \in [command : {"merge"}, at : 1 .. 7]
                /\ Advance(MergeOrder) =>
                        job' = IF job.at = 7 THEN NoJob ELSE [command |-> "merge", at |-> job.at + 1]
BY Orders DEF TypeOK, Advance, NoJob

LEMMA InitialFiles == Init => FilesInv
<1> SUFFICES ASSUME Init PROVE FilesInv
  OBVIOUS
<1>1. shape \in Histories /\ others \in Others /\ job = NoJob /\ load = NothingRead /\ served = NoIndex
  BY DEF Init
<1>2. shape \in Seq([span : Nat, has : SUBSET Bitmaps]) /\ shape # <<>>
  BY <1>1, HistoriesAssumption
<1>3. Len(shape) \in Nat /\ Len(shape) >= 1 /\ shape[1] \in [span : Nat, has : SUBSET Bitmaps]
      /\ others \subseteq Bitmaps
  <2>1. Len(shape) \in Nat /\ Len(shape) # 0
    BY <1>2, EmptySeq, LenProperties
  <2>2. 1 \in 1 .. Len(shape)
    BY <2>1
  <2>3. shape[1] \in [span : Nat, has : SUBSET Bitmaps]
    BY <1>2, <2>2, ElementOfSeq
  <2>4. others \subseteq Bitmaps
    BY <1>1, HistoriesAssumption
  <2> QED
    BY <2>1, <2>3, <2>4
<1>4. Absent \in FileType /\ DOMAIN NoIndex = Files /\ NoIndex \in [Files -> FileType]
      /\ \A f \in Files : NoIndex[f] = Absent
  BY FilesOfOrders DEF Absent, File, FileType, NoIndex
<1>5. load \in [{} -> FileType] /\ DOMAIN load = {}
  BY <1>1 DEF NothingRead
<1>6. NothingOlderThanManifest
  BY <1>1, <1>4 DEF NothingOlderThanManifest, Files
<1>7. LoadInv
  BY <1>5 DEF LoadInv, Done
<1>8. CASE Empty
  <2>1. src = [f \in SourceFiles |-> 0] /\ out = NoIndex /\ plans = <<>> /\ builds = 0
    BY <1>8, FilesOfOrders DEF Empty
  <2>2. TypeOK
    <3>1. src \in [SourceFiles -> Nat] /\ plans \in Seq([build : Nat, ended : BOOLEAN])
      BY <2>1
    <3>2. builds \in Nat /\ builds <= Len(shape)
      BY <1>3, <2>1
    <3> QED
      BY <1>1, <1>4, <1>5, <2>1, <3>1, <3>2 DEF TypeOK
  <2>3. BuildInv /\ MergeInv
    BY <1>1, <2>1 DEF BuildInv, MergeInv, NoJob
  <2>4. OutInv
    BY <1>4, <2>1 DEF OutInv, Files, Absent, File
  <2>5. FinishedIsFresh
    BY <2>1 DEF FinishedIsFresh, Finished
  <2> QED
    BY <1>6, <1>7, <2>2, <2>3, <2>4, <2>5 DEF FilesInv, DirInv
<1>9. CASE Deployed
  <2>1. /\ src = [f \in SourceFiles |-> IF f \in Bitmaps \ shape[1].has THEN 0 ELSE 1]
        /\ plans = <<[build |-> 1, ended |-> TRUE]>> /\ builds = 1
        /\ out = [f \in Files |->
                    IF f \in Bitmaps \ (shape[1].has \cup others) THEN Absent
                    ELSE CASE f = "catalog" \/ f = "cards" -> File(1, 1, {})
                           [] f = "idgd" -> File(1, 0, shape[1].has \cup others)
                           [] OTHER -> File(1, src[f], {})]
    BY <1>4, <1>9, FilesOfOrders DEF Deployed
  <2>2. Len(plans) = 1 /\ plans[1] = [build |-> 1, ended |-> TRUE]
        /\ plans \in Seq([build : Nat, ended : BOOLEAN])
    BY <2>1
  <2>3. src \in [SourceFiles -> Nat] /\ \A f \in SourceFiles : src[f] <= 1
        /\ src.manifest = 1 /\ \A g \in SourceFiles : Writes(g) => src[g] = 1
    BY <2>1 DEF SourceFiles, Bitmaps, Writes
  <2>4. /\ out.catalog = File(1, 1, {}) /\ out.cards = File(1, 1, {})
        /\ out.idgd = File(1, 0, shape[1].has \cup others) /\ out.manifest = File(1, 1, {})
        /\ \A f \in Bitmaps : out[f] = IF f \in shape[1].has \cup others
                                        THEN File(1, src[f], {}) ELSE Absent
    BY <2>1, <2>3 DEF Files, Bitmaps, SourceFiles
  <2>5. \A f \in Files : out[f] \in FileType /\ out[f].run <= 1
    <3>1. shape[1].has \subseteq Bitmaps /\ shape[1].has \cup others \in SUBSET Bitmaps
      BY <1>3
    <3>2. \A g \in {0, 1}, n \in Nat, bs \in SUBSET Bitmaps :
                File(g, n, bs) \in FileType /\ File(g, n, bs).run <= 1
      BY DEF FileType, File
    <3>3. \A f \in Bitmaps : src[f] \in Nat
      BY <2>3 DEF Bitmaps, SourceFiles
    <3>4. \A f \in Bitmaps : out[f] \in FileType /\ out[f].run <= 1
      BY <2>4, <3>2, <3>3 DEF Absent
    <3>5. \A f \in {"catalog", "cards", "idgd", "manifest"} : out[f] \in FileType /\ out[f].run <= 1
      BY <2>4, <3>1, <3>2
    <3> QED
      BY <3>4, <3>5 DEF Files, Bitmaps
  <2>6. TypeOK
    BY <1>1, <1>3, <1>4, <1>5, <2>1, <2>2, <2>3, <2>5 DEF TypeOK
  <2>7. BuildInv /\ MergeInv
    BY <1>1, <2>1, <2>3 DEF BuildInv, MergeInv, NoJob
  <2>8. OutInv
    BY <2>2, <2>4, <2>5 DEF OutInv, Bitmaps, File
  <2>9. FinishedIsFresh
    <3>1. \A f \in shape[1].has : src[f] = 1 /\ f \in Bitmaps
      BY <1>3, <2>1 DEF SourceFiles, Bitmaps
    <3>2. \A f \in shape[1].has :
                f \in out.idgd.lists /\ out[f].run = 1 /\ out[f].from = 1
      BY <2>4, <3>1 DEF File
    <3>3. \A f \in {"catalog", "cards", "idgd"} : out[f].run = 1
      BY <2>4 DEF File
    <3>4. out.cards.from = 1 /\ plans[1].build = 1
      BY <2>2, <2>4 DEF File
    <3> QED
      BY <2>2, <3>2, <3>3, <3>4 DEF FinishedIsFresh
  <2> QED
    BY <1>6, <1>7, <2>6, <2>7, <2>8, <2>9 DEF FilesInv, DirInv
<1> QED
  BY <1>8, <1>9 DEF Init

(***************************************************************************)
(* build, and commands that are killed                                     *)
(***************************************************************************)
LEMMA OutStays ==
    ASSUME OutInv, FinishedIsFresh, UNCHANGED <<shape, plans, out>>
    PROVE  OutInv' /\ FinishedIsFresh'
BY DEF OutInv, FinishedIsFresh, Finished

LEMMA KillStep ==
    ASSUME TypeOK, DirInv, Kill
    PROVE  TypeOK' /\ DirInv'
<1>1. TypeOK'
  BY DEF TypeOK, Kill, serverVars
<1>2. BuildInv' /\ MergeInv'
  BY DEF DirInv, BuildInv, MergeInv, Kill, NoJob, Writes
<1> QED
  BY <1>1, <1>2, OutStays DEF DirInv, Kill

LEMMA StartBuildStep ==
    ASSUME TypeOK, DirInv, StartBuild
    PROVE  TypeOK' /\ DirInv'
<1>1. job' = [command |-> "build", at |-> 1] /\ builds' = builds + 1 /\ builds' <= Len(shape)
      /\ UNCHANGED <<shape, src, others, plans, out, load, served>>
  <2>1. shape \in Seq([span : Nat, has : SUBSET Bitmaps])
    BY HistoriesAssumption DEF TypeOK
  <2> QED
    BY <2>1 DEF TypeOK, StartBuild, serverVars
<1>2. TypeOK'
  BY <1>1 DEF TypeOK
<1>3. \A f \in SourceFiles : src[f] \in Nat /\ src[f] <= builds
  BY DEF TypeOK, DirInv, BuildInv
<1>4. BuildInv'
  BY <1>1, <1>3 DEF BuildInv, SourceFiles, TypeOK
<1>5. MergeInv'
  BY <1>1 DEF MergeInv
<1> QED
  BY <1>1, <1>2, <1>4, <1>5, OutStays DEF DirInv

LEMMA BuildFileStep ==
    ASSUME TypeOK, DirInv, BuildFile
    PROVE  TypeOK' /\ DirInv'
<1> DEFINE f == BuildOrder[job.at]
<1>1. /\ job \in [command : {"build"}, at : 1 .. 6]
      /\ job' = IF job.at = 6 THEN NoJob ELSE [command |-> "build", at |-> job.at + 1]
  BY Advances DEF BuildFile
<1>2. f \in SourceFiles /\ (f = "manifest" <=> job.at = 6)
  BY <1>1, Orders DEF SourceFiles
<1>3. src' = IF Writes(f) THEN [src EXCEPT ![f] = builds] ELSE src
  BY DEF BuildFile, Writes
<1>4. UNCHANGED <<shape, builds, others, plans, out, load, served>>
  BY DEF BuildFile, serverVars
<1> HIDE DEF f
<1>5. TypeOK'
  <2>1. src' \in [SourceFiles -> Nat]
    BY <1>2, <1>3 DEF TypeOK
  <2>2. job' \in {NoJob} \cup [command : {"build"}, at : 1 .. 6]
    BY <1>1
  <2> QED
    BY <1>4, <2>1, <2>2 DEF TypeOK
<1>6. \A g : Writes(g)' <=> Writes(g)
  BY <1>4 DEF Writes
<1>7. \A g \in SourceFiles : src'[g] = IF g = f /\ Writes(f) THEN builds ELSE src[g]
  BY <1>2, <1>3 DEF TypeOK
<1>8. builds \in Nat /\ builds > 0 /\ src.manifest < builds /\ Writes("manifest")
      /\ \A i \in 1 .. 6 : i < job.at /\ Writes(BuildOrder[i]) => src[BuildOrder[i]] = builds
  BY <1>1 DEF DirInv, BuildInv, Writes, Bitmaps, TypeOK
<1>9. \A i \in 1 .. 6 : i <= job.at /\ Writes(BuildOrder[i]) => src'[BuildOrder[i]] = builds
  <2> SUFFICES ASSUME NEW i \in 1 .. 6, i <= job.at, Writes(BuildOrder[i])
               PROVE  src'[BuildOrder[i]] = builds
    OBVIOUS
  <2>1. BuildOrder[i] \in SourceFiles
    BY Orders DEF SourceFiles
  <2>2. CASE i = job.at
    BY <1>7, <2>1, <2>2 DEF f
  <2>3. CASE i # job.at
    <3>1. i < job.at
      BY <1>1, <2>3
    <3> QED
      BY <1>7, <1>8, <2>1, <3>1
  <2> QED
    BY <2>2, <2>3
<1>10. BuildInv'
  <2>1. \A g \in SourceFiles : src'[g] <= builds'
    BY <1>4, <1>7, <1>8 DEF DirInv, BuildInv
  <2>2. CASE job.at = 6
    <3>1. \A g \in SourceFiles : \E i \in 1 .. 6 : g = BuildOrder[i]
      BY FilesOfOrders, Orders
    <3>2. \A g \in SourceFiles : Writes(g) => src'[g] = builds
      BY <1>1, <1>9, <2>2, <3>1
    <3> QED
      BY <1>1, <1>4, <1>6, <2>1, <2>2, <3>2 DEF BuildInv, NoJob
  <2>3. CASE job.at # 6
    <3>1. src'.manifest = src.manifest
      BY <1>2, <1>7, <2>3 DEF SourceFiles
    <3>2. job' = [command |-> "build", at |-> job.at + 1]
      BY <1>1, <2>3
    <3>3. \A i \in 1 .. 6 : i < job'.at => i <= job.at
      BY <1>1, <3>2
    <3> QED
      BY <1>4, <1>6, <1>8, <1>9, <2>1, <3>1, <3>2, <3>3 DEF BuildInv
  <2> QED
    BY <2>2, <2>3
<1>11. MergeInv'
  BY <1>1 DEF MergeInv, NoJob
<1> QED
  BY <1>4, <1>5, <1>10, <1>11, OutStays DEF DirInv

(***************************************************************************)
(* merge                                                                   *)
(***************************************************************************)
LEMMA StartMergeStep ==
    ASSUME TypeOK, DirInv, StartMerge
    PROVE  TypeOK' /\ DirInv'
<1> DEFINE plan == [build |-> src.catalog, ended |-> src.manifest = builds]
<1>1. /\ plans' = Append(plans, plan) /\ job' = [command |-> "merge", at |-> 1]
      /\ job = NoJob /\ src.manifest # 0
      /\ UNCHANGED <<shape, builds, src, others, out, load, served>>
  BY DEF StartMerge, serverVars
<1>2. plan \in [build : Nat, ended : BOOLEAN]
  BY DEF TypeOK, SourceFiles
<1> HIDE DEF plan
<1>3. /\ plans' \in Seq([build : Nat, ended : BOOLEAN])
      /\ Len(plans) \in Nat /\ Len(plans') = Len(plans) + 1 /\ plans'[Len(plans) + 1] = plan
  BY <1>1, <1>2 DEF TypeOK
<1>4. TypeOK'
  BY <1>1, <1>3 DEF TypeOK
<1>5. BuildInv'
  BY <1>1 DEF DirInv, BuildInv, Writes
<1>6. \A f \in Files : out[f].run \in Nat /\ out[f].run <= Len(plans)
  BY DEF TypeOK, DirInv, OutInv, FileType
<1>7. OutInv'
  BY <1>1, <1>3, <1>6 DEF DirInv, OutInv
<1>8. out'.manifest.run < Len(plans')
  BY <1>1, <1>3, <1>6 DEF Files
<1>9. plan.ended => builds > 0 /\ plan.build = builds /\ src.manifest = builds
  <2> SUFFICES ASSUME plan.ended PROVE builds > 0 /\ plan.build = builds /\ src.manifest = builds
    OBVIOUS
  <2>1. src.manifest = builds
    BY Zenon DEF plan
  <2>2. builds > 0
    BY <1>1, <2>1 DEF TypeOK
  <2>3. Writes("catalog") /\ "catalog" \in SourceFiles
    BY DEF Writes, Bitmaps, SourceFiles
  <2>4. src.catalog = builds
    BY <2>1, <2>2, <2>3 DEF DirInv, BuildInv
  <2>5. plan.build = src.catalog
    BY DEF plan
  <2> QED
    BY <2>1, <2>2, <2>4, <2>5
<1>10. MergeInv'
  <2>1. Len(plans') > 0 /\ plans'[Len(plans')] = plan /\ job'.at = 1
    BY <1>1, <1>3
  <2> QED
    BY <1>1, <1>8, <1>9, <2>1 DEF MergeInv
<1>11. FinishedIsFresh'
  BY <1>8 DEF FinishedIsFresh, Finished
<1> QED
  BY <1>4, <1>5, <1>7, <1>10, <1>11 DEF DirInv

\* The m-th merge writes a file of the merged directory.
LEMMA MergeFileWrites ==
    ASSUME TypeOK, MergeFile, NEW m, m = Len(plans)
    PROVE  \/ job.at = 1 /\ out' = [out EXCEPT !.catalog = File(m, plans[m].build, {})]
           \/ job.at = 2 /\ out' = [out EXCEPT !.cards = File(m, 0, {})]
           \/ job.at = 3 /\ out' = [out EXCEPT !.cards = File(m, src.cards, {})]
           \/ job.at = 4 /\ out' = IF "whole" \in Merged
                                   THEN [out EXCEPT !.whole = File(m, src.whole, {})] ELSE out
           \/ job.at = 5 /\ out' = IF "line" \in Merged
                                   THEN [out EXCEPT !.line = File(m, src.line, {})] ELSE out
           \/ job.at = 6 /\ out' = [out EXCEPT !.idgd = File(m, 0, Listed)]
           \/ job.at = 7 /\ out' = [out EXCEPT !.manifest = File(m, 0, {})]
<1>1. job.at \in 1 .. 7
  BY Advances DEF MergeFile
<1>2. CASE job.at = 1
  BY <1>2, Orders DEF MergeFile, Bitmaps
<1>3. CASE job.at = 2
  BY <1>3, Orders DEF MergeFile, Bitmaps
<1>4. CASE job.at = 3
  BY <1>4, Orders DEF MergeFile, Bitmaps
<1>5. CASE job.at = 4
  <2>1. out' = [out EXCEPT !.whole = MergedFile("whole")]
    BY <1>5, Orders DEF MergeFile, Bitmaps
  <2>2. out.whole = out["whole"] /\ [out EXCEPT !.whole = out["whole"]] = out
    BY DEF TypeOK, Files
  <2> QED
    BY <1>5, <2>1, <2>2 DEF MergedFile
<1>6. CASE job.at = 5
  <2>1. out' = [out EXCEPT !.line = MergedFile("line")]
    BY <1>6, Orders DEF MergeFile, Bitmaps
  <2>2. out.line = out["line"] /\ [out EXCEPT !.line = out["line"]] = out
    BY DEF TypeOK, Files
  <2> QED
    BY <1>6, <2>1, <2>2 DEF MergedFile
<1>7. CASE job.at = 6
  BY <1>7, Orders DEF MergeFile, Bitmaps
<1>8. CASE job.at = 7
  BY <1>8, Orders DEF MergeFile, Bitmaps
<1> QED
  BY <1>1, <1>2, <1>3, <1>4, <1>5, <1>6, <1>7, <1>8

LEMMA MergeFileStep ==
    ASSUME TypeOK, DirInv, MergeFile
    PROVE  /\ TypeOK' /\ DirInv'
           /\ \A f \in Files : out'[f].run >= out[f].run
<1> DEFINE m == Len(plans)
<1>1. /\ job \in [command : {"merge"}, at : 1 .. 7]
      /\ job' = IF job.at = 7 THEN NoJob ELSE [command |-> "merge", at |-> job.at + 1]
  BY Advances DEF MergeFile
<1>2. UNCHANGED <<shape, builds, src, others, plans, load, served>>
  BY DEF MergeFile, serverVars
<1>3. Merged' = Merged /\ Merged \subseteq Bitmaps /\ ("line" \in Merged => "whole" \in Merged)
  BY <1>2 DEF Merged, HasCards, Bitmaps
<1>4. m \in Nat /\ \A f \in Files : out[f] \in FileType /\ out[f].run <= m
  BY DEF TypeOK, DirInv, OutInv
<1>5. /\ m > 0 /\ out.manifest.run < m
      /\ plans[m].ended => builds > 0 /\ plans[m].build = builds /\ src.manifest = builds
      /\ job.at > 1 => out.catalog.run = m
      /\ job.at > 3 => out.cards.run = m /\ out.cards.from = src.cards
      /\ \A f \in Merged : job.at > (IF f = "whole" THEN 4 ELSE 5) =>
                    out[f].run = m /\ out[f].from = src[f]
      /\ job.at > 6 => out.idgd.run = m /\ Merged \subseteq out.idgd.lists
  BY <1>1 DEF DirInv, MergeInv
<1>6. PICK g \in Files, new \in FileType :
            /\ out' = [out EXCEPT ![g] = new] \/ out' = out
            /\ new.run = m
  <2>1. \A f \in Files : src[f] \in Nat
    BY DEF TypeOK, Files, SourceFiles
  <2>2. plans[m].build \in Nat
    <3>1. m \in 1 .. Len(plans) /\ plans \in Seq([build : Nat, ended : BOOLEAN])
      BY <1>4, <1>5 DEF TypeOK
    <3>2. plans[m] \in [build : Nat, ended : BOOLEAN]
      BY <3>1, ElementOfSeq
    <3> QED
      BY <3>2
  <2>3. \A n \in Nat, bs \in SUBSET Bitmaps : File(m, n, bs) \in FileType /\ File(m, n, bs).run = m
    BY <1>4 DEF File, FileType
  <2>4. Listed \subseteq Bitmaps /\ {} \subseteq Bitmaps
    BY DEF Listed
  <2> HIDE DEF m
  <2> QED
    <3>1. \/ job.at = 1 /\ out' = [out EXCEPT !["catalog"] = File(m, plans[m].build, {})]
          \/ job.at = 2 /\ out' = [out EXCEPT !["cards"] = File(m, 0, {})]
          \/ job.at = 3 /\ out' = [out EXCEPT !["cards"] = File(m, src.cards, {})]
          \/ job.at = 4 /\ (out' = [out EXCEPT !["whole"] = File(m, src.whole, {})] \/ out' = out)
          \/ job.at = 5 /\ (out' = [out EXCEPT !["line"] = File(m, src.line, {})] \/ out' = out)
          \/ job.at = 6 /\ out' = [out EXCEPT !["idgd"] = File(m, 0, Listed)]
          \/ job.at = 7 /\ out' = [out EXCEPT !["manifest"] = File(m, 0, {})]
      BY MergeFileWrites DEF m
    <3>2. /\ File(m, plans[m].build, {}) \in FileType /\ File(m, plans[m].build, {}).run = m
          /\ File(m, 0, {}) \in FileType /\ File(m, 0, {}).run = m
          /\ \A f \in Files : File(m, src[f], {}) \in FileType /\ File(m, src[f], {}).run = m
          /\ File(m, 0, Listed) \in FileType /\ File(m, 0, Listed).run = m
      BY <1>5, <2>1, <2>2, <2>3, <2>4 DEF m
    <3> QED
      BY <3>1, <3>2 DEF Files
<1> HIDE DEF m
<1>7. /\ out' \in [Files -> FileType]
      /\ \A f \in Files : out'[f].run \in Nat /\ out'[f].run >= out[f].run /\ out'[f].run <= m
  <2>1. out \in [Files -> FileType] /\ \A f \in FileType : f.run \in Nat
    BY DEF TypeOK, FileType
  <2>2. out' \in [Files -> FileType]
    BY <1>6, <2>1
  <2>3. \A f \in Files : (out'[f] = new /\ f = g) \/ out'[f] = out[f]
    BY <1>6, <2>1
  <2> QED
    BY <1>4, <1>6, <2>1, <2>2, <2>3
<1>8. TypeOK'
  <2>1. job' \in {NoJob} \cup [command : {"merge"}, at : 1 .. 7]
    BY <1>1
  <2> QED
    BY <1>2, <1>7, <2>1 DEF TypeOK
<1>9. BuildInv'
  BY <1>1, <1>2 DEF DirInv, BuildInv, Writes, NoJob
<1>10. /\ out'.catalog = IF job.at = 1 THEN File(m, plans[m].build, {}) ELSE out.catalog
       /\ out'.cards = IF job.at = 2 THEN File(m, 0, {})
                       ELSE IF job.at = 3 THEN File(m, src.cards, {}) ELSE out.cards
       /\ out'.whole = IF job.at = 4 /\ "whole" \in Merged
                       THEN File(m, src.whole, {}) ELSE out.whole
       /\ out'.line = IF job.at = 5 /\ "line" \in Merged THEN File(m, src.line, {}) ELSE out.line
       /\ out'.idgd = IF job.at = 6 THEN File(m, 0, Listed) ELSE out.idgd
       /\ out'.manifest = IF job.at = 7 THEN File(m, 0, {}) ELSE out.manifest
  <2>1. out \in [Files -> FileType]
    BY DEF TypeOK
  <2>2. CASE job.at = 1
    <3>1. out' = [out EXCEPT !.catalog = File(m, plans[m].build, {})]
      BY <2>2, MergeFileWrites DEF m
    <3> QED
      BY <2>1, <2>2, <3>1 DEF Files
  <2>3. CASE job.at = 2
    <3>1. out' = [out EXCEPT !.cards = File(m, 0, {})]
      BY <2>3, MergeFileWrites DEF m
    <3> QED
      BY <2>1, <2>3, <3>1 DEF Files
  <2>4. CASE job.at = 3
    <3>1. out' = [out EXCEPT !.cards = File(m, src.cards, {})]
      BY <2>4, MergeFileWrites DEF m
    <3> QED
      BY <2>1, <2>4, <3>1 DEF Files
  <2>5. CASE job.at = 4
    <3>1. out' = IF "whole" \in Merged
                 THEN [out EXCEPT !.whole = File(m, src.whole, {})] ELSE out
      BY <2>5, MergeFileWrites DEF m
    <3> QED
      BY <2>1, <2>5, <3>1 DEF Files
  <2>6. CASE job.at = 5
    <3>1. out' = IF "line" \in Merged
                 THEN [out EXCEPT !.line = File(m, src.line, {})] ELSE out
      BY <2>6, MergeFileWrites DEF m
    <3> QED
      BY <2>1, <2>6, <3>1 DEF Files
  <2>7. CASE job.at = 6
    BY <2>1, <2>7, MergeFileWrites DEF m, Files
  <2>8. CASE job.at = 7
    BY <2>1, <2>8, MergeFileWrites DEF m, Files
  <2>9. job.at \in {1, 2, 3, 4, 5, 6, 7}
    BY <1>1
  <2> QED
    BY <2>2, <2>3, <2>4, <2>5, <2>6, <2>7, <2>8, <2>9
<1>11. \A n, bs : File(m, n, bs).run = m /\ File(m, n, bs).from = n /\ File(m, n, bs).lists = bs
  BY DEF File
<1>12. Merged \subseteq Bitmaps /\ (job.at > 5 => Merged \subseteq Listed)
       /\ ("whole" \in Listed => "whole" \in Merged)
  <2>1. ASSUME job.at > 5, NEW f \in Merged PROVE f \in Listed
    <3>1. f \in Bitmaps /\ "whole" \in Merged /\ (f = "whole" \/ f = "line")
      BY <1>3 DEF Bitmaps
    <3>2. out[f].run = m
      BY <1>1, <1>5, <2>1, <3>1
    <3>3. out[f] # Absent
      BY <1>5, <3>2 DEF Absent, File
    <3> QED
      BY <3>1, <3>3 DEF Listed
  <2> QED
    BY <1>3, <2>1 DEF Listed
<1>13. MergeInv'
  <2> SUFFICES ASSUME job'.command = "merge" PROVE MergeInv'
    BY DEF MergeInv
  <2>1. job.at # 7 /\ job'.at = job.at + 1
    BY <1>1 DEF NoJob
  <2>2. out'.manifest.run < m
    BY <1>5, <1>10, <2>1
  <2>3. job'.at > 1 => out'.catalog.run = m
    BY <1>1, <1>5, <1>10, <1>11, <2>1
  <2>4. job'.at > 3 => out'.cards.run = m /\ out'.cards.from = src.cards
    BY <1>1, <1>5, <1>10, <1>11, <2>1
  <2>5. ASSUME NEW f \in Merged, job'.at > (IF f = "whole" THEN 4 ELSE 5)
        PROVE  out'[f].run = m /\ out'[f].from = src[f]
    <3>1. CASE f = "whole"
      BY <1>1, <1>5, <1>10, <1>11, <2>1, <2>5, <3>1
    <3>2. CASE f = "line"
      BY <1>1, <1>5, <1>10, <1>11, <2>1, <2>5, <3>2
    <3> QED
      BY <1>3, <3>1, <3>2 DEF Bitmaps
  <2>6. job'.at > 6 => out'.idgd.run = m /\ Merged \subseteq out'.idgd.lists
    BY <1>1, <1>5, <1>10, <1>11, <1>12, <2>1
  <2>7. Len(plans') = m /\ plans' = plans
    BY <1>2 DEF m
  <2> QED
    BY <1>2, <1>3, <1>5, <2>2, <2>3, <2>4, <2>5, <2>6, <2>7 DEF MergeInv
<1>14. OutInv'
  <2>1. \A f \in {"catalog", "manifest", "idgd", "cards", "whole"} :
            /\ out[f].run \in Nat /\ out[f].run <= m
            /\ out'[f].run \in Nat /\ out'[f].run <= m
    BY <1>4, <1>7 DEF Files, FileType
  <2>2. out.idgd.run >= out.manifest.run /\ out.cards.run >= out.manifest.run
        /\ ("whole" \in out.idgd.lists => out.whole.run >= out.idgd.run)
    BY DEF DirInv, OutInv
  <2>3. out'.idgd.run >= out'.manifest.run /\ out'.cards.run >= out'.manifest.run
    BY <1>5, <1>10, <1>11, <2>1, <2>2
  <2>4. ASSUME "whole" \in out'.idgd.lists PROVE out'.whole.run >= out'.idgd.run
    <3>1. CASE job.at = 6
      <4>1. "whole" \in Merged
        BY <1>10, <1>11, <1>12, <2>4, <3>1
      <4> QED
        BY <1>5, <1>10, <1>11, <2>1, <3>1, <4>1
    <3>2. CASE job.at # 6
      BY <1>10, <1>11, <2>1, <2>2, <2>4, <3>2
    <3> QED
      BY <3>1, <3>2
  <2>5. Len(plans') = m
    BY <1>2 DEF m
  <2> QED
    BY <1>7, <2>3, <2>4, <2>5 DEF OutInv
<1>15. FinishedIsFresh'
  <2>1. Len(plans') = m /\ plans' = plans /\ shape' = shape
    BY <1>2 DEF m
  <2>2. CASE job.at # 7
    <3>1. out'.manifest.run < m
      BY <1>5, <1>10, <2>2
    <3> QED
      BY <1>4, <1>7, <2>1, <3>1 DEF FinishedIsFresh, Finished, Files
  <2>3. CASE job.at = 7
    <3> SUFFICES ASSUME plans[m].ended, NEW n, n = plans[m].build
                 PROVE  /\ \A f \in {"catalog", "cards", "idgd"} : out[f].run = m
                        /\ out.cards.from = n
                        /\ \A f \in shape[n].has :
                                f \in out.idgd.lists /\ out[f].run = m /\ out[f].from = n
      <4>1. \A f \in Files \ {"manifest"} : out'[f] = out[f]
        BY <1>10, <2>3 DEF Files
      <4>2. shape[plans[m].build].has \subseteq Bitmaps \/ ~plans[m].ended
        <5>1. shape \in Seq([span : Nat, has : SUBSET Bitmaps])
          BY HistoriesAssumption DEF TypeOK
        <5>2. plans[m].ended => builds \in 1 .. Len(shape) /\ plans[m].build = builds
          BY <1>5, <5>1, LenProperties DEF TypeOK
        <5>3. \A i \in 1 .. Len(shape) : shape[i] \in [span : Nat, has : SUBSET Bitmaps]
          BY <5>1, ElementOfSeq
        <5> QED
          BY <5>2, <5>3
      <4> QED
        BY <2>1, <4>1, <4>2 DEF FinishedIsFresh, Finished, Files, Bitmaps
    <3>1. builds > 0 /\ n = builds /\ src.manifest = builds /\ builds \in 1 .. Len(shape)
      BY <1>5 DEF TypeOK
    <3>2. \A f \in SourceFiles : Writes(f) => src[f] = builds
      BY <3>1 DEF DirInv, BuildInv
    <3>3. shape \in Seq([span : Nat, has : SUBSET Bitmaps]) /\ \A i \in DOMAIN shape : Nested(shape[i].has)
      BY HistoriesAssumption DEF TypeOK
    <3>4. shape[n] \in [span : Nat, has : SUBSET Bitmaps] /\ Nested(shape[n].has)
      <4>1. n \in DOMAIN shape
        BY <3>1, <3>3, LenProperties
      <4> QED
        BY <3>1, <3>3, <4>1, ElementOfSeq
    <3>5. src.cards = n /\ src.idgd = n
      BY <3>1, <3>2 DEF SourceFiles, Writes, Bitmaps
    <3>6. ASSUME NEW f \in shape[n].has PROVE f \in Merged /\ src[f] = n
      <4>1. f \in Bitmaps /\ "whole" \in shape[n].has
        BY <3>4 DEF Nested, Bitmaps
      <4>2. src[f] = n /\ src["whole"] = n
        BY <3>1, <3>2, <4>1 DEF SourceFiles, Writes, Bitmaps
      <4>3. HasCards(f) /\ HasCards("whole")
        BY <3>1, <4>2 DEF HasCards
      <4> QED
        BY <3>5, <4>1, <4>2, <4>3 DEF Merged
    <3>7. \A f \in shape[n].has : out[f].run = m /\ out[f].from = n /\ f \in out.idgd.lists
      BY <1>5, <2>3, <3>6
    <3> QED
      BY <1>5, <2>3, <3>5, <3>7
  <2> QED
    BY <2>2, <2>3
<1> QED
  BY <1>7, <1>8, <1>9, <1>13, <1>14, <1>15 DEF DirInv

(***************************************************************************)
(* The server                                                              *)
(***************************************************************************)
LEMMA LoadTypes ==
    ASSUME TypeOK
    PROVE  DOMAIN load \subseteq Files /\ \A f \in DOMAIN load : load[f] \in FileType
BY DEF TypeOK

\* The directory moves on under a load.
LEMMA DirectoryGrows ==
    ASSUME TypeOK, LoadInv, NothingOlderThanManifest, UNCHANGED <<load, served>>,
           out' \in [Files -> FileType], \A f \in Files : out'[f].run >= out[f].run
    PROVE  LoadInv' /\ NothingOlderThanManifest'
<1>1. NothingOlderThanManifest'
  BY DEF NothingOlderThanManifest
<1>2. \A f \in Files : out[f].run \in Nat /\ out'[f].run \in Nat /\ out'[f].run >= out[f].run
  BY DEF TypeOK, FileType
<1>3. \A f \in DOMAIN load : load[f].run <= out'[f].run
  <2> SUFFICES ASSUME NEW f \in DOMAIN load PROVE load[f].run <= out'[f].run
    OBVIOUS
  <2>1. f \in Files /\ load[f].run \in Nat
    BY LoadTypes DEF FileType
  <2> QED
    BY <1>2, <2>1 DEF LoadInv
<1>4. Done("idgd") /\ "whole" \in load.idgd.lists => out'.whole.run >= load.idgd.run
  <2>1. Done("idgd") => load.idgd.run \in Nat
    BY LoadTypes DEF FileType, Done
  <2> QED
    BY <1>2, <2>1 DEF LoadInv, Files
<1>5. \A f : Done(f)' <=> Done(f)
  BY DEF Done
<1> QED
  BY <1>1, <1>3, <1>4, <1>5 DEF LoadInv

\* Nothing has been read.
LEMMA NothingReadYet ==
    ASSUME load' = NothingRead
    PROVE  LoadInv' /\ load' \in UNION {[S -> FileType] : S \in SUBSET Files}
<1>1. DOMAIN load' = {} /\ load' \in [{} -> FileType]
  BY DEF NothingRead
<1>2. LoadInv'
  BY <1>1 DEF LoadInv, Done
<1> QED
  BY <1>1, <1>2

LEMMA DirStays ==
    ASSUME DirInv, UNCHANGED dirVars
    PROVE  DirInv'
BY DEF DirInv, BuildInv, MergeInv, OutInv, FinishedIsFresh, Finished, Merged, HasCards, Writes, dirVars

LEMMA NoIndexType == NoIndex \in [Files -> FileType] /\ \A f \in Files : NoIndex[f] = Absent
BY FilesOfOrders DEF NoIndex, Absent, File, FileType

LEMMA RestartStep ==
    ASSUME FilesInv, Restart
    PROVE  FilesInv'
<1>1. served' = NoIndex /\ load' = NothingRead /\ UNCHANGED dirVars
  BY DEF Restart
<1>2. NothingOlderThanManifest'
  BY <1>1, NoIndexType DEF NothingOlderThanManifest, Files
<1>3. TypeOK'
  BY <1>1, NothingReadYet, NoIndexType DEF FilesInv, TypeOK, dirVars
<1> QED
  BY <1>1, <1>2, <1>3, NothingReadYet, DirStays DEF FilesInv

LEMMA StartsAgain ==
    ASSUME FilesInv, Poll \/ ReadFails
    PROVE  FilesInv'
<1>1. served' = served /\ load' = NothingRead /\ UNCHANGED dirVars
  BY DEF Poll, ReadFails
<1>2. NothingOlderThanManifest'
  BY <1>1 DEF FilesInv, NothingOlderThanManifest
<1>3. TypeOK'
  BY <1>1, NothingReadYet DEF FilesInv, TypeOK, dirVars
<1> QED
  BY <1>1, <1>2, <1>3, NothingReadYet, DirStays DEF FilesInv

\* The files are read in their order.
LEMMA NextFileIs ==
    ASSUME ToRead # {}
    PROVE  /\ NextFile \in Files /\ ~Done(NextFile)
           /\ NextFile = "idgd" => Done("manifest")
           /\ NextFile = "cards" => Done("idgd")
           /\ NextFile = "whole" => Done("cards") /\ "whole" \in load.idgd.lists
<1>1. ToRead \subseteq 1 .. 6
  BY Orders DEF ToRead
<1>2. \E i \in ToRead : \A j \in ToRead : i <= j
  <2>1. 1 .. 6 = {1, 2, 3, 4, 5, 6}
    OBVIOUS
  <2>2. CASE 1 \in ToRead
    BY <1>1, <2>2
  <2>3. CASE 1 \notin ToRead /\ 2 \in ToRead
    BY <1>1, <2>1, <2>3
  <2>4. CASE 1 \notin ToRead /\ 2 \notin ToRead /\ 3 \in ToRead
    BY <1>1, <2>1, <2>4
  <2>5. CASE 1 \notin ToRead /\ 2 \notin ToRead /\ 3 \notin ToRead /\ 4 \in ToRead
    BY <1>1, <2>1, <2>5
  <2>6. CASE 1 \notin ToRead /\ 2 \notin ToRead /\ 3 \notin ToRead /\ 4 \notin ToRead /\ 5 \in ToRead
    BY <1>1, <2>1, <2>6
  <2>7. CASE ToRead = {6}
    BY <2>7
  <2> QED
    BY <1>1, <2>1, <2>2, <2>3, <2>4, <2>5, <2>6, <2>7
<1>3. PICK i \in ToRead : NextFile = LoadOrder[i] /\ \A j \in ToRead : i <= j
  BY <1>2 DEF NextFile
<1>4. i \in 1 .. 6 /\ ~Done(NextFile)
  BY <1>1, <1>3 DEF ToRead
<1>5. NextFile \in Files
  BY <1>3, <1>4, Orders DEF Files
<1>6. \A j \in {2, 3, 4} : j < i => Done(LoadOrder[j])
  <2> SUFFICES ASSUME NEW j \in {2, 3, 4}, j < i PROVE Done(LoadOrder[j])
    OBVIOUS
  <2>1. j \notin ToRead
    BY <1>3, <1>4
  <2>2. j \in DOMAIN LoadOrder /\ LoadOrder[j] \notin Bitmaps
    BY Orders DEF Bitmaps
  <2> QED
    BY <2>1, <2>2 DEF ToRead
<1>7. i \in {1, 2, 3, 4, 5, 6}
  BY <1>4
<1>8. /\ NextFile = "idgd" => i = 3
      /\ NextFile = "cards" => i = 4
      /\ NextFile = "whole" => i = 5
  BY <1>3, <1>7, Orders
<1>9. NextFile = "whole" => "whole" \in load.idgd.lists
  <2>1. NextFile = "whole" => Done("cards")
    BY <1>6, <1>8, Orders
  <2> QED
    BY <1>3, <2>1 DEF ToRead, Bitmaps
<1> QED
  BY <1>4, <1>5, <1>6, <1>8, <1>9, Orders

LEMMA ReadFileStep ==
    ASSUME FilesInv, ReadFile
    PROVE  FilesInv'
<1> DEFINE g == NextFile
<1>1. /\ load' = [f \in DOMAIN load \cup {g} |-> IF f = g THEN out[f] ELSE load[f]]
      /\ UNCHANGED <<dirVars, served>> /\ ToRead # {}
  BY DEF ReadFile
<1>2. /\ g \in Files /\ g \notin DOMAIN load
      /\ g = "idgd" => Done("manifest")
      /\ g = "cards" => Done("idgd")
      /\ g = "whole" => Done("cards") /\ "whole" \in load.idgd.lists
  BY <1>1, NextFileIs DEF Done
<1> HIDE DEF g
<1>3. /\ DOMAIN load' = DOMAIN load \cup {g} /\ load'[g] = out[g]
      /\ \A f \in DOMAIN load : load'[f] = load[f]
      /\ \A f : Done(f)' <=> Done(f) \/ f = g
  BY <1>1, <1>2 DEF Done
<1>4. /\ DOMAIN load \subseteq Files /\ \A f \in DOMAIN load : load[f] \in FileType /\ load[f].run \in Nat
      /\ \A f \in Files : out[f] \in FileType /\ out[f].run \in Nat
  BY LoadTypes DEF FilesInv, TypeOK, FileType
<1>5. TypeOK'
  <2>1. DOMAIN load \cup {g} \in SUBSET Files
    BY <1>2, <1>4
  <2>2. load' \in [DOMAIN load \cup {g} -> FileType]
    BY <1>1, <1>2, <1>4
  <2>3. load' \in UNION {[S -> FileType] : S \in SUBSET Files}
    BY <2>1, <2>2
  <2> QED
    BY <1>1, <2>3 DEF FilesInv, TypeOK, dirVars
<1>6. LoadInv /\ OutInv /\ out' = out
  BY <1>1 DEF FilesInv, DirInv, dirVars
<1>7. LoadInv'
  <2>1. \A f \in DOMAIN load' : load'[f].run <= out[f].run
    BY <1>2, <1>3, <1>4, <1>6 DEF LoadInv
  <2>2. (Done("whole")' => Done("cards")') /\ (Done("cards")' => Done("idgd")')
        /\ (Done("idgd")' => Done("manifest")')
    BY <1>2, <1>3, <1>6 DEF LoadInv
  <2>3. ASSUME NEW f \in {"idgd", "cards", "whole"}, Done(f)'
        PROVE  load'[f].run >= load'.manifest.run
    <3>1. CASE f # g
      <4>1. Done(f) /\ Done("manifest")
        BY <1>3, <1>6, <2>3, <3>1 DEF LoadInv
      <4> QED
        BY <1>3, <1>6, <4>1 DEF LoadInv, Done
    <3>2. CASE f = g
      <4>1. Done("manifest") /\ load'.manifest = load.manifest /\ load'[f] = out[f]
        BY <1>2, <1>3, <1>6, <3>2 DEF LoadInv, Done
      <4>2. load.manifest.run <= out.manifest.run /\ load.manifest.run \in Nat
        BY <1>4, <1>6, <4>1 DEF LoadInv, Done
      <4>3. CASE f = "idgd" \/ f = "cards"
        BY <1>4, <1>6, <4>1, <4>2, <4>3 DEF OutInv, Files
      <4>4. CASE f = "whole"
        <5>1. Done("cards") /\ Done("idgd") /\ "whole" \in load.idgd.lists
          BY <1>2, <1>6, <3>2, <4>4 DEF LoadInv
        <5>2. out.whole.run >= load.idgd.run /\ load.idgd.run >= load.manifest.run
              /\ load.idgd.run \in Nat /\ out.whole.run \in Nat
          BY <1>4, <1>6, <5>1 DEF LoadInv, Done, Files
        <5> QED
          BY <4>1, <4>2, <4>4, <5>2
      <4> QED
        BY <4>3, <4>4
    <3> QED
      BY <3>1, <3>2
  <2>4. ASSUME Done("idgd")', "whole" \in load'.idgd.lists
        PROVE  out.whole.run >= load'.idgd.run
    <3>1. CASE g = "idgd"
      BY <1>3, <1>6, <2>4, <3>1 DEF OutInv
    <3>2. CASE g # "idgd"
      BY <1>3, <1>6, <2>4, <3>2 DEF LoadInv, Done
    <3> QED
      BY <3>1, <3>2
  <2> QED
    BY <1>6, <2>1, <2>2, <2>3, <2>4 DEF LoadInv
<1>8. NothingOlderThanManifest'
  BY <1>1 DEF FilesInv, NothingOlderThanManifest
<1> QED
  BY <1>1, <1>5, <1>7, <1>8, DirStays DEF FilesInv

LEMMA InstallStep ==
    ASSUME FilesInv, Install
    PROVE  FilesInv'
<1> DEFINE read == [f \in DOMAIN served |-> IF Done(f) THEN load[f] ELSE Absent]
<1>1. load' = NothingRead /\ (served' = read \/ served' = served) /\ UNCHANGED dirVars /\ ToRead = {}
  BY DEF Install
<1>2. DOMAIN served = Files /\ served \in [Files -> FileType]
  BY DEF FilesInv, TypeOK
<1>3. read \in [Files -> FileType]
  BY <1>2, LoadTypes, NoIndexType DEF FilesInv, Done
<1>4. Done("manifest")
  <2>1. 2 \in DOMAIN LoadOrder /\ 2 \notin ToRead /\ LoadOrder[2] \notin Bitmaps
    BY <1>1, Orders DEF Bitmaps
  <2> QED
    BY <2>1, Orders DEF ToRead
<1>5. \A f \in {"idgd", "cards", "whole"} : read[f] # Absent => read[f].run >= read.manifest.run
  BY <1>2, <1>4 DEF FilesInv, LoadInv, Files
<1>6. NothingOlderThanManifest'
  BY <1>1, <1>5 DEF FilesInv, NothingOlderThanManifest
<1>7. TypeOK'
  BY <1>1, <1>2, <1>3, NothingReadYet DEF FilesInv, TypeOK, dirVars
<1> QED
  BY <1>1, <1>6, <1>7, NothingReadYet, DirStays DEF FilesInv

(***************************************************************************)
(* Theorems                                                                *)
(***************************************************************************)
\* The invariant: what commands have written, however they were killed, and what loads have read
\* of it.
THEOREM FilesInvariant == Spec => []FilesInv
<1>1. FilesInv /\ [Next]_vars => FilesInv'
  <2> SUFFICES ASSUME FilesInv, [Next]_vars PROVE FilesInv'
    OBVIOUS
  <2>1. TypeOK /\ DirInv /\ LoadInv /\ NothingOlderThanManifest
    BY DEF FilesInv
  <2>2. CASE StartBuild \/ BuildFile \/ StartMerge \/ Kill
    <3>1. TypeOK' /\ DirInv'
      BY <2>1, <2>2, StartBuildStep, BuildFileStep, StartMergeStep, KillStep
    <3>2. out' = out /\ UNCHANGED <<load, served>>
      BY <2>2 DEF StartBuild, BuildFile, StartMerge, Kill, serverVars
    <3>3. out' \in [Files -> FileType] /\ \A f \in Files : out'[f].run >= out[f].run
      BY <2>1, <3>2 DEF TypeOK, FileType
    <3> QED
      BY <2>1, <3>1, <3>2, <3>3, DirectoryGrows DEF FilesInv
  <2>3. CASE MergeFile
    <3>1. TypeOK' /\ DirInv' /\ \A f \in Files : out'[f].run >= out[f].run
      BY <2>1, <2>3, MergeFileStep
    <3>2. UNCHANGED <<load, served>> /\ out' \in [Files -> FileType]
      BY <2>3, <3>1 DEF MergeFile, serverVars, TypeOK
    <3> QED
      BY <2>1, <3>1, <3>2, DirectoryGrows DEF FilesInv
  <2>4. CASE Restart \/ Poll \/ ReadFails
    BY <2>4, RestartStep, StartsAgain
  <2>5. CASE ReadFile
    BY <2>5, ReadFileStep
  <2>6. CASE Install
    BY <2>6, InstallStep
  <2>7. CASE UNCHANGED vars
    <3>1. UNCHANGED <<dirVars, load, served>>
      BY <2>7 DEF vars, serverVars
    <3>2. out' \in [Files -> FileType] /\ \A f \in Files : out'[f].run >= out[f].run
      BY <2>1, <3>1 DEF TypeOK, FileType, dirVars
    <3>3. TypeOK' /\ DirInv'
      BY <2>1, <3>1, DirStays DEF TypeOK, dirVars
    <3> QED
      BY <2>1, <3>1, <3>2, <3>3, DirectoryGrows DEF FilesInv
  <2> QED
    BY <2>2, <2>3, <2>4, <2>5, <2>6, <2>7 DEF Next, Server
<1> QED
  BY <1>1, InitialFiles, PTL DEF Spec

\* A merge that ended after a build that ended has all of that build and nothing of its own from
\* before, for any histories and any commands killed before and meanwhile (nothing clears the
\* directories that build_index and merge_indexes write to).
THEOREM FinishedStaysFresh == Spec => []FinishedIsFresh
<1>1. FilesInv => FinishedIsFresh
  BY DEF FilesInv, DirInv
<1> QED
  BY <1>1, FilesInvariant, PTL

\* load_uniques_index_from reads manifest.json before the catalogs and bitmaps it vouches for, and
\* merge_indexes writes it last: the index served has none that is older than its manifest.
THEOREM NothingOlderIsServed == Spec => []NothingOlderThanManifest
<1>1. FilesInv => NothingOlderThanManifest
  BY DEF FilesInv
<1> QED
  BY <1>1, FilesInvariant, PTL
================================================================================
