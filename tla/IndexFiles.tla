------------------------------ MODULE IndexFiles ------------------------------
(***************************************************************************)
(* The index directories, file by file: build writes one set's directory,   *)
(* merge reads it and writes the merged directory, and a server whose       *)
(* source is that directory loads it at startup and when a reload tick      *)
(* finds a newer manifest.json.  No directory is ever cleared or replaced,  *)
(* and a command may be killed between any two files, so what a reader      *)
(* meets is what several runs have left.                                    *)
(*                                                                         *)
(* One set is built again and again; the other sets of the merge do not     *)
(* change.  Of the bitmaps there are an idGd's ("whole") and that of the    *)
(* same idGd on a line ("line").  Statistics and factions, with their       *)
(* summaries, are written, listed and loaded as "whole" is with             *)
(* idgd_catalog, but merged whether or not a source lists them.  Merges end *)
(* in different seconds: the n-th has built_at_secs n.                      *)
(***************************************************************************)
EXTENDS Integers, Sequences

CONSTANTS
    Histories,   \* h[n]: what the n-th build finds, its catalog's span and the bitmaps with a card
    Others,      \* the bitmaps in which the other sets of the merge may have cards
    MaxEvents,   \* bound: builds and merges started or killed
    MaxRestarts  \* bound: restarts of the server

Bitmaps == {"whole", "line"}
\* A card with the idGd on a line has the idGd.
Nested(bs) == "line" \in bs => "whole" \in bs

ASSUME HistoriesAssumption ==
    /\ \A h \in Histories :
            /\ h \in Seq([span : Nat, has : SUBSET Bitmaps]) /\ h # <<>>
            /\ \A n \in DOMAIN h : Nested(h[n].has)
    /\ \A bs \in Others : bs \subseteq Bitmaps /\ Nested(bs)

\* The order in which the files are written, and read by load_uniques_index_from.  "rows" is
\* cards.bin with its length but no cards yet.
BuildOrder == <<"catalog", "whole", "line", "idgd", "cards", "manifest">>

\* Mutant: the manifest is written first.
MergeOrderManifestFirst ==
    <<"manifest", "catalog", "rows", "cards", "whole", "line", "idgd">>

MergeOrder == <<"catalog", "rows", "cards", "whole", "line", "idgd", "manifest">>

LoadOrder == <<"catalog", "manifest", "idgd", "cards", "whole", "line">>

VARIABLES
    shape,      \* the history
    builds,     \* builds started
    src,        \* src[f]: the build that wrote this file of the set's directory, 0 for none
    others,     \* the bitmaps in which the other sets have cards
    plans,      \* plans[m]: the build whose catalog the m-th merge read, and if it had ended
    out,        \* the merged directory
    job,        \* the command running, and its next file
    events,     \* commands started or killed
    phase,      \* of the server
    load,       \* the files read by the load in progress
    served,     \* the index served
    restarts

dirVars    == <<shape, builds, src, others, plans, out, job, events>>
serverVars == <<phase, load, served, restarts>>
vars == <<dirVars, serverVars>>

\* A file of the merged directory: the merge that wrote it, the build its cards of the set come
\* from, and, for idgd_catalog, the bitmaps it lists.
File(run, from, lists) == [run |-> run, from |-> from, lists |-> lists]
Absent == File(0, 0, {})
NoIndex == [f \in {LoadOrder[i] : i \in DOMAIN LoadOrder} |-> Absent]
NothingRead == [f \in {} |-> Absent]
NoJob == [command |-> "none", at |-> 0]

\* Directories that do not exist yet, or as a first build and merge have left them.
Empty ==
    /\ builds = 0 /\ plans = <<>>
    /\ src = [f \in {BuildOrder[i] : i \in DOMAIN BuildOrder} |-> 0]
    /\ out = NoIndex

Deployed ==
    /\ builds = 1 /\ plans = <<[build |-> 1, ended |-> TRUE]>>
    /\ src = [f \in {BuildOrder[i] : i \in DOMAIN BuildOrder} |->
                IF f \in Bitmaps \ shape[1].has THEN 0 ELSE 1]
    /\ out = [f \in DOMAIN NoIndex |->
                IF f \in Bitmaps \ (shape[1].has \cup others) THEN Absent
                ELSE CASE f = "catalog" \/ f = "cards" -> File(1, 1, {})
                       [] f = "idgd" -> File(1, 0, shape[1].has \cup others)
                       [] OTHER -> File(1, src[f], {})]

Init ==
    /\ shape \in Histories /\ others \in Others
    /\ Empty \/ Deployed
    /\ job = NoJob /\ events = 0
    /\ phase = "down" /\ load = NothingRead /\ served = NoIndex
    /\ restarts = 0

Advance(order) ==
    job' = IF job.at = Len(order) THEN NoJob ELSE [job EXCEPT !.at = @ + 1]

\* The command is killed, or ends with an error.
Kill ==
    /\ job # NoJob /\ events < MaxEvents
    /\ job' = NoJob /\ events' = events + 1
    /\ UNCHANGED <<shape, builds, src, others, plans, out, serverVars>>

(***************************************************************************)
(* build: write_index_outputs                                              *)
(***************************************************************************)
StartBuild ==
    /\ job = NoJob /\ events < MaxEvents /\ builds < Len(shape)
    /\ events' = events + 1 /\ builds' = builds + 1
    /\ job' = [command |-> "build", at |-> 1]
    /\ UNCHANGED <<shape, src, others, plans, out, serverVars>>

\* Bitmaps without a card have no file written.
BuildFile ==
    /\ job.command = "build"
    /\ LET f == BuildOrder[job.at]
       IN  src' = IF f \in Bitmaps \ shape[builds].has THEN src
                  ELSE [src EXCEPT ![f] = builds]
    /\ Advance(BuildOrder)
    /\ UNCHANGED <<shape, builds, others, plans, out, events, serverVars>>

(***************************************************************************)
(* merge                                                                   *)
(***************************************************************************)
SpanOf(n) == shape[n].span

\* load_sources: the catalog is checked against the manifest and the length of cards.bin.
StartMerge ==
    /\ job = NoJob /\ events < MaxEvents /\ events' = events + 1
    /\ src.manifest # 0
    /\ SpanOf(src.catalog) = SpanOf(src.manifest) /\ SpanOf(src.catalog) = SpanOf(src.cards)
    /\ plans' = Append(plans, [build |-> src.catalog, ended |-> src.manifest = builds])
    /\ job' = [command |-> "merge", at |-> 1]
    /\ UNCHANGED <<shape, builds, src, others, out, serverVars>>

\* Every source file that exists is read; ids come from the idgd_catalogs of all sources, lines
\* are looked for where the id has cards.
HasCards(f) == src[f] # 0 \/ f \in others
Merged ==
    IF "whole" \in shape[src.idgd].has \cup others /\ HasCards("whole")
    THEN {f \in Bitmaps : HasCards(f)} ELSE {}

\* Mutant: a bitmap's file that exists is kept.
MergedFileKept(f) == IF f \in Merged /\ out[f] = Absent THEN File(Len(plans), src[f], {}) ELSE out[f]

\* Bitmaps without a card have no file written.
MergedFile(f) == IF f \in Merged THEN File(Len(plans), src[f], {}) ELSE out[f]

\* The whole is listed if this merge wrote it, and then the line if its file is there.
Listed == {f \in Bitmaps : "whole" \in Merged /\ out[f] # Absent}

MergeFile ==
    /\ job.command = "merge"
    /\ LET f == MergeOrder[job.at]
           m == Len(plans)
       IN  out' = CASE f \in Bitmaps -> [out EXCEPT ![f] = MergedFile(f)]
                    [] f = "catalog" -> [out EXCEPT !.catalog = File(m, plans[m].build, {})]
                    [] f = "rows" -> [out EXCEPT !.cards = File(m, 0, {})]
                    [] f = "cards" -> [out EXCEPT !.cards = File(m, src.cards, {})]
                    [] f = "idgd" -> [out EXCEPT !.idgd = File(m, 0, Listed)]
                    [] f = "manifest" -> [out EXCEPT !.manifest = File(m, 0, {})]
    /\ Advance(MergeOrder)
    /\ UNCHANGED <<shape, builds, src, others, plans, events, serverVars>>

(***************************************************************************)
(* The server                                                              *)
(***************************************************************************)
\* The process is started, or killed and started again.
Restart ==
    /\ restarts < MaxRestarts
    /\ restarts' = restarts + 1
    /\ phase' = "booting" /\ load' = NothingRead /\ served' = NoIndex
    /\ UNCHANGED dirVars

\* reload_tick: manifest.json names a newer merge than the one served.
Poll ==
    /\ phase = "idle"
    /\ out.manifest.run > served.manifest.run
    /\ phase' = "loading" /\ load' = NothingRead
    /\ UNCHANGED <<dirVars, served, restarts>>

Loading == phase \in {"booting", "loading"}
Done(f) == f \in DOMAIN load

\* Bitmaps that are not listed are passed over, and so are those listed and missing.
ToRead ==
    {i \in DOMAIN LoadOrder : /\ ~Done(LoadOrder[i])
                              /\ Done("cards") /\ LoadOrder[i] \in Bitmaps
                                    => LoadOrder[i] \in load.idgd.lists}
NextFile == LoadOrder[CHOOSE i \in ToRead : \A j \in ToRead : i <= j]

Readable(f) ==
    /\ f \in Bitmaps \/ out[f] # Absent
    /\ f = "cards" => SpanOf(plans[out[f].run].build) = SpanOf(load.catalog.from)

ReadFile ==
    /\ Loading /\ ToRead # {} /\ Readable(NextFile)
    /\ load' = [f \in DOMAIN load \cup {NextFile} |-> IF f = NextFile THEN out[f] ELSE load[f]]
    /\ UNCHANGED <<dirVars, phase, served, restarts>>

\* Mutant: the file is read again in the same load until it fits.
ReadFailsAndWaits ==
    /\ Loading /\ ToRead # {}
    /\ ~Readable(NextFile) \/ job.command = "merge"
    /\ UNCHANGED vars

\* A file that is missing, half written or of the wrong length: main exits, a tick is over.
ReadFails ==
    /\ Loading /\ ToRead # {}
    /\ ~Readable(NextFile) \/ job.command = "merge"
    /\ phase' = IF phase = "booting" THEN "down" ELSE "idle"
    /\ load' = NothingRead
    /\ UNCHANGED <<dirVars, served, restarts>>

\* load_app_state, or commit_if_newer.
Install ==
    /\ Loading /\ ToRead = {}
    /\ served' = IF phase = "booting" \/ load.manifest.run > served.manifest.run
                 THEN [f \in DOMAIN served |-> IF Done(f) THEN load[f] ELSE Absent]
                 ELSE served
    /\ phase' = "idle" /\ load' = NothingRead
    /\ UNCHANGED <<dirVars, restarts>>

Server == Poll \/ ReadFile \/ ReadFails \/ Install

Next ==
    \/ StartBuild \/ BuildFile \/ StartMerge \/ MergeFile \/ Kill
    \/ Restart \/ Server

\* The reload task keeps ticking; nothing is assumed of the commands, nor that the server is
\* started.
Spec == Init /\ [][Next]_vars /\ WF_vars(Server)

(***************************************************************************)
(* Properties                                                              *)
(***************************************************************************)
\* The last merge begun has ended, and was of a source whose last build had ended.
Finished == plans # <<>> /\ out.manifest.run = Len(plans) /\ plans[Len(plans)].ended

\* A merge that ends has all of the last build and none of its own files from before, whatever
\* earlier commands, killed or not, left in both directories.
FinishedIsFresh ==
    Finished =>
        LET n == plans[Len(plans)].build
        IN  /\ \A f \in {"catalog", "cards", "idgd"} : out[f].run = Len(plans)
            /\ out.cards.from = n
            /\ \A f \in shape[n].has :
                    f \in out.idgd.lists /\ out[f].run = Len(plans) /\ out[f].from = n

\* The manifest is written last and read before the files it vouches for: nothing the server
\* read after it is from an older merge, whatever was written, killed or restarted meanwhile.
\* (The catalog is read before; a line may be an old file listed anew.)
NothingOlderThanManifest ==
    \A f \in {"idgd", "cards", "whole"} :
        served[f] # Absent => served[f].run >= served.manifest.run

\* Once the commands are over and the last merge has ended, a server that stays up ends up with
\* the version of that merge, however many of its loads failed.
EventuallyServesMerge ==
    \A m \in 1 .. MaxEvents + 1 :
        <>[](job = NoJob /\ Len(plans) = m /\ out.manifest.run = m /\ phase \in {"idle", "loading"})
            => <>[](served.manifest.run = m)
==============================================================================
