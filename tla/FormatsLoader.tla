---------------------------- MODULE FormatsLoader ----------------------------
(***************************************************************************)
(* The formats directory and those who load it.  A load reads manifest.json *)
(* and then, in parallel, the file of each entry; an entry whose file does  *)
(* not agree with it has failed, the others are ready.  The formats task    *)
(* compares the versions in manifest.json with those it recorded at the     *)
(* last load; a load for a new index does not compare.  Whoever deploys a   *)
(* format writes its file and then the manifest, neither atomically.        *)
(*                                                                         *)
(* Which index the bitmaps are of is HotReload's subject, and what is in    *)
(* them CardQuery's; here a ready format is the version of its definition.  *)
(***************************************************************************)
EXTENDS Integers, FiniteSets, Sequences

CONSTANTS
    Entries,     \* paths of the formats, in the order of manifest.json
    Id,          \* Id[p]: the format id of path p
    Bad,         \* paths whose definition is not valid
    MaxDeploys,  \* bound: formats deployed
    MaxSwaps     \* bound: indexes loaded

Paths == {Entries[i] : i \in DOMAIN Entries}
Ids == {Id[p] : p \in Paths}

ASSUME FormatsAssumption ==
    /\ Entries \in Seq(Paths) /\ \A i, j \in DOMAIN Entries : Entries[i] = Entries[j] => i = j
    /\ DOMAIN Id = Paths /\ Bad \subseteq Paths
    /\ MaxDeploys \in Nat /\ MaxSwaps \in Nat

VARIABLES
    file,       \* file[p]: version in the file, 0 while it is written
    manifest,   \* manifest[p]: version in manifest.json
    torn,       \* manifest.json is being written
    deploy,     \* the format being deployed, and the step of it
    deploys,
    load,       \* load[t]: the load of task t
    formats,    \* the FormatIndex served
    swaps

dirVars == <<file, manifest, torn, deploy, deploys>>
vars == <<dirVars, load, formats, swaps>>

Tasks == {"formats", "index"}
NoDeploy == [step |-> "none"]
NoLoad == [pc |-> "idle"]
Failed == 0

\* merge_loaded_results, by_id: an id listed twice has failed.
Status(entries, results) ==
    [id \in {Id[p] : p \in DOMAIN entries} |->
        LET paths == {p \in DOMAIN entries : Id[p] = id}
        IN  IF Cardinality(paths) > 1 THEN Failed ELSE results[CHOOSE p \in paths : TRUE]]

\* manifest_versions and read_manifest_versions: the last entry of an id counts.
Versions(entries) ==
    [id \in {Id[p] : p \in DOMAIN entries} |->
        entries[Entries[CHOOSE i \in DOMAIN Entries : Id[Entries[i]] = id /\
                            \A j \in DOMAIN Entries : Id[Entries[j]] = id => j <= i]]]

\* Mutant: the versions recorded are those of the manifest at this moment.
FormatIndexNow(entries, results) ==
    [versions |-> Versions(manifest), status |-> Status(entries, results)]

FormatIndex(entries, results) ==
    [versions |-> Versions(entries), status |-> Status(entries, results)]

\* Mutant: the version in the file is not compared.
OutcomeUnchecked(p, entries) == IF file[p] = 0 \/ p \in Bad THEN Failed ELSE file[p]

\* load_single_format: unreadable, of another version than the entry, or not valid.
Outcome(p, entries) == IF file[p] # entries[p] \/ p \in Bad THEN Failed ELSE file[p]

Init ==
    /\ file = [p \in Paths |-> 1] /\ manifest = file
    /\ torn = FALSE /\ deploy = NoDeploy /\ deploys = 0
    /\ load = [t \in Tasks |-> NoLoad]
    /\ formats = FormatIndex(manifest, [p \in Paths |-> Outcome(p, manifest)])
    /\ swaps = 0

(***************************************************************************)
(* Whoever deploys (external)                                              *)
(***************************************************************************)
BeginFile(p) ==
    /\ deploy = NoDeploy /\ deploys < MaxDeploys
    /\ deploys' = deploys + 1
    /\ deploy' = [step |-> "file", path |-> p]
    /\ file' = [file EXCEPT ![p] = 0]
    /\ UNCHANGED <<manifest, torn, load, formats, swaps>>

EndFile ==
    /\ deploy.step = "file"
    /\ file' = [file EXCEPT ![deploy.path] = manifest[deploy.path] + 1]
    /\ deploy' = [deploy EXCEPT !.step = "written"]
    /\ UNCHANGED <<manifest, torn, deploys, load, formats, swaps>>

BeginManifest ==
    /\ deploy.step = "written" /\ ~torn
    /\ torn' = TRUE
    /\ UNCHANGED <<file, manifest, deploy, deploys, load, formats, swaps>>

EndManifest ==
    /\ torn
    /\ torn' = FALSE
    /\ manifest' = [manifest EXCEPT ![deploy.path] = @ + 1]
    /\ deploy' = NoDeploy
    /\ UNCHANGED <<file, deploys, load, formats, swaps>>

(***************************************************************************)
(* The two tasks                                                           *)
(***************************************************************************)
\* formats_reload_tick: a manifest that cannot be read, or has the versions recorded, is no
\* reason to load.
Tick ==
    /\ load["formats"] = NoLoad
    /\ ~torn /\ Versions(manifest) # formats.versions
    /\ load' = [load EXCEPT !["formats"] = [pc |-> "manifest"]]
    /\ UNCHANGED <<dirVars, formats, swaps>>

\* rebuild_formats_for_index
LoadIndex ==
    /\ load["index"] = NoLoad /\ swaps < MaxSwaps
    /\ swaps' = swaps + 1
    /\ load' = [load EXCEPT !["index"] = [pc |-> "manifest"]]
    /\ UNCHANGED <<dirVars, formats>>

\* load_format_index_from_root reads the manifest once more; if it cannot, there are no formats.
ReadManifest(t) ==
    /\ load[t].pc = "manifest"
    /\ load' = [load EXCEPT ![t] =
            [pc |-> "files", entries |-> IF torn THEN <<>> ELSE manifest, results |-> <<>>]]
    /\ UNCHANGED <<dirVars, formats, swaps>>

ToRead(t) == DOMAIN load[t].entries \ DOMAIN load[t].results

ReadFile(t, p) ==
    /\ load[t].pc = "files" /\ p \in ToRead(t)
    /\ load' = [load EXCEPT ![t].results =
            [q \in DOMAIN @ \cup {p} |-> IF q = p THEN Outcome(p, load[t].entries) ELSE @[q]]]
    /\ UNCHANGED <<dirVars, formats, swaps>>

Commit(t) ==
    /\ load[t].pc = "files" /\ ToRead(t) = {}
    /\ formats' = FormatIndex(load[t].entries, load[t].results)
    /\ load' = [load EXCEPT ![t] = NoLoad]
    /\ UNCHANGED <<dirVars, swaps>>

Load(t) == ReadManifest(t) \/ Commit(t) \/ \E p \in Paths : ReadFile(t, p)
FormatsTask == Tick \/ Load("formats")

Next ==
    \/ \E p \in Paths : BeginFile(p)
    \/ EndFile \/ BeginManifest \/ EndManifest
    \/ FormatsTask \/ LoadIndex \/ Load("index")

\* The formats task keeps ticking.
Spec == Init /\ [][Next]_vars /\ WF_vars(FormatsTask)

(***************************************************************************)
(* Properties                                                              *)
(***************************************************************************)
Listed(id) == {p \in Paths : Id[p] = id}
Good(id) == Cardinality(Listed(id)) = 1 /\ Listed(id) \cap Bad = {}

\* The definition deployed is the one served.
IsReady(id) ==
    /\ id \in DOMAIN formats.status
    /\ formats.status[id] = manifest[CHOOSE p \in Listed(id) : TRUE]

\* A format that is ready has the definition of the version recorded for it: a file read before
\* or after the one its manifest belongs to is never taken.
ReadyIsRecorded ==
    \A id \in DOMAIN formats.status :
        formats.status[id] # Failed => Good(id) /\ formats.status[id] = formats.versions[id]

\* A load that met a half-written file or manifest is noticed again: between deployments, if
\* the task sees nothing to do, every valid format is ready whatever the others are.
NoLostRetry ==
    deploy = NoDeploy /\ formats.versions = Versions(manifest) =>
        \A id \in Ids : Good(id) => IsReady(id)

\* Once deploying is over, the deployed version of every valid format is served.
EventuallyReady ==
    \A n \in 0 .. MaxDeploys :
        <>[](deploy = NoDeploy /\ deploys = n) =>
            <>[](\A id \in Ids : Good(id) => IsReady(id))
==============================================================================
