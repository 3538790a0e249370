-------------------------- MODULE FormatsLoaderProofs --------------------------
(***************************************************************************)
(* Proofs about FormatsLoader, for any formats, any ids shared or not, and  *)
(* any number of deployments and loads.  What a load reads of a format is   *)
(* judged against manifest.json of this moment: it is what the entry named, *)
(* or it failed although nothing is wrong with the format, and then either  *)
(* that entry is no longer in manifest.json or its deployment is still      *)
(* under way.  The judgement survives every step, and Commit hands it on to *)
(* what is served.                                                         *)
(***************************************************************************)
EXTENDS FormatsLoader, FiniteSetTheorems, TLAPS

Results == UNION {[S -> Nat] : S \in SUBSET Paths}
LoadOfFiles == [pc : {"files"}, entries : {<<>>} \cup [Paths -> Nat \ {0}], results : Results]

TypeOK ==
    /\ file \in [Paths -> Nat] /\ manifest \in [Paths -> Nat \ {0}]
    /\ torn \in BOOLEAN
    /\ deploy \in {NoDeploy} \cup [step : {"file", "written"}, path : Paths]
    /\ load \in [Tasks -> {NoLoad, [pc |-> "manifest"]} \cup LoadOfFiles]

Deploying(p) == deploy # NoDeploy /\ deploy.path = p

\* The files and manifest.json differ in the format being deployed only.
DeployInv ==
    /\ \A p \in Paths : ~Deploying(p) => file[p] = manifest[p]
    /\ torn => deploy.step = "written"
    /\ deploy.step = "written" => file[deploy.path] = manifest[deploy.path] + 1

\* What was read of path p for an entry of this version, with latest in manifest.json.
OutcomeSound(p, version, status, latest, busy) ==
    /\ version \in Nat \ {0} /\ version <= latest
    /\ status \in {Failed, version}
    /\ p \in Bad => status = Failed
    /\ status = Failed /\ p \notin Bad /\ version = latest => busy

LoadsSound ==
    \A t \in Tasks : load[t].pc = "files" =>
        /\ \A p \in DOMAIN load[t].entries : load[t].entries[p] <= manifest[p]
        /\ \A p \in DOMAIN load[t].results :
                /\ p \in DOMAIN load[t].entries
                /\ OutcomeSound(p, load[t].entries[p], load[t].results[p], manifest[p], Deploying(p))

FormatsSound ==
    /\ DOMAIN formats.status = DOMAIN formats.versions
    /\ DOMAIN formats.versions \in {{}, Ids}
    /\ \A id \in DOMAIN formats.status :
        /\ Good(id) => \A p \in Listed(id) :
                OutcomeSound(p, formats.versions[id], formats.status[id], manifest[p], Deploying(p))
        /\ ~Good(id) => formats.status[id] = Failed

FormatsInv == TypeOK /\ DeployInv /\ LoadsSound /\ FormatsSound

(***************************************************************************)
(* Ids and their paths                                                     *)
(***************************************************************************)
LEMMA PathsFinite == IsFiniteSet(Paths)
<1>1. Entries \in [1 .. Len(Entries) -> Paths] /\ DOMAIN Entries = 1 .. Len(Entries)
  BY FormatsAssumption
<1>2. \A p \in Paths : \E i \in 1 .. Len(Entries) : Entries[i] = p
  BY <1>1 DEF Paths
<1>3. Entries \in Surjection(1 .. Len(Entries), Paths)
  BY <1>1, <1>2 DEF Surjection
<1>4. IsFiniteSet(1 .. Len(Entries))
  BY FS_Interval, FormatsAssumption
<1> QED
  BY <1>3, <1>4, FS_Surjection

\* A good id has one path, which is listed once.
LEMMA GoodPath ==
    ASSUME NEW id, Good(id)
    PROVE  \E p \in Paths : /\ Listed(id) = {p} /\ p \notin Bad /\ Id[p] = id
                            /\ \E i \in DOMAIN Entries : \A j \in DOMAIN Entries :
                                    Id[Entries[j]] = id <=> j = i
<1>1. IsFiniteSet(Listed(id))
  BY PathsFinite, FS_Subset DEF Listed
<1>2. PICK p : Listed(id) = {p}
  BY <1>1, FS_Singleton DEF Good
<1>3. p \in Paths /\ Id[p] = id /\ p \notin Bad
  BY <1>2 DEF Listed, Good
<1>4. PICK i \in DOMAIN Entries : Entries[i] = p
  BY <1>3 DEF Paths
<1>5. \A j \in DOMAIN Entries : Id[Entries[j]] = id <=> Entries[j] = p
  BY <1>2 DEF Listed, Paths
<1>6. \A j \in DOMAIN Entries : Id[Entries[j]] = id <=> j = i
  BY <1>4, <1>5, FormatsAssumption
<1> QED
  BY <1>2, <1>3, <1>6

\* Of a whole manifest: every id has an outcome and a version, and a good one those of its path.
LEMMA IndexOfAll ==
    ASSUME NEW entries, DOMAIN entries = Paths, NEW results
    PROVE  /\ DOMAIN Status(entries, results) = Ids /\ DOMAIN Versions(entries) = Ids
           /\ \A id \in Ids, p \in Paths : Good(id) /\ Listed(id) = {p} =>
                    Status(entries, results)[id] = results[p] /\ Versions(entries)[id] = entries[p]
           /\ \A id \in Ids : Cardinality(Listed(id)) > 1 => Status(entries, results)[id] = Failed
           /\ \A id \in Ids, p \in Paths : Listed(id) = {p} => Status(entries, results)[id] = results[p]
<1>1. {Id[p] : p \in DOMAIN entries} = Ids
  BY DEF Ids
<1>2. \A id \in Ids : {p \in DOMAIN entries : Id[p] = id} = Listed(id)
  BY DEF Listed
<1>3. \A id \in Ids : Status(entries, results)[id] =
            IF Cardinality(Listed(id)) > 1 THEN Failed ELSE results[CHOOSE p \in Listed(id) : TRUE]
  <2> SUFFICES ASSUME NEW id \in Ids
               PROVE  Status(entries, results)[id] =
                        IF Cardinality(Listed(id)) > 1 THEN Failed ELSE results[CHOOSE p \in Listed(id) : TRUE]
    OBVIOUS
  <2> DEFINE paths == {p \in Paths : Id[p] = id}
  <2>1. Status(entries, results)[id] =
            IF Cardinality(paths) > 1 THEN Failed ELSE results[CHOOSE p \in paths : TRUE]
    BY <1>1 DEF Status
  <2> QED
    BY <2>1 DEF Listed
<1>4. ASSUME NEW id \in Ids, NEW p \in Paths, Listed(id) = {p}
      PROVE  Status(entries, results)[id] = results[p]
  <2>1. Cardinality(Listed(id)) = 1
    BY <1>4, FS_Singleton
  <2>2. (CHOOSE q \in Listed(id) : TRUE) = p
    BY <1>4
  <2> QED
    BY <1>3, <2>1, <2>2
<1>5. ASSUME NEW id \in Ids, NEW p \in Paths, Good(id), Listed(id) = {p}
      PROVE  Versions(entries)[id] = entries[p]
  <2>1. PICK i \in DOMAIN Entries : \A j \in DOMAIN Entries : Id[Entries[j]] = id <=> j = i
    BY <1>5, GoodPath
  <2>2. Entries[i] = p
    BY <2>1, <1>5 DEF Listed, Paths
  <2>3. (CHOOSE k \in DOMAIN Entries : Id[Entries[k]] = id /\
            \A j \in DOMAIN Entries : Id[Entries[j]] = id => j <= k) = i
    <3>1. i \in Int
      BY FormatsAssumption
    <3> QED
      BY <2>1, <3>1
  <2> QED
    BY <1>1, <2>2, <2>3 DEF Versions
<1>6. DOMAIN Status(entries, results) = Ids /\ DOMAIN Versions(entries) = Ids
  BY <1>1 DEF Status, Versions
<1> QED
  BY <1>3, <1>4, <1>5, <1>6

LEMMA IndexOfNone ==
    ASSUME NEW entries, DOMAIN entries = {}, NEW results
    PROVE  DOMAIN Status(entries, results) = {} /\ DOMAIN Versions(entries) = {}
BY DEF Status, Versions

\* An id that is not good and not listed twice is of a format that is not valid.
LEMMA NotGood ==
    ASSUME NEW id \in Ids, ~Good(id)
    PROVE  Cardinality(Listed(id)) > 1 \/ \E p \in Bad : Listed(id) = {p}
<1>1. IsFiniteSet(Listed(id)) /\ Listed(id) # {}
  BY PathsFinite, FS_Subset DEF Listed, Ids
<1>2. Cardinality(Listed(id)) \in Nat /\ Cardinality(Listed(id)) # 0
  BY <1>1, FS_CardinalityType, FS_EmptySet
<1>3. CASE Cardinality(Listed(id)) = 1
  <2>1. PICK p : Listed(id) = {p}
    BY <1>1, <1>3, FS_Singleton
  <2> QED
    BY <1>3, <2>1 DEF Good
<1> QED
  BY <1>2, <1>3

(***************************************************************************)
(* Whoever deploys                                                         *)
(***************************************************************************)
\* A format moves on to a later version or stays in deployment: what was read of it stays sound.
LEMMA DirectoryMovesOn ==
    ASSUME TypeOK, LoadsSound, FormatsSound, UNCHANGED <<load, formats>>,
           manifest' \in [Paths -> Nat \ {0}],
           \A p \in Paths : \/ manifest'[p] > manifest[p]
                            \/ manifest'[p] = manifest[p] /\ (Deploying(p) => Deploying(p)')
    PROVE  LoadsSound' /\ FormatsSound'
<1>1. ASSUME NEW p \in Paths, NEW version, NEW status,
             OutcomeSound(p, version, status, manifest[p], Deploying(p))
      PROVE  OutcomeSound(p, version, status, manifest'[p], Deploying(p)')
  <2>1. manifest[p] \in Nat /\ manifest'[p] \in Nat
    BY DEF TypeOK
  <2>2. CASE manifest'[p] > manifest[p]
    BY <1>1, <2>1, <2>2 DEF OutcomeSound
  <2>3. CASE manifest'[p] = manifest[p] /\ (Deploying(p) => Deploying(p)')
    BY <1>1, <2>3 DEF OutcomeSound
  <2> QED
    BY <2>2, <2>3
<1>2. LoadsSound'
  <2> SUFFICES ASSUME NEW t \in Tasks, load[t].pc = "files"
               PROVE  /\ \A p \in DOMAIN load[t].entries : load[t].entries[p] <= manifest'[p]
                      /\ \A p \in DOMAIN load[t].results :
                            /\ p \in DOMAIN load[t].entries
                            /\ OutcomeSound(p, load[t].entries[p], load[t].results[p],
                                            manifest'[p], Deploying(p)')
    BY DEF LoadsSound
  <2>1. load[t] \in LoadOfFiles
    BY DEF TypeOK, NoLoad
  <2>2. load[t].entries \in {<<>>} \cup [Paths -> Nat \ {0}]
    BY <2>1 DEF LoadOfFiles
  <2>3. ASSUME NEW p \in DOMAIN load[t].entries
        PROVE  p \in Paths /\ load[t].entries[p] <= manifest'[p]
    <3>1. p \in Paths /\ load[t].entries[p] \in Nat
      BY <2>2
    <3>2. load[t].entries[p] <= manifest[p]
      BY DEF LoadsSound
    <3>3. manifest[p] \in Nat /\ manifest'[p] \in Nat /\ manifest[p] <= manifest'[p]
      BY <3>1 DEF TypeOK
    <3> QED
      BY <3>1, <3>2, <3>3
  <2> QED
    BY <1>1, <2>3 DEF LoadsSound
<1>3. FormatsSound'
  <2>1. ASSUME NEW id \in DOMAIN formats.status, Good(id), NEW p \in Listed(id)
        PROVE  OutcomeSound(p, formats.versions[id], formats.status[id], manifest'[p], Deploying(p)')
    BY <1>1, <2>1 DEF FormatsSound, Listed
  <2> QED
    BY <2>1 DEF FormatsSound
<1> QED
  BY <1>2, <1>3

LEMMA BeginFileStep ==
    ASSUME FormatsInv, NEW p \in Paths, BeginFile(p)
    PROVE  FormatsInv'
<1>1. TypeOK'
  BY DEF FormatsInv, TypeOK, BeginFile
<1>2. DeployInv'
  BY DEF FormatsInv, TypeOK, DeployInv, BeginFile, Deploying, NoDeploy
<1>3. \A q \in Paths : manifest'[q] = manifest[q] /\ ~Deploying(q)
  BY DEF BeginFile, Deploying
<1>4. LoadsSound' /\ FormatsSound'
  BY <1>1, <1>3, DirectoryMovesOn DEF FormatsInv, TypeOK, BeginFile
<1> QED
  BY <1>1, <1>2, <1>4 DEF FormatsInv

LEMMA EndFileStep ==
    ASSUME FormatsInv, EndFile
    PROVE  FormatsInv'
<1>1. deploy \in [step : {"file", "written"}, path : Paths]
  BY DEF FormatsInv, TypeOK, EndFile, NoDeploy
<1>2. deploy' = [step |-> "written", path |-> deploy.path] /\ deploy' # NoDeploy
  BY <1>1 DEF EndFile, NoDeploy
<1>3. TypeOK'
  BY <1>1, <1>2 DEF FormatsInv, TypeOK, EndFile
<1>4. \A p \in Paths : Deploying(p) <=> Deploying(p)'
  BY <1>1, <1>2 DEF Deploying, EndFile, NoDeploy
<1>5. DeployInv'
  BY <1>1, <1>2, <1>4 DEF FormatsInv, TypeOK, DeployInv, EndFile, Deploying
<1>6. LoadsSound' /\ FormatsSound'
  BY <1>3, <1>4, DirectoryMovesOn DEF FormatsInv, TypeOK, EndFile
<1> QED
  BY <1>3, <1>5, <1>6 DEF FormatsInv

LEMMA BeginManifestStep ==
    ASSUME FormatsInv, BeginManifest
    PROVE  FormatsInv'
BY DEF FormatsInv, TypeOK, DeployInv, LoadsSound, FormatsSound, BeginManifest, Deploying

LEMMA EndManifestStep ==
    ASSUME FormatsInv, EndManifest
    PROVE  FormatsInv'
<1>1. deploy \in [step : {"file", "written"}, path : Paths] /\ deploy.step = "written"
  BY DEF FormatsInv, TypeOK, DeployInv, EndManifest, NoDeploy
<1>2. TypeOK'
  <2>1. manifest' \in [Paths -> Nat \ {0}]
    <3>1. manifest \in [Paths -> Nat \ {0}] /\ manifest[deploy.path] + 1 \in Nat \ {0}
      BY <1>1 DEF FormatsInv, TypeOK
    <3> QED
      BY <3>1 DEF EndManifest
  <2>2. torn' \in BOOLEAN /\ deploy' = NoDeploy /\ UNCHANGED <<file, load>>
    BY DEF EndManifest
  <2> QED
    BY <2>1, <2>2 DEF FormatsInv, TypeOK
<1>3. \A p \in Paths : ~Deploying(p)'
  BY DEF EndManifest, Deploying
<1>4. \A p \in Paths : manifest'[p] = IF p = deploy.path THEN manifest[p] + 1 ELSE manifest[p]
  BY <1>1 DEF FormatsInv, TypeOK, EndManifest
<1>5. DeployInv'
  BY <1>1, <1>3, <1>4 DEF FormatsInv, TypeOK, DeployInv, EndManifest, Deploying, NoDeploy
<1>6. \A p \in Paths : \/ manifest'[p] > manifest[p]
                       \/ manifest'[p] = manifest[p] /\ ~Deploying(p)
  BY <1>4 DEF FormatsInv, TypeOK, Deploying
<1>7. LoadsSound' /\ FormatsSound'
  BY <1>2, <1>6, DirectoryMovesOn DEF FormatsInv, TypeOK, EndManifest
<1> QED
  BY <1>2, <1>5, <1>7 DEF FormatsInv

(***************************************************************************)
(* The two tasks                                                           *)
(***************************************************************************)
\* A step of one load: the directory is as it was, and the other load too.
LEMMA LoadStep ==
    ASSUME FormatsInv, UNCHANGED dirVars, NEW t \in Tasks, NEW new,
           load' = [load EXCEPT ![t] = new],
           new \in {NoLoad, [pc |-> "manifest"]} \cup LoadOfFiles,
           new.pc = "files" =>
              /\ \A p \in DOMAIN new.entries : new.entries[p] <= manifest[p]
              /\ \A p \in DOMAIN new.results :
                    /\ p \in DOMAIN new.entries
                    /\ OutcomeSound(p, new.entries[p], new.results[p], manifest[p], Deploying(p))
    PROVE  /\ TypeOK' /\ DeployInv' /\ LoadsSound'
           /\ formats' = formats => FormatsSound'
<1>1. TypeOK'
  BY DEF FormatsInv, TypeOK, dirVars
<1>2. \A u \in Tasks : load'[u] = IF u = t THEN new ELSE load[u]
  BY DEF FormatsInv, TypeOK
<1>3. \A p : Deploying(p)' <=> Deploying(p)
  BY DEF Deploying, dirVars
<1>4. LoadsSound'
  <2> SUFFICES ASSUME NEW u \in Tasks, load'[u].pc = "files"
               PROVE  /\ \A p \in DOMAIN load'[u].entries : load'[u].entries[p] <= manifest[p]
                      /\ \A p \in DOMAIN load'[u].results :
                            /\ p \in DOMAIN load'[u].entries
                            /\ OutcomeSound(p, load'[u].entries[p], load'[u].results[p],
                                            manifest[p], Deploying(p))
    BY <1>3 DEF LoadsSound, dirVars, OutcomeSound
  <2>1. CASE u = t
    BY <1>2, <2>1
  <2>2. CASE u # t
    BY <1>2, <2>2 DEF FormatsInv, LoadsSound
  <2> QED
    BY <2>1, <2>2
<1>5. DeployInv' /\ (formats' = formats => FormatsSound')
  BY <1>3 DEF FormatsInv, DeployInv, FormatsSound, OutcomeSound, dirVars
<1> QED
  BY <1>1, <1>4, <1>5

LEMMA BeginLoadStep ==
    ASSUME FormatsInv, Tick \/ LoadIndex
    PROVE  FormatsInv'
<1>1. UNCHANGED dirVars /\ formats' = formats
  BY DEF Tick, LoadIndex
<1>2. PICK t \in Tasks : load' = [load EXCEPT ![t] = [pc |-> "manifest"]]
  BY DEF Tick, LoadIndex, Tasks
<1> QED
  BY <1>1, <1>2, LoadStep DEF FormatsInv

LEMMA ReadManifestStep ==
    ASSUME FormatsInv, NEW t \in Tasks, ReadManifest(t)
    PROVE  FormatsInv'
<1> DEFINE new == [pc |-> "files", entries |-> IF torn THEN <<>> ELSE manifest, results |-> <<>>]
<1>1. UNCHANGED dirVars /\ formats' = formats /\ load' = [load EXCEPT ![t] = new]
  BY DEF ReadManifest
<1>2. new.results \in Results
  <2>1. <<>> \in [{} -> Nat]
    OBVIOUS
  <2> QED
    BY <2>1 DEF Results
<1>3. new \in LoadOfFiles
  BY <1>2 DEF LoadOfFiles, FormatsInv, TypeOK
<1>4. \A p \in DOMAIN new.entries : new.entries[p] <= manifest[p]
  BY DEF FormatsInv, TypeOK
<1>5. DOMAIN new.results = {}
  OBVIOUS
<1> HIDE DEF new
<1> QED
  BY <1>1, <1>3, <1>4, <1>5, LoadStep DEF FormatsInv

LEMMA ReadFileStep ==
    ASSUME FormatsInv, NEW t \in Tasks, NEW p \in Paths, ReadFile(t, p)
    PROVE  FormatsInv'
<1> DEFINE old == load[t]
           results == [q \in DOMAIN old.results \cup {p} |->
                            IF q = p THEN Outcome(p, old.entries) ELSE old.results[q]]
           new == [old EXCEPT !.results = results]
<1>1. old \in LoadOfFiles /\ old.pc = "files" /\ p \in DOMAIN old.entries
  BY DEF FormatsInv, TypeOK, ReadFile, ToRead, NoLoad
<1>2. UNCHANGED dirVars /\ formats' = formats /\ load' = [load EXCEPT ![t] = new]
  BY <1>1 DEF ReadFile, LoadOfFiles
<1>3. old.entries[p] \in Nat \ {0} /\ old.entries[p] <= manifest[p]
  BY <1>1 DEF LoadOfFiles, FormatsInv, LoadsSound
<1>4. OutcomeSound(p, old.entries[p], Outcome(p, old.entries), manifest[p], Deploying(p))
  BY <1>3 DEF OutcomeSound, Outcome, FormatsInv, DeployInv, Failed
<1>5. new.entries = old.entries /\ new.results = results /\ new.pc = "files"
  BY <1>1 DEF LoadOfFiles
<1>6. new \in LoadOfFiles
  <2>1. Outcome(p, old.entries) \in Nat
    BY <1>3, <1>4 DEF OutcomeSound, Failed
  <2>2. DOMAIN old.results \subseteq Paths /\ \A q \in DOMAIN old.results : old.results[q] \in Nat
    BY <1>1 DEF LoadOfFiles, Results
  <2>3. DOMAIN old.results \cup {p} \in SUBSET Paths
    BY <2>2
  <2>4. results \in [DOMAIN old.results \cup {p} -> Nat]
    BY <2>1, <2>2
  <2>5. results \in Results
    BY <2>3, <2>4 DEF Results
  <2> QED
    BY <1>1, <2>5 DEF LoadOfFiles
<1>7. \A q \in DOMAIN results :
            /\ q \in DOMAIN old.entries
            /\ OutcomeSound(q, old.entries[q], results[q], manifest[q], Deploying(q))
  <2> SUFFICES ASSUME NEW q \in DOMAIN results
               PROVE  /\ q \in DOMAIN old.entries
                      /\ OutcomeSound(q, old.entries[q], results[q], manifest[q], Deploying(q))
    OBVIOUS
  <2>1. CASE q = p
    BY <1>1, <1>4, <2>1
  <2>2. CASE q # p
    <3>1. q \in DOMAIN old.results /\ results[q] = old.results[q]
      BY <2>2
    <3> HIDE DEF results
    <3> QED
      BY <1>1, <3>1 DEF FormatsInv, LoadsSound
  <2> QED
    BY <2>1, <2>2
<1>8. \A q \in DOMAIN old.entries : old.entries[q] <= manifest[q]
  BY <1>1 DEF FormatsInv, LoadsSound
<1> HIDE DEF old, results, new
<1> QED
  BY <1>2, <1>5, <1>6, <1>7, <1>8, LoadStep DEF FormatsInv

LEMMA CommitStep ==
    ASSUME FormatsInv, NEW t \in Tasks, Commit(t)
    PROVE  FormatsInv'
<1> DEFINE entries == load[t].entries
           results == load[t].results
<1>1. load[t] \in LoadOfFiles /\ load[t].pc = "files"
  BY DEF FormatsInv, TypeOK, Commit, NoLoad
<1>2. TypeOK' /\ DeployInv' /\ LoadsSound'
  <2>1. UNCHANGED dirVars /\ load' = [load EXCEPT ![t] = NoLoad]
    BY DEF Commit
  <2>2. NoLoad.pc # "files"
    BY DEF NoLoad
  <2> QED
    BY <2>1, <2>2, LoadStep
<1>3. /\ formats'.versions = Versions(entries) /\ formats'.status = Status(entries, results)
      /\ UNCHANGED dirVars
  BY DEF Commit, FormatIndex
<1>4. \A p \in DOMAIN entries :
            OutcomeSound(p, entries[p], results[p], manifest[p], Deploying(p))
  BY <1>1 DEF FormatsInv, LoadsSound, Commit, ToRead
<1>5. FormatsSound'
  <2>1. CASE DOMAIN entries = {}
    <3>1. DOMAIN Status(entries, results) = {} /\ DOMAIN Versions(entries) = {}
      BY <2>1, IndexOfNone
    <3> QED
      BY <1>3, <3>1 DEF FormatsSound
  <2>2. CASE DOMAIN entries = Paths
    <3> HIDE DEF entries, results
    <3>1. DOMAIN Status(entries, results) = Ids /\ DOMAIN Versions(entries) = Ids
      BY <2>2, IndexOfAll
    <3>2. ASSUME NEW id \in Ids, Good(id), NEW p \in Listed(id)
          PROVE  OutcomeSound(p, Versions(entries)[id], Status(entries, results)[id],
                              manifest'[p], Deploying(p)')
      <4>1. p \in Paths /\ Listed(id) = {p}
        BY <3>2, GoodPath
      <4>2. Status(entries, results)[id] = results[p] /\ Versions(entries)[id] = entries[p]
        BY <2>2, <3>2, <4>1, IndexOfAll
      <4> QED
        BY <1>3, <1>4, <2>2, <4>1, <4>2 DEF OutcomeSound, Deploying, dirVars
    <3>3. ASSUME NEW id \in Ids, ~Good(id)
          PROVE  Status(entries, results)[id] = Failed
      <4>1. CASE Cardinality(Listed(id)) > 1
        BY <2>2, <4>1, IndexOfAll
      <4>2. ASSUME NEW p \in Bad, Listed(id) = {p}
            PROVE  Status(entries, results)[id] = Failed
        <5>1. p \in Paths /\ Status(entries, results)[id] = results[p]
          BY <2>2, <4>2, IndexOfAll, FormatsAssumption
        <5> QED
          BY <1>4, <2>2, <5>1 DEF OutcomeSound
      <4> QED
        BY <3>3, <4>1, <4>2, NotGood
    <3> QED
      BY <1>3, <3>1, <3>2, <3>3 DEF FormatsSound
  <2>3. entries \in {<<>>} \cup [Paths -> Nat \ {0}]
    BY <1>1 DEF LoadOfFiles
  <2> QED
    BY <2>1, <2>2, <2>3
<1> QED
  BY <1>2, <1>5 DEF FormatsInv

LEMMA InitialFormats == Init => FormatsInv
<1> SUFFICES ASSUME Init PROVE FormatsInv
  OBVIOUS
<1> DEFINE results == [p \in Paths |-> Outcome(p, manifest)]
<1>1. file = [p \in Paths |-> 1] /\ manifest = [p \in Paths |-> 1] /\ deploy = NoDeploy /\ torn = FALSE
  BY DEF Init
<1>2. load = [t \in Tasks |-> NoLoad]
  BY DEF Init
<1>3. TypeOK
  <2>1. file \in [Paths -> Nat] /\ manifest \in [Paths -> Nat \ {0}]
    BY <1>1
  <2>2. load \in [Tasks -> {NoLoad, [pc |-> "manifest"]} \cup LoadOfFiles]
    BY <1>2
  <2> QED
    BY <1>1, <2>1, <2>2 DEF TypeOK
<1>4. DeployInv /\ LoadsSound
  BY <1>1, <1>2 DEF DeployInv, LoadsSound, NoDeploy, NoLoad
<1>5. formats.versions = Versions(manifest) /\ formats.status = Status(manifest, results)
  BY DEF Init, FormatIndex
<1>6. \A p \in Paths : results[p] = IF p \in Bad THEN Failed ELSE 1
  BY <1>1 DEF Outcome
<1>7. DOMAIN manifest = Paths
  BY <1>1
<1> HIDE DEF results
<1>8. DOMAIN Status(manifest, results) = Ids /\ DOMAIN Versions(manifest) = Ids
  BY <1>7, IndexOfAll
<1>9. ASSUME NEW id \in Ids, Good(id), NEW p \in Listed(id)
      PROVE  OutcomeSound(p, formats.versions[id], formats.status[id], manifest[p], Deploying(p))
  <2>1. p \in Paths /\ Listed(id) = {p} /\ p \notin Bad
    BY <1>9, GoodPath
  <2>2. Status(manifest, results)[id] = results[p] /\ Versions(manifest)[id] = manifest[p]
    BY <1>7, <1>9, <2>1, IndexOfAll
  <2>3. manifest[p] = 1 /\ results[p] = 1
    BY <1>1, <1>6, <2>1
  <2> QED
    BY <1>5, <2>1, <2>2, <2>3 DEF OutcomeSound, Failed
<1>10. ASSUME NEW id \in Ids, ~Good(id)
       PROVE  formats.status[id] = Failed
  <2>1. CASE Cardinality(Listed(id)) > 1
    BY <1>5, <1>7, <2>1, IndexOfAll
  <2>2. ASSUME NEW p \in Bad, Listed(id) = {p}
        PROVE  formats.status[id] = Failed
    <3>1. p \in Paths
      BY FormatsAssumption
    <3>2. Status(manifest, results)[id] = results[p]
      BY <1>7, <2>2, <3>1, IndexOfAll
    <3> QED
      BY <1>5, <1>6, <3>1, <3>2
  <2> QED
    BY <1>10, <2>1, <2>2, NotGood
<1>11. FormatsSound
  BY <1>5, <1>8, <1>9, <1>10 DEF FormatsSound
<1> QED
  BY <1>3, <1>4, <1>11 DEF FormatsInv

(***************************************************************************)
(* Theorems                                                                *)
(***************************************************************************)
\* The invariant: the files and manifest.json differ where a deployment is under way, and what
\* loads have read and what is served is judged rightly.
THEOREM FormatsInvariant == Spec => []FormatsInv
<1>1. FormatsInv /\ [Next]_vars => FormatsInv'
  <2> SUFFICES ASSUME FormatsInv, [Next]_vars PROVE FormatsInv'
    OBVIOUS
  <2>1. CASE \E p \in Paths : BeginFile(p)
    BY <2>1, BeginFileStep
  <2>2. CASE EndFile
    BY <2>2, EndFileStep
  <2>3. CASE BeginManifest
    BY <2>3, BeginManifestStep
  <2>4. CASE EndManifest
    BY <2>4, EndManifestStep
  <2>5. CASE Tick \/ LoadIndex
    BY <2>5, BeginLoadStep
  <2>6. CASE \E t \in Tasks : Load(t)
    <3> PICK t \in Tasks : Load(t)
      BY <2>6
    <3> QED
      BY ReadManifestStep, ReadFileStep, CommitStep DEF Load
  <2>7. CASE UNCHANGED vars
    BY <2>7 DEF vars, dirVars, FormatsInv, TypeOK, DeployInv, LoadsSound, FormatsSound, Deploying
  <2> QED
    BY <2>1, <2>2, <2>3, <2>4, <2>5, <2>6, <2>7 DEF Next, FormatsTask, Tasks
<1> QED
  BY <1>1, InitialFormats, PTL DEF Spec

\* What format a client is told is ready (FormatLoadStatus::Ready) is what its recorded version
\* names, whatever was deployed between the reading of manifest.json and that of the file.
THEOREM ReadyStaysRecorded == Spec => []ReadyIsRecorded
<1>1. FormatsInv => ReadyIsRecorded
  <2> SUFFICES ASSUME FormatsInv, NEW id \in DOMAIN formats.status, formats.status[id] # Failed
               PROVE  Good(id) /\ formats.status[id] = formats.versions[id]
    BY DEF ReadyIsRecorded
  <2>1. Good(id)
    BY DEF FormatsInv, FormatsSound
  <2>2. PICK p \in Paths : Listed(id) = {p}
    BY <2>1, GoodPath
  <2> QED
    BY <2>1, <2>2 DEF FormatsInv, FormatsSound, OutcomeSound
<1> QED
  BY <1>1, FormatsInvariant, PTL

\* A format that failed because it was read while it was deployed is not forgotten: its version
\* was recorded, but never the one that manifest.json ends up with.
THEOREM RetriesNotLost == Spec => []NoLostRetry
<1>1. FormatsInv => NoLostRetry
  <2> SUFFICES ASSUME FormatsInv, deploy = NoDeploy, formats.versions = Versions(manifest),
                      NEW id \in Ids, Good(id)
               PROVE  IsReady(id)
    BY DEF NoLostRetry
  <2>1. DOMAIN manifest = Paths
    BY DEF FormatsInv, TypeOK
  <2>2. PICK p \in Paths : Listed(id) = {p} /\ p \notin Bad
    BY GoodPath
  <2>3. id \in DOMAIN formats.status /\ formats.versions[id] = manifest[p]
    BY <2>1, <2>2, IndexOfAll DEF FormatsInv, FormatsSound
  <2>4. OutcomeSound(p, formats.versions[id], formats.status[id], manifest[p], Deploying(p))
    BY <2>2, <2>3 DEF FormatsInv, FormatsSound
  <2>5. formats.status[id] = manifest[p]
    BY <2>2, <2>3, <2>4 DEF OutcomeSound, Deploying
  <2>6. (CHOOSE q \in Listed(id) : TRUE) = p
    BY <2>2
  <2> QED
    BY <2>3, <2>5, <2>6 DEF IsReady
<1> QED
  BY <1>1, FormatsInvariant, PTL
================================================================================
