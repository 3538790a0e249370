------------------------------ MODULE CardQuery ------------------------------
(***************************************************************************)
(* Questions to an index: a dataset is indexed card by card, published to   *)
(* the server, and perhaps replaced by another while a client pages through *)
(* an answer.                                                               *)
(***************************************************************************)
EXTENDS CardAnswers

CONSTANTS
    Datasets,       \* what the crawl may find, with the catalog it leads to
    Requests,       \* parameters of GET /api/v2/cards
    Edited,         \* parameters of GET /api/v2/effects/filtered
    MaxBuilds       \* bound: indexes published

(***************************************************************************)
(* What may be asked                                                       *)
(***************************************************************************)
\* References count from 1; what the code does of a UniqueID 0 is in module HotReload.
Refs == [set : STRING, family : STRING, uid : 1 .. MaxBit]

RequestFields == {"limit", "cursor", "effects", "mode", "support", "factions", "sets", "costs",
                  "name", "families", "format", "collection"}

IsRequest(p) ==
    /\ p = [field \in RequestFields |-> p[field]]
    /\ p.limit \in Nat
    /\ \A field \in {"name", "format", "collection"} : p[field] \in Seq(STRING) /\ Len(p[field]) <= 1
    /\ \A n \in DOMAIN p.effects : p.effects[n] \in [ids : [Kinds -> SUBSET Nat], count : Nat]
    /\ p.support \in [Kinds -> SUBSET Nat]
    /\ \A s \in DOMAIN p.costs :
            /\ s \in Stats
            /\ DOMAIN p.costs[s] # {} /\ DOMAIN p.costs[s] \subseteq ToSet(Bounds) \cup {"exact", "array"}
            /\ \A k \in DOMAIN p.costs[s] : p.costs[s][k] \in SUBSET Nat

ASSUME DatasetsAssumption == \A d \in Datasets : IsDataset(d)

ASSUME FilesAssumption ==
    /\ \A id \in DOMAIN FormatDefs : FormatDefs[id] \in [included : SUBSET Refs, sets : SUBSET STRING, refs : SUBSET Refs]
    /\ \A id \in DOMAIN Collections : Collections[id] \in SUBSET Refs

\* A client's first request has no cursor.
ASSUME RequestsAssumption ==
    /\ \A p \in Requests : IsRequest(p) /\ p.cursor = <<>>
    /\ \A p \in Edited : IsRequest(p)

VARIABLES
    data,       \* the dataset being indexed
    done,       \* how many of its cards are indexed
    index,      \* the stores of build_index
    builds,     \* indexes built or being built
    served,     \* the snapshot
    chat        \* the client's request and what it has been answered

buildVars == <<data, done, index>>
vars == <<buildVars, builds, served, chat>>

(***************************************************************************)
(* The server and its client                                               *)
(***************************************************************************)
NoApp == [build |-> 0]
Quiet == [phase |-> "quiet"]

Init ==
    /\ data \in Datasets /\ done = 0 /\ index = EmptyIndex
    /\ builds = 1 /\ served = NoApp
    /\ chat = Quiet

Built == done = Len(data.cards)

Build ==
    /\ ~Built
    /\ index' = Indexed(index, data.cards[done + 1])
    /\ done' = done + 1
    /\ UNCHANGED <<data, builds, served, chat>>

Published == served # NoApp /\ served.build = builds

\* The index replaces the one served: formats are built against it, collections are gone.
Publish ==
    /\ Built /\ ~Published
    /\ served' = SnapshotOf(builds, data, index)
    /\ UNCHANGED <<buildVars, builds, chat>>

StartBuild ==
    /\ Published /\ builds < MaxBuilds
    /\ builds' = builds + 1
    /\ data' \in Datasets /\ done' = 0 /\ index' = EmptyIndex
    /\ UNCHANGED <<served, chat>>

\* post_collection; a reference that is not found refuses it all.
PostCollection(id) ==
    /\ served # NoApp
    /\ AllFound(served.families, Collections[id])
    /\ served' = [served EXCEPT !.collections = Extend(@, id, RefBits(served.families, Collections[id]))]
    /\ UNCHANGED <<buildVars, builds, chat>>

Answered(p, got, seen, reply) ==
    [ phase |-> IF reply.cursor # <<>> THEN "paging" ELSE "over",
      p |-> p, got |-> got \o reply.cards, seen |-> seen \cup {served.build}, reply |-> reply ]

Search(p) ==
    /\ chat = Quiet /\ served # NoApp
    /\ chat' = Answered(p, <<>>, {}, Reply(served, p))
    /\ UNCHANGED <<buildVars, builds, served>>

\* The same request with the cursor of the last reply
NextPage ==
    /\ chat.phase = "paging"
    /\ LET p == [chat.p EXCEPT !.cursor = chat.reply.cursor]
       IN  chat' = Answered(p, chat.got, chat.seen, Reply(served, p))
    /\ UNCHANGED <<buildVars, builds, served>>

Options(p, kind, region) ==
    /\ chat = Quiet /\ served # NoApp
    /\ Status(served, p) = 200
    /\ chat' = [ phase |-> "options", p |-> p, kind |-> kind, region |-> region,
                 offered |-> Offered(served, p, kind, region), seen |-> {served.build} ]
    /\ UNCHANGED <<buildVars, builds, served>>

Next ==
    \/ Build \/ Publish \/ StartBuild
    \/ \E id \in DOMAIN Collections : PostCollection(id)
    \/ \E p \in Requests : Search(p)
    \/ NextPage
    \/ \E p \in Edited, kind \in Kinds :
            \E region \in {<<>>} \cup {<<n>> : n \in DOMAIN p.effects \cup {0}} : Options(p, kind, region)

\* The client asks for pages as long as there is a cursor.
Spec == Init /\ [][Next]_vars /\ WF_vars(NextPage)

(***************************************************************************)
(* Properties                                                              *)
(***************************************************************************)
\* The client's answers so far all come from the index now served.
OneIndex == chat # Quiet /\ chat.seen = {served.build}
Listing == OneIndex /\ chat.phase # "options" /\ chat.reply.status = 200

\* Of the cards of the dataset, the bitmaps select those the request describes, whatever filters
\* are combined.  A filter on what is on the cards selects nothing else; the other filters also
\* select positions without a card.
AnswerIsReading ==
    Listing =>
        LET p == chat.p
        IN  /\ Answer(served, p) \cap CardBits(served) = MatchingBits(served, p)
            /\ Slots(p) # {} \/ p.support # NoFilter \/ p.factions # {} \/ DOMAIN p.costs # {}
                    => Answer(served, p) \subseteq CardBits(served)

\* A client that follows the cursors is given the answer in order, each card once, and all of it
\* when there is no cursor any more.
PagesPartition ==
    Listing /\ ~chat.p.families =>
        LET all == Sorted(Answer(served, chat.p))
        IN  /\ chat.got = SubSeq(all, 1, Len(chat.got))
            /\ chat.phase = "over" => chat.got = all
            /\ chat.reply.total = Len(all)

\* No family has rows in two places, as it may after a merge of sets in an order that does not chain.
Together(fs) == \A i, j \in SpanHeads(fs) : fs[i].family = fs[j].family => i = j

AddCount(n, f) == n + f.count

\* families[] has every family of the answer once, with as many positions as decode to it and
\* the first of them, so its counts add up to the total.
FamiliesCountAnswer ==
    Listing /\ chat.p.families /\ Together(served.families) =>
        LET fams == chat.reply.families
            bitsOf(f) == {bit \in Answer(served, chat.p) :
                            \E e \in ToSet(served.families) : e.family = f /\ bit \in SpanOf(e)}
        IN  /\ \A i, j \in DOMAIN fams : fams[i].family = fams[j].family => i = j
            /\ \A i \in DOMAIN fams : /\ fams[i].count = Cardinality(bitsOf(fams[i].family))
                                      /\ fams[i].first = Min(bitsOf(fams[i].family))
            /\ \A e \in ToSet(served.families) :
                    bitsOf(e.family) # {} => \E i \in DOMAIN fams : fams[i].family = e.family
            /\ FoldLeft(AddCount, 0, fams) = chat.reply.total

Chosen(p, kind, region, id) ==
    IF region = <<>> THEN [p EXCEPT !.support[kind] = {id}]
    ELSE LET slot == IF region[1] \in DOMAIN p.effects THEN p.effects[region[1]]
                     ELSE [ids |-> NoFilter, count |-> 1]
         IN  [p EXCEPT !.effects = Extend(@, region[1], [slot EXCEPT !.ids[kind] = {id}])]

Leads(p, kind, region, id) == Answer(served, Chosen(p, kind, region, id)) # {}

OfferedOnceLine(p, region) ==
    region = <<>> \/ region[1] \notin DOMAIN p.effects \/ p.effects[region[1]].count = 1

\* An option is offered exactly if choosing it leaves a card, where one line is asked for and
\* abilities are combined by "and" (or there is no other).
OptionsLead ==
    OneIndex /\ chat.phase = "options" /\ OfferedOnceLine(chat.p, chat.region)
    /\ (chat.p.mode = "and" \/ chat.region = <<>> \/ Slots(chat.p) \subseteq {chat.region[1]}) =>
        \A id \in DOMAIN served.index.types :
            served.index.types[id] = chat.kind =>
                (id \in chat.offered <=> Leads(chat.p, chat.kind, chat.region, id))

\* The server and the command line agree on the same index: a list of idGds finds what it finds
\* as an ability or as a support ability, never more than on whole cards; and a reference finds
\* the card that has it, or nothing if there is none or its faction is unknown, in a family with
\* one row (of several the server takes the last, and the command line refuses).
ToolsAgree ==
    chat = Quiet /\ served # NoApp =>
        /\ \A ids \in {x \in SUBSET DOMAIN served.index.types : ~QueryRefused(served, x)} :
                LET buckets == BucketsOf(served, ids)
                    found   == QueryPerLine(served, ids)
                IN  /\ found = SlotBits(served, [ids |-> buckets, count |-> 1])
                                    \cup OnLine(served, "Ec", buckets)
                    /\ found \subseteq QueryWhole(served, ids)
        /\ \A i \in DOMAIN served.families : \A uid \in 1 .. served.families[i].max + 1 :
                LET ref  == Ref(served.families[i], uid)
                    bits == {c.bit : c \in {d \in ToSet(served.cards) :
                                RefOf(served, d) = ref /\ d.faction \in Factions}}
                IN  Matching(served.families, ref) = {i} =>
                        CardFound(served, ref) = bits /\ QueryRef(served, ref) = bits

\* Paging ends, even if the index is replaced in the middle of it.
PagingEnds == chat.phase = "paging" ~> chat.phase = "over"
==============================================================================
