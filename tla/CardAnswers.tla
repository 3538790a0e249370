------------------------------ MODULE CardAnswers ------------------------------
(***************************************************************************)
(* What the server and the command line answer from an index.  A bitmap is  *)
(* a set of bits.  GET /api/v2/cards combines one bitmap per filter;        *)
(* effects/filtered does so without the ability being edited and looks      *)
(* which idGds are left; the command line reads the same files with code of *)
(* its own.                                                                 *)
(*                                                                         *)
(* A request's parameters are given as a record with blank values and       *)
(* repeated keys already gone; what parse.rs rejects is still in it.  app   *)
(* is a snapshot: a catalog with its index, formats and collections.        *)
(***************************************************************************)
EXTENDS CardIndex, FiniteSets

CONSTANTS
    FormatDefs,     \* the definition in each format's file
    Collections,    \* the references a client posts under each collection id
    MaxLimit,       \* 200
    MaxCost         \* 15

\* Every cost a filter may name has a bucket.
ASSUME CostAssumption == MaxLimit \in Nat \ {0} /\ MaxCost \in Nat /\ MaxCost < Buckets

(***************************************************************************)
(* What the crawl may find                                                  *)
(***************************************************************************)
\* CardJson, of which an idGd is a number and a text a sequence of nodes
Nodes    == [type : STRING, id : Nat]
Elements == [kind : STRING, value : Int, displays : Seq(Seq(Seq(Nodes)))]
Cards    == [bit : Nat, faction : STRING, elements : Seq(Elements)]

\* FamilyEntry
Entries == [set : STRING, family : STRING, start : Nat, max : Nat \ {0}, names : SUBSET STRING]

\* A catalog as build and merge leave it, and one file a card, at the bit of its reference
IsDataset(d) ==
    /\ d.span \in 0 .. MaxBit
    /\ d.families \in Seq(Entries)
    /\ d.cards \in Seq(Cards)
    /\ Tiles(d.families, d.span)
    /\ \A n \in DOMAIN d.cards : \E i \in DOMAIN d.families : d.cards[n].bit \in SpanOf(d.families[i])
    /\ \A m, n \in DOMAIN d.cards : d.cards[m].bit = d.cards[n].bit => m = n

(***************************************************************************)
(* Bitmaps by position                                                      *)
(***************************************************************************)
AllBits(app) == 0 .. app.span - 1  \* all_cards_bitmap
SetCodes(fs) == {fs[i].set : i \in DOMAIN fs}

NoFilter == [k \in Kinds |-> {}]

\* build_set_bitmaps: the positions of one set
SetBitmap(fs, code) == UNION {SpanOf(fs[i]) : i \in {j \in DOMAIN fs : fs[j].set = code}}

\* union_requested_sets
SetBits(fs, sets) == UNION {SetBitmap(fs, code) : code \in sets \cap SetCodes(fs)}

\* bitmap_for_contains; an entry's names are the needles its normalized names contain.
NameBits(fs, needle) == UNION {SpanOf(fs[i]) : i \in {j \in DOMAIN fs : needle \in fs[j].names}}

(***************************************************************************)
(* Bitmaps from lists of references: formats and collections               *)
(***************************************************************************)
AllFound(fs, refs) == \A ref \in refs : \E bit \in 0 .. MaxBit : LooksUp(fs, ref, bit)

\* build_bitmap_from_ref_strs, for references that are all found
RefBits(fs, refs) == {bit \in 0 .. MaxBit : \E ref \in refs : LooksUp(fs, ref, bit)}

Failed == [ready |-> FALSE, negated |-> FALSE, bits |-> {}]

\* FormatDefinition::mode and build_format_bitmap
FormatOf(fs, def) ==
    LET includes == def.included # {}
        excludes == def.sets # {} \/ def.refs # {}
    IN  IF includes /\ ~excludes /\ AllFound(fs, def.included)
        THEN [ready |-> TRUE, negated |-> FALSE, bits |-> RefBits(fs, def.included)]
        ELSE IF excludes /\ ~includes /\ def.sets \subseteq SetCodes(fs) /\ AllFound(fs, def.refs)
        THEN [ready |-> TRUE, negated |-> TRUE, bits |-> SetBits(fs, def.sets) \cup RefBits(fs, def.refs)]
        ELSE Failed

\* What is served of a new index: its formats, and no collections.
SnapshotOf(n, dataset, ix) ==
    [ build |-> n, families |-> dataset.families, span |-> dataset.span,
      cards |-> dataset.cards, index |-> ix,
      formats |-> [id \in DOMAIN FormatDefs |-> FormatOf(dataset.families, FormatDefs[id])],
      collections |-> <<>> ]

(***************************************************************************)
(* parse_request                                                           *)
(***************************************************************************)
Bounds == <<"gt", "gte", "lt", "lte">>  \* the order in which parse_cost_predicate looks

\* More than one of exact, array and range
Mixed(cost) == Cardinality((DOMAIN cost \ ToSet(Bounds)) \cup
                           (IF DOMAIN cost \cap ToSet(Bounds) # {} THEN {"range"} ELSE {})) > 1

\* Only the first bound counts.
BoundOf(cost) ==
    {Bounds[i] : i \in {j \in DOMAIN Bounds :
        Bounds[j] \in DOMAIN cost /\ \A h \in 1 .. j - 1 : Bounds[h] \notin DOMAIN cost}}

\* The parameters of a cost that are read
Read(cost) == IF DOMAIN cost \cap ToSet(Bounds) = {} THEN DOMAIN cost ELSE BoundOf(cost)

BadCost(cost) == Mixed(cost) \/ \E k \in Read(cost) : \E v \in cost[k] : v > MaxCost

\* validate_idgd_types
BadIds(ix, ids) == \E k \in Kinds : \E id \in ids[k] : id \notin DOMAIN ix.types \/ ix.types[id] # k

\* parse_effect_mode
BadMode(p) == p.mode \notin {"and", "or"}

\* parse_match_count
BadCount(slot) == slot.count \notin 1 .. 3

\* parse_factions
BadFactions(p) == ~p.factions \subseteq Factions

\* parse_sets only gathers; a set is looked for in the index.
BadSets(app, p) == ~p.sets \subseteq SetCodes(app.families)

BadRequest(app, p) ==
    \/ p.limit \notin 1 .. MaxLimit
    \/ p.cursor # <<>> /\ p.cursor[1] >= app.span
    \/ \E n \in DOMAIN p.effects : BadCount(p.effects[n]) \/ BadIds(app.index, p.effects[n].ids)
    \/ BadMode(p) \/ BadFactions(p) \/ BadSets(app, p)
    \/ BadIds(app.index, p.support)
    \/ \E s \in DOMAIN p.costs : BadCost(p.costs[s])
    \/ p.format # <<>> /\ p.format[1] \notin DOMAIN app.formats

\* resolve_format_filter and resolve_collection_filter are last.
Status(app, p) ==
    IF BadRequest(app, p) THEN 400
    ELSE IF p.format # <<>> /\ ~app.formats[p.format[1]].ready THEN 500
    ELSE IF p.collection # <<>> /\ p.collection[1] \notin DOMAIN app.collections THEN 422
    ELSE 200

\* Slots without an id are dropped.
Slots(p) == {n \in DOMAIN p.effects : p.effects[n].ids # NoFilter}

(***************************************************************************)
(* build_bitmap                                                            *)
(***************************************************************************)
\* Mutant: the ids of an ability may be on different lines.
OnLineAnywhere(app, line, ids) ==
    {bit \in AllBits(app) : \A k \in Kinds : ids[k] # {} =>
            \E id \in ids[k] : \E l \in Lines : <<l, id, bit>> \in app.index.lines}

\* bitmap_intersect_buckets_on_line: of each kind asked for, one of the ids, all on this line.
OnLine(app, line, ids) ==
    {bit \in AllBits(app) : \A k \in Kinds : ids[k] # {} =>
            \E id \in ids[k] : <<line, id, bit>> \in app.index.lines}

\* effect_slot_bitmap, combine_line_matches: on count of the main lines.
SlotBits(app, slot) ==
    LET onLine == [g \in DOMAIN MainLines |-> OnLine(app, MainLines[g], slot.ids)]
    IN  {bit \in AllBits(app) : Cardinality({g \in DOMAIN onLine : bit \in onLine[g]}) >= slot.count}

Compare(op, v, bound) ==
    CASE op = "gt" -> v > bound [] op = "gte" -> v >= bound
      [] op = "lt" -> v < bound [] op = "lte" -> v <= bound
      [] OTHER -> v = bound

\* bitmap_for_cost_predicate
CostBits(app, stat, cost) ==
    {bit \in AllBits(app) :
        \E k \in Read(cost) : \E v \in 0 .. MaxCost, c \in cost[k] :
            Compare(k, v, c) /\ <<stat, v, bit>> \in app.index.stats}

\* The cards of any of the factions
FactionBits(app, fs) == {bit \in AllBits(app) : \E f \in fs : <<f, bit>> \in app.index.factions}

Format(app, p, negated) ==
    {app.formats[id].bits : id \in {f \in ToSet(p.format) : app.formats[f].negated = negated}}

\* combine_effect_bitmaps: the abilities as groups, which in mode or are one
Combined(mode, slots) == IF mode = "or" /\ slots # {} THEN {UNION slots} ELSE slots

\* The groups that are intersected
Groups(app, p) ==
    Combined(p.mode, {SlotBits(app, p.effects[n]) : n \in Slots(p)})
    \cup {OnLine(app, "Ec", ids) : ids \in {p.support} \ {NoFilter}}
    \cup {FactionBits(app, fs) : fs \in {p.factions} \ {{}}}
    \cup {SetBits(app.families, sets) : sets \in {p.sets} \ {{}}}
    \cup {CostBits(app, s, p.costs[s]) : s \in {t \in DOMAIN p.costs : Read(p.costs[t]) # {}}}
    \cup {NameBits(app.families, needle) : needle \in ToSet(p.name)}
    \cup Format(app, p, FALSE)
    \cup {app.collections[id] : id \in ToSet(p.collection)}

\* Without a group every bit of the span; what a negated format has is taken away at the end.
Answer(app, p) ==
    {bit \in AllBits(app) : \A g \in Groups(app, p) : bit \in g} \ UNION Format(app, p, TRUE)

(***************************************************************************)
(* get_cards_v2                                                            *)
(***************************************************************************)
\* The n-th has n - 1 below it.
Sorted(bits) ==
    [n \in 1 .. Cardinality(bits) |-> CHOOSE bit \in bits : Cardinality({b \in bits : b < bit}) = n - 1]

After(bits, cursor) == {bit \in bits : \A c \in ToSet(cursor) : bit > c}

\* Mutant: the cursor of a page counts from one.
NextCursorOff(p, page) == IF Len(page) = p.limit THEN <<Last(page) + 1>> ELSE <<>>

\* Mutant: a page without cards gives the cursor back that was asked with.
NextCursorKept(p, page) ==
    IF page = <<>> THEN p.cursor ELSE IF Len(page) = p.limit THEN <<Last(page)>> ELSE <<>>

\* A full page has a cursor even if it is the last.
NextCursor(p, page) == IF Len(page) = p.limit THEN <<Last(page)>> ELSE <<>>

\* page_cards_v2
PageOf(bits, cursor, limit) ==
    LET rest == Sorted(After(bits, cursor)) IN SubSeq(rest, 1, Min({limit, Len(rest)}))

\* A group of adjoining rows of one family, from its head on
GroupBits(fs, head) ==
    UNION {SpanOf(fs[i]) : i \in {j \in DOMAIN fs : j >= head /\ SpanHeads(fs) \cap head + 1 .. j = {}}}

\* Mutant: every row is a group of its own.
FamilyGroupsByRow(fs) == [i \in DOMAIN fs |-> [family |-> fs[i].family, bits |-> SpanOf(fs[i])]]

FamilyGroups(fs) ==
    LET heads == Sorted(SpanHeads(fs))
    IN  [i \in DOMAIN heads |-> [family |-> fs[heads[i]].family, bits |-> GroupBits(fs, heads[i])]]

\* families_from_bitmap
FamiliesOf(app, bits) ==
    LET groups == FamilyGroups(app.families)
        hit    == Sorted({i \in DOMAIN groups : groups[i].bits \cap bits # {}})
    IN  [n \in DOMAIN hit |-> [family |-> groups[hit[n]].family,
                               count  |-> Cardinality(groups[hit[n]].bits \cap bits),
                               first  |-> Min(groups[hit[n]].bits \cap bits)]]

Refused(status) == [status |-> status, total |-> 0, cards |-> <<>>, cursor |-> <<>>, families |-> <<>>]

Reply(app, p) ==
    LET bits == Answer(app, p)
        page == PageOf(bits, p.cursor, p.limit)
        fams == FamiliesOf(app, bits)
    IN  IF Status(app, p) # 200 THEN Refused(Status(app, p))
        ELSE IF p.families /\ p.cursor = <<>>
        THEN [status |-> 200, total |-> Cardinality(bits), families |-> fams, cursor |-> <<>>,
              cards |-> [i \in DOMAIN fams |-> fams[i].first]]
        ELSE [status |-> 200, total |-> Cardinality(bits), families |-> <<>>,
              cards |-> page, cursor |-> NextCursor(p, page)]

\* A row past the cards written is all zero.
RecordOf(app, bit) == IF bit \in DOMAIN app.index.records THEN app.index.records[bit] ELSE ZeroRecord

\* Mutant: a record without a faction is shown.
CardFoundAny(app, ref) == {bit \in AllBits(app) : Resolves(app.families, ref, bit)}

\* get_card_v2: empty for a 404.
CardFound(app, ref) ==
    {bit \in AllBits(app) : Resolves(app.families, ref, bit) /\ RecordOf(app, bit).faction # "UN"}

(***************************************************************************)
(* get_effects_filtered.  region is <<n>> for the ability of slot n, <<>>   *)
(* for the support line.                                                   *)
(***************************************************************************)
LinesOf(region) == IF region = <<>> THEN {"Ec"} ELSE ToSet(MainLines)

IdsIn(p, region) ==
    IF region = <<>> THEN p.support
    ELSE IF region[1] \in DOMAIN p.effects THEN p.effects[region[1]].ids ELSE NoFilter

Without(p, region) ==
    IF region = <<>> THEN [p EXCEPT !.support = NoFilter]
    ELSE [p EXCEPT !.effects = Restrict(@, DOMAIN @ \ {region[1]})]

\* Mutant: the edited ability still restricts the base.
OfferedWithin(app, p, kind, region) ==
    LET others == [IdsIn(p, region) EXCEPT ![kind] = {}]
    IN  {id \in DOMAIN app.index.types :
            /\ app.index.types[id] = kind
            /\ \E l \in LinesOf(region) : \E bit \in Answer(app, p) \cap OnLine(app, l, others) :
                    <<l, id, bit>> \in app.index.lines}

Offered(app, p, kind, region) ==
    LET base   == Answer(app, Without(p, region))
        others == [IdsIn(p, region) EXCEPT ![kind] = {}]
    IN  {id \in DOMAIN app.index.types :
            /\ app.index.types[id] = kind
            /\ \E l \in LinesOf(region) : \E bit \in base \cap OnLine(app, l, others) :
                    <<l, id, bit>> \in app.index.lines}

(***************************************************************************)
(* The command line: query                                                 *)
(***************************************************************************)
\* build_multi_idgd_query: no ids, or one that has no type or none of the three, is an error.
QueryRefused(app, ids) ==
    ids = {} \/ \E id \in ids : id \notin DOMAIN app.index.types \/ app.index.types[id] \notin Kinds

\* bucket_id_gds
BucketsOf(app, ids) == [k \in Kinds |-> {id \in ids : app.index.types[id] = k}]

GivenBuckets(buckets) == {buckets[k] : k \in Kinds} \ {{}}

\* union_whole_card_bitmaps
WholeCard(app, ids) == {w[2] : w \in {x \in app.index.whole : x[1] \in ids}}

\* union_per_line_bitmaps
PerLine(app, line, ids) == {t[3] : t \in {x \in app.index.lines : x[1] = line /\ x[2] \in ids}}

\* intersect_groups: without a group there is nothing.
Common(groups) == {bit \in UNION groups : \A g \in groups : bit \in g}

\* intersect_buckets_on_line
CommonOnLine(app, line, buckets) == Common({PerLine(app, line, ids) : ids \in GivenBuckets(buckets)})

\* execute_per_line_query
QueryPerLine(app, ids) == UNION {CommonOnLine(app, l, BucketsOf(app, ids)) : l \in Lines}

\* execute_whole_card_query
QueryWhole(app, ids) == Common({WholeCard(app, bucket) : bucket \in GivenBuckets(BucketsOf(app, ids))})

\* query_refid_effect_text
QueryRef(app, ref) ==
    {bit \in AllBits(app) : LooksUp(app.families, ref, bit) /\ RecordOf(app, bit).faction # "UN"}

(***************************************************************************)
(* What a request says, read card by card                                  *)
(***************************************************************************)
EntryOf(app, card) ==
    app.families[CHOOSE i \in DOMAIN app.families : card.bit \in SpanOf(app.families[i])]
RefOf(app, card) == Ref(EntryOf(app, card), card.bit - EntryOf(app, card).start + 1)

\* The nodes a card has on a line of text
NodesOn(card, line) ==
    UNION {IF e.kind = "ECHO_EFFECT" /\ line = "Ec" THEN ToSet(NodesOf(e))
           ELSE UNION {ToSet(FlattenSeq(e.displays[g])) : g \in
                    {h \in DOMAIN e.displays \cap DOMAIN MainLines :
                        e.kind = "MAIN_EFFECT" /\ MainLines[h] = line}}
           : e \in ToSet(card.elements)}

HasAbility(card, line, ids) ==
    \A k \in Kinds : ids[k] # {} => \E n \in NodesOn(card, line) : n.id \in ids[k]

HasSlot(card, slot) ==
    Cardinality({g \in DOMAIN MainLines : HasAbility(card, MainLines[g], slot.ids)}) >= slot.count

\* The elements that give a card a statistic; the last of them counts.
Giving(card, stat) ==
    {i \in DOMAIN card.elements : card.elements[i].kind = stat /\ Parses(card.elements[i].value)}

ValueOf(card, stat) == IF Giving(card, stat) = {} THEN 0 ELSE card.elements[Max(Giving(card, stat))].value

InFormat(app, card, def) ==
    IF def.included # {} THEN RefOf(app, card) \in def.included
    ELSE EntryOf(app, card).set \notin def.sets /\ RefOf(app, card) \notin def.refs

\* Of several bounds the first is meant, and a cost past the last bucket is never.
HasCost(card, stat, cost) ==
    \A k \in Read(cost) : ValueOf(card, stat) <= MaxCost /\ \E c \in cost[k] : Compare(k, ValueOf(card, stat), c)

Matches(app, card, p) ==
    /\ IF p.mode = "or" /\ Slots(p) # {} THEN \E n \in Slots(p) : HasSlot(card, p.effects[n])
       ELSE \A n \in Slots(p) : HasSlot(card, p.effects[n])
    /\ HasAbility(card, "Ec", p.support)
    /\ p.factions # {} => card.faction \in p.factions
    /\ p.sets # {} => EntryOf(app, card).set \in p.sets
    /\ \A s \in DOMAIN p.costs : HasCost(card, s, p.costs[s])
    /\ \A needle \in ToSet(p.name) : needle \in EntryOf(app, card).names
    /\ \A id \in ToSet(p.format) : InFormat(app, card, FormatDefs[id])
    /\ \A id \in ToSet(p.collection) : RefOf(app, card) \in Collections[id]

MatchingBits(app, p) == {card.bit : card \in {c \in ToSet(app.cards) : Matches(app, c, p)}}
CardBits(app) == {card.bit : card \in ToSet(app.cards)}
================================================================================
