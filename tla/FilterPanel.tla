----------------------------- MODULE FilterPanel -----------------------------
(***************************************************************************)
(* The filter panel of the demo UI over the server's answers: what the user *)
(* types and picks, the query the panel becomes, and the suggestions of the *)
(* box that has the focus.  When requests are sent and which answer counts  *)
(* is module CardsQueryHook; here every answer is the one for what is shown. *)
(*                                                                         *)
(* The text of a box is the sequence of what stands between its commas: an  *)
(* idGd, as String writes it, Blank, or a word that is no number.  <<>> is   *)
(* the empty text and one of blanks alone.  A cost's text is a sequence of   *)
(* ranges, one that cannot be read being empty.                              *)
(* The box of an ability is [region, kind], with region <<i>> for the i-th  *)
(* slot of the panel and <<>> for the support ability.                      *)
(***************************************************************************)
EXTENDS CardAnswers

CONSTANTS
    Crawled,        \* the datasets served, one after the other
    Blank,
    NoBox,
    Typed,          \* what a user types into a box
    CostTexts,      \* and into a cost
    Limits,         \* and into the limit, <<>> or <<n>>
    Words,          \* and as name, format or collection, by field
    Containing,     \* <<id, token>>: the option's number or text has the token in it
    MaxFiltered,    \* MAX_FILTERED_SUGGESTIONS
    Codes, Sets,    \* the factions and sets a user toggles
    MaxSlots, MaxFilled     \* bounds on the panel

IsSequence(x) == x \in Seq(ToSet(x))

\* The largest limit the panel sends is one the server takes.
ASSUME PanelAssumption ==
    /\ IsSequence(Crawled) /\ Crawled # <<>> /\ \A n \in DOMAIN Crawled : IsDataset(Crawled[n])
    /\ Codes \subseteq Factions /\ 200 <= MaxLimit
    /\ Blank \notin Nat
    /\ \A text \in Typed : IsSequence(text) /\ text # <<Blank>>
    /\ MaxFiltered \in Nat \ {0}
    /\ CostTexts \subseteq Seq(Nat \X Nat) /\ Limits \subseteq Seq(Nat)
    /\ DOMAIN Words = {"name", "format", "collection"}
    /\ \A field \in DOMAIN Words : \A text \in Words[field] : text \in Seq(STRING) /\ Len(text) <= 1

VARIABLES
    panel,      \* FilterState
    focus,      \* the box with the focus
    typing,     \* isFiltering of that box; a box without the focus forgets it
    catalog,    \* useEffectsCatalog
    edition     \* which of Snapshots is served

panelVars == <<panel, focus, typing, catalog, edition>>

Costs == {"MAIN_COST", "RECALL_COST"}  \* handCost, reserveCost

EmptyTexts == [k \in Kinds |-> <<>>]
EmptySlot == [texts |-> EmptyTexts, count |-> 1]

DefaultPanel ==
    [ effects |-> <<EmptySlot>>, mode |-> "and", support |-> EmptyTexts, factions |-> {}, sets |-> {},
      costs |-> [s \in Costs |-> <<>>], words |-> [f \in DOMAIN Words |-> <<>>],
      limit |-> <<>>, families |-> FALSE ]

Snapshots == [n \in DOMAIN Crawled |-> SnapshotOf(n, Crawled[n], FoldLeft(Indexed, EmptyIndex, Crawled[n].cards))]

App == Snapshots[edition]

(***************************************************************************)
(* The query a panel becomes                                               *)
(***************************************************************************)
SlotHasValues(slot) == slot.texts # EmptyTexts

ActiveSlots(effects) == {i \in DOMAIN effects : SlotHasValues(effects[i])}

\* effects.filter(slotHasValues)
Active(effects) ==
    LET on == Sorted(ActiveSlots(effects)) IN [n \in DOMAIN on |-> effects[on[n]]]

\* The ids the server reads from the texts
IdsOfTexts(texts) == [k \in Kinds |-> ToSet(texts[k]) \ {Blank}]

\* The parameters of a slot
Sent(slot) == [ids |-> IdsOfTexts(slot.texts), count |-> slot.count]

\* Mutant: the end of a range is left out.
ExpandTokenBelow(range) == range[1] .. range[2] - 1

ExpandToken(range) == range[1] .. range[2]

\* parseCostInput: every token is a number or range within 0 .. MaxCost.
CostParses(text) == \A n \in DOMAIN text : text[n][1] <= text[n][2] /\ text[n][2] <= MaxCost

CostValues(text) == UNION {ExpandToken(text[n]) : n \in DOMAIN text}

\* appendCostParams; a cost that cannot be read is skipped.
CostParams(costs) ==
    [s \in {t \in Costs : costs[t] # <<>> /\ CostParses(costs[t])} |->
        LET values == CostValues(costs[s])
        IN  [op \in {IF Cardinality(values) = 1 THEN "exact" ELSE "array"} |-> values]]

LimitOf(text) == IF text = <<>> THEN 50 ELSE Min({200, Max({1, text[1]})})

\* appendFilterParams and the rest of buildQuery
Query(pan) ==
    LET on == Active(pan.effects)
    IN  [ effects    |-> [n \in 0 .. Len(on) - 1 |-> Sent(on[n + 1])],
          mode       |-> IF Len(on) >= 2 THEN pan.mode ELSE "and",
          support    |-> IdsOfTexts(pan.support),
          factions   |-> pan.factions, sets |-> pan.sets,
          costs      |-> CostParams(pan.costs),
          name       |-> pan.words.name, format |-> pan.words.format, collection |-> pan.words.collection,
          limit      |-> LimitOf(pan.limit), families |-> pan.families, cursor |-> <<>> ]

\* buildQuery fails, and no search is sent, on a cost that cannot be read.
Sendable(pan) == \A s \in Costs : CostParses(pan.costs[s])

(***************************************************************************)
(* Suggestions                                                             *)
(***************************************************************************)
\* Mutant: the slot's position in the panel.
UiSlotIndex(effects, i) == i - 1

\* The active slots before slot i
CompactedSlotIndex(effects, i) == Cardinality({j \in ActiveSlots(effects) : j < i})

\* buildFilteredEffectsQuery: the ability the server is told is edited
Editing(pan, box) ==
    IF box.region = <<>> THEN <<>> ELSE <<CompactedSlotIndex(pan.effects, box.region[1])>>

\* The ids of a kind that GET /api/v2/effects lists for a region
CatalogOptions(app, box) ==
    {id \in DOMAIN app.index.types :
        /\ app.index.types[id] = box.kind
        /\ \E l \in LinesOf(box.region), bit \in AllBits(app) : <<l, id, bit>> \in app.index.lines}

\* What the box lists before narrowing, which needs a catalog
BoxOptions(box) == UNION {CatalogOptions(Snapshots[n], box) : n \in ToSet(catalog.from)}

TextOf(pan, box) ==
    IF box.region = <<>> THEN pan.support[box.kind] ELSE pan.effects[box.region[1]].texts[box.kind]

ActiveToken(text) == IF text = <<>> THEN Blank ELSE Last(text)

MatchesOption(id, token) == token \in {Blank, id} \/ <<id, token>> \in Containing

\* While the user types, the first options that have what is being typed; options come by id.
Listed(text, options) ==
    IF ~typing THEN options
    ELSE LET matching == Sorted({id \in options : MatchesOption(id, ActiveToken(text))})
         IN  ToSet(SubSeq(matching, 1, Min({MaxFiltered, Len(matching)})))

\* useFilteredEffectOptions once answered, with what the box makes of it: an error does not narrow.
Suggestions(pan, box) ==
    Listed(TextOf(pan, box),
           IF Status(App, Query(pan)) # 200 THEN BoxOptions(box)
           ELSE BoxOptions(box) \cap Offered(App, Query(pan), box.kind, Editing(pan, box)))

(***************************************************************************)
(* The panel                                                               *)
(***************************************************************************)
WithText(pan, box, text) ==
    IF box.region = <<>> THEN [pan EXCEPT !.support[box.kind] = text]
    ELSE [pan EXCEPT !.effects[box.region[1]].texts[box.kind] = text]

Boxes(pan) == [region : {<<>>} \cup {<<i>> : i \in DOMAIN pan.effects}, kind : Kinds]

\* applySelection
Replaced(text, id) == Append(SubSeq(text, 1, Len(text) - 1), id)

\* appendSelection
Appended(text, id) == IF text # <<>> /\ Last(text) = Blank THEN Replaced(text, id) ELSE Append(text, id)

\* selectItem
Selected(pan, box, id) ==
    LET text == TextOf(pan, box)
    IN  WithText(pan, box, IF typing THEN Replaced(text, id) ELSE Appended(text, id))

\* Bound: how much is filled in
Filled(pan) ==
    FoldSeq(LAMBDA slot, n : n + slot.count - 1
                               + Len(slot.texts["TRIGGER"]) + Len(slot.texts["CONDITION"]) + Len(slot.texts["OUTPUT"]),
            0, Append(pan.effects, [texts |-> pan.support, count |-> 1]))
    + Cardinality(pan.factions) + Cardinality(pan.sets)
    + Cardinality({s \in Costs : pan.costs[s] # <<>>})
    + Cardinality({f \in DOMAIN Words : pan.words[f] # <<>>})
    + Len(pan.limit) + (IF pan.families THEN 1 ELSE 0)

PanelInit ==
    /\ panel = DefaultPanel /\ focus = NoBox /\ typing = FALSE
    /\ catalog = [status |-> "loading", from |-> <<>>]
    /\ edition = 1

\* A change of the panel through the box with the focus
Edit(pan) == Filled(pan) <= MaxFilled /\ panel' = pan /\ UNCHANGED <<catalog, edition>>

\* A change by any other control, which takes the focus
Change(pan) == Edit(pan) /\ focus' = NoBox /\ typing' = FALSE

Toggled(set, x) == IF x \in set THEN set \ {x} ELSE set \cup {x}

Enabled == catalog.status # "loading"

Focus(box) ==
    /\ Enabled
    /\ focus' = box /\ typing' = FALSE
    /\ UNCHANGED <<panel, catalog, edition>>

Blur ==
    /\ focus # NoBox
    /\ focus' = NoBox /\ typing' = FALSE
    /\ UNCHANGED <<panel, catalog, edition>>

Type(text) ==
    /\ focus # NoBox
    /\ Edit(WithText(panel, focus, text))
    /\ typing' = TRUE /\ UNCHANGED focus

\* While narrowing waits for an answer, or after a reload, the list may have any option that
\* matches what is typed.
Pick(id) ==
    /\ focus # NoBox
    /\ typing => MatchesOption(id, ActiveToken(TextOf(panel, focus)))
    /\ Edit(Selected(panel, focus, id))
    /\ UNCHANGED <<focus, typing>>

\* clearValue leaves the focus in the box it cleared.
ClearValue(box) ==
    /\ Enabled /\ TextOf(panel, box) # <<>>
    /\ Edit(WithText(panel, box, <<>>))
    /\ focus' = box /\ typing' = FALSE

AddEffectSlot ==
    /\ Len(panel.effects) < MaxSlots
    /\ Change([panel EXCEPT !.effects = Append(@, EmptySlot)])

RemoveEffectSlot(i) ==
    /\ Len(panel.effects) > 1
    /\ Change([panel EXCEPT !.effects = RemoveAt(@, i)])

SetMatchCount(i, count) == Change([panel EXCEPT !.effects[i].count = count])

SetEffectMode(mode) ==
    /\ Len(Active(panel.effects)) >= 2
    /\ Change([panel EXCEPT !.mode = mode])

SetCost(s, text) == Change([panel EXCEPT !.costs[s] = text])
SetWord(field, text) == Change([panel EXCEPT !.words[field] = text])
SetLimit(text) == Change([panel EXCEPT !.limit = text])
ToggleFaction(f) == Change([panel EXCEPT !.factions = Toggled(@, f)])
ToggleSet(s) == Change([panel EXCEPT !.sets = Toggled(@, s)])
ToggleFamilies == Change([panel EXCEPT !.families = ~@])
ClearFilters == Change(DefaultPanel)

LoadCatalog ==
    /\ catalog.status = "loading"
    /\ \/ catalog' = [status |-> "ready", from |-> <<edition>>]
       \/ catalog' = [status |-> "error", from |-> <<>>]
    /\ UNCHANGED <<panel, focus, typing, edition>>

\* The server's index is replaced; the panel keeps the catalog it has.
Reload ==
    /\ edition < Len(Snapshots)
    /\ edition' = edition + 1
    /\ UNCHANGED <<panel, focus, typing, catalog>>

PanelNext ==
    \/ \E box \in Boxes(panel) : Focus(box) \/ ClearValue(box)
    \/ Blur
    \/ \E text \in Typed : Type(text)
    \/ focus # NoBox /\ \E id \in BoxOptions(focus) : Pick(id)
    \/ AddEffectSlot
    \/ \E i \in DOMAIN panel.effects : RemoveEffectSlot(i) \/ \E count \in 1 .. 3 : SetMatchCount(i, count)
    \/ \E mode \in {"and", "or"} : SetEffectMode(mode)
    \/ \E s \in Costs, text \in CostTexts : SetCost(s, text)
    \/ \E field \in DOMAIN Words : \E text \in Words[field] : SetWord(field, text)
    \/ \E text \in Limits : SetLimit(text)
    \/ \E f \in Codes : ToggleFaction(f)
    \/ \E s \in Sets : ToggleSet(s)
    \/ ToggleFamilies \/ ClearFilters \/ LoadCatalog \/ Reload

PanelSpec == PanelInit /\ [][PanelNext]_panelVars

(***************************************************************************)
(* Properties                                                              *)
(***************************************************************************)
\* Some text with commas only, or a box that is all blank, still makes its slot active.
Asked(pan) == {i \in DOMAIN pan.effects : IdsOfTexts(pan.effects[i].texts) # NoFilter}

SlotAsks(card, slot) == HasSlot(card, Sent(slot))

\* What the user sees in the panel, read slot by slot for one card
PanelSelects(pan, card) ==
    LET asked == Asked(pan)
    IN  /\ IF pan.mode = "or" /\ asked # {} THEN \E i \in asked : SlotAsks(card, pan.effects[i])
           ELSE \A i \in asked : SlotAsks(card, pan.effects[i])
        /\ HasAbility(card, "Ec", IdsOfTexts(pan.support))
        /\ pan.factions # {} => card.faction \in pan.factions
        /\ pan.sets # {} => EntryOf(App, card).set \in pan.sets
        /\ \A s \in Costs : pan.costs[s] # <<>> =>
                \E n \in DOMAIN pan.costs[s] :
                    ValueOf(card, s) >= pan.costs[s][n][1] /\ ValueOf(card, s) <= pan.costs[s][n][2]
        /\ \A needle \in ToSet(pan.words.name) : needle \in EntryOf(App, card).names

\* Every id is in a box of its kind, and every set is one of the index.
Known(pan) ==
    /\ pan.sets \subseteq SetCodes(App.families)
    /\ \A box \in Boxes(pan) : \A id \in ToSet(TextOf(pan, box)) \ {Blank} :
            id \in DOMAIN App.index.types /\ App.index.types[id] = box.kind

\* A panel that names nothing the index does not know, and whose costs can be read, is a query
\* that is answered with the cards the panel describes, whatever slots are empty in between.
AnswerIsPanel ==
    Sendable(panel) /\ Known(panel) /\ panel.words.format = <<>> /\ panel.words.collection = <<>> =>
        /\ Status(App, Query(panel)) = 200
        /\ Answer(App, Query(panel)) \cap CardBits(App)
                = {card.bit : card \in {c \in ToSet(App.cards) : PanelSelects(panel, c)}}

\* The index sent for an empty slot is the next active slot's, if there is one.
EditsAnother(pan, box) ==
    /\ box.region # <<>>
    /\ ~SlotHasValues(pan.effects[box.region[1]])
    /\ \E j \in ActiveSlots(pan.effects) : j > box.region[1]

\* The search is accepted and has a card.
SearchLeads(pan) == Sendable(pan) => Status(App, Query(pan)) = 200 /\ Answer(App, Query(pan)) # {}

\* What a list leaves out of the options it has: those past its end, when the user types and it
\* is full.
LeavesOut(id, ids) == typing /\ Cardinality(ids) = MaxFiltered /\ \A first \in ids : first < id

\* Suggestions that have been narrowed lead to cards when they are picked; and where abilities
\* are combined by "and" an empty box suggests all of its options that do, or, emptied by typing,
\* the first MaxFiltered of them.  With one line asked for, and for a slot whose index is its own.
PickLeads ==
    focus # NoBox /\ Status(App, Query(panel)) = 200 /\ ~EditsAnother(panel, focus)
    /\ (focus.region # <<>> => panel.effects[focus.region[1]].count = 1) =>
        LET ids == Suggestions(panel, focus)
        IN  /\ \A id \in ids : SearchLeads(Selected(panel, focus, id))
            /\ panel.mode = "and" /\ TextOf(panel, focus) = <<>> /\ Sendable(panel) =>
                   \A id \in BoxOptions(focus) \ ids :
                       SearchLeads(Selected(panel, focus, id)) => LeavesOut(id, ids)
===============================================================================
