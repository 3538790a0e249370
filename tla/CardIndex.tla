------------------------------ MODULE CardIndex ------------------------------
(***************************************************************************)
(* What the build records of a card: apply_card_index reads the parsed JSON *)
(* of one card and sets its bit in every bitmap it belongs to, notes the    *)
(* type of each idGd at its first occurrence, and packs the 32-byte record  *)
(* of cards.bin.  The bit comes from the catalog (module Catalog).          *)
(*                                                                         *)
(* Option<T> is a sequence of at most one T.                                *)
(***************************************************************************)
EXTENDS CatalogEntries, SequencesExt

CONSTANTS
    MaxByte,    \* u8::MAX
    Buckets,    \* VALUE_BUCKETS
    IdMod       \* number of values an idGd may have in a record (u16)

ASSUME CardAssumption == MaxByte \in Nat /\ Buckets \in Nat /\ IdMod \in Nat \ {0}

Kinds     == {"TRIGGER", "CONDITION", "OUTPUT"}
Stats     == {"MAIN_COST", "RECALL_COST", "MOUNTAIN_POWER", "OCEAN_POWER", "FOREST_POWER"}
Factions  == {"AX", "BR", "LY", "MU", "OR", "YZ"}
MainLines == <<"M1", "M2", "M3">>
Lines     == {"M1", "M2", "M3", "Ec"}

NoIds == [k \in Kinds |-> 0]

\* A row of cards.bin that was never written
ZeroRecord == [faction |-> "UN", stats |-> [s \in Stats |-> 0], lines |-> [l \in Lines |-> NoIds]]

EmptyIndex ==
    [ types    |-> <<>>,   \* idgd_catalog: element_type of each idGd
      whole    |-> {},     \* <<id, bit>>
      lines    |-> {},     \* <<line, id, bit>>
      stats    |-> {},     \* <<stat, value, bit>>
      factions |-> {},     \* <<faction, bit>>
      records  |-> <<>> ]  \* cards.bin by bit

(***************************************************************************)
(* Reading one card                                                        *)
(***************************************************************************)
\* All idGd nodes of an element, display by display
NodesOf(element) == FlattenSeq(FlattenSeq(element.displays))

AllNodes(card) == FlattenSeq([i \in DOMAIN card.elements |-> NodesOf(card.elements[i])])

IdsOf(nodes) == {nodes[i].id : i \in DOMAIN nodes}

\* effects_from_card: the first node with an id tells its type.
FirstType(nodes, id) ==
    LET first == CHOOSE i \in DOMAIN nodes :
                    nodes[i].id = id /\ \A j \in DOMAIN nodes : nodes[j].id = id => i <= j
    IN  IF nodes[first].type \in Kinds THEN nodes[first].type ELSE "UNKNOWN"

\* id_gds_per_effect_line: the first three displays of MAIN_EFFECT are M1 .. M3, all displays
\* of ECHO_EFFECT are Ec.
LineIds(card) ==
    UNION {LET e == card.elements[i]
           IN  CASE e.kind = "MAIN_EFFECT" ->
                        UNION {{<<MainLines[g], id>> : id \in IdsOf(FlattenSeq(e.displays[g]))} :
                                    g \in DOMAIN e.displays \cap DOMAIN MainLines}
                 [] e.kind = "ECHO_EFFECT" -> {<<"Ec", id>> : id \in IdsOf(NodesOf(e))}
                 [] OTHER -> {}
           : i \in DOMAIN card.elements}

\* set_group_from_effect: of each kind the first id that is not 0 as a u16.
Packed(nodes) ==
    [k \in Kinds |->
        LET fit == SelectSeq(nodes, LAMBDA n : n.type = k /\ n.id % IdMod # 0)
        IN  IF fit = <<>> THEN 0 ELSE fit[1].id % IdMod]

Parses(value) == value \in 0 .. MaxByte  \* str::parse::<u8>

\* One element of the card into its compact fields; a later element overwrites.
PackElement(fields, e) ==
    CASE e.kind \in Stats /\ Parses(e.value) -> [fields EXCEPT !.stats[e.kind] = e.value]
      [] e.kind = "MAIN_EFFECT" ->
            [fields EXCEPT !.lines = [l \in Lines |->
                IF \E g \in DOMAIN e.displays \cap DOMAIN MainLines :
                        MainLines[g] = l /\ e.displays[g] # <<>>
                THEN Packed(FlattenSeq(e.displays[CHOOSE g \in DOMAIN MainLines : MainLines[g] = l]))
                ELSE @[l]]]
      [] e.kind = "ECHO_EFFECT" -> [fields EXCEPT !.lines["Ec"] = Packed(NodesOf(e))]
      [] OTHER -> fields

\* compact_fields_from_card
Compact(card) ==
    FoldLeft(PackElement,
             [ZeroRecord EXCEPT !.faction = IF card.faction \in Factions THEN card.faction ELSE "UN"],
             card.elements)

(***************************************************************************)
(* Into the stores of build_index                                          *)
(***************************************************************************)
Extend(f, key, value) == [x \in DOMAIN f \cup {key} |-> IF x = key THEN value ELSE f[x]]

\* record_first: the type of an idGd is the one of its first occurrence.
RecordFirst(types, nodes) ==
    [id \in DOMAIN types \cup IdsOf(nodes) |->
        IF id \in DOMAIN types THEN types[id] ELSE FirstType(nodes, id)]

\* StatIndexBuilder::insert: a value past the last bucket is in none.
InsertStats(stats, fields, bit) ==
    stats \cup {<<s, fields.stats[s], bit>> : s \in {t \in Stats : fields.stats[t] < Buckets}}

\* FactionIndexBuilder::insert
InsertFaction(factions, fields, bit) == factions \cup {<<f, bit>> : f \in {fields.faction} \cap Factions}

\* apply_card_index
Indexed(ix, card) ==
    LET nodes  == AllNodes(card)
        fields == Compact(card)
    IN  [ types    |-> RecordFirst(ix.types, nodes),
          whole    |-> ix.whole \cup {<<id, card.bit>> : id \in IdsOf(nodes)},
          lines    |-> ix.lines \cup {<<p[1], p[2], card.bit>> : p \in LineIds(card)},
          stats    |-> InsertStats(ix.stats, fields, card.bit),
          factions |-> InsertFaction(ix.factions, fields, card.bit),
          records  |-> Extend(ix.records, card.bit, fields) ]
==============================================================================
