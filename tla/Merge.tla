-------------------------------- MODULE Merge --------------------------------
(***************************************************************************)
(* cli merge: the indexes of several sets become one.  Sets that share      *)
(* families with a set of the current group join it; a group of one set is  *)
(* laid out as it is, a larger group family by family.  The plan gives each *)
(* source bit its merged bit, used for every bitmap, and the rows of        *)
(* cards.bin are then copied range by range to where the plan put them.     *)
(***************************************************************************)
EXTENDS CatalogEntries

CONSTANTS
    Sets,       \* --sets
    Pos,        \* Pos[s]: position of s in --sets
    Families,   \* family ids
    Rank,       \* Rank[f]: (faction_rank, number) as compared by cmp_family_id
    Sources,    \* the catalogs the sources may have, as functions of the set
    NoBit,      \* u32::MAX in a remap vector; nothing recorded yet
    NoFamily    \* between two families of a group

\* What build leaves in a source directory: catalog.json with one row per family, in order
\* and disjoint, all within total_bit_span.
Built(s, c) ==
    /\ c.span \in 0 .. MaxBit
    /\ c.families \in Seq([set : {s}, family : Families, start : 0 .. MaxBit, max : 1 .. MaxBit])
    /\ \A i \in DOMAIN c.families : c.families[i].start + c.families[i].max <= c.span
    /\ \A i, j \in DOMAIN c.families :
            i < j => /\ c.families[i].start + c.families[i].max <= c.families[j].start
                     /\ c.families[i].family # c.families[j].family

ASSUME MergeAssumption ==
    /\ Pos \in [Sets -> Nat]
    /\ \A s, t \in Sets : Pos[s] = Pos[t] => s = t
    /\ Rank \in [Families -> Nat]
    /\ \A src \in Sources, s \in Sets : Built(s, src[s])
    /\ NoBit \notin Nat /\ NoFamily \notin Families

VARIABLES
    source,     \* the catalogs read by load_sources
    group,      \* group[s]: number of the overlap group of s, 0 until it is known
    last,       \* number of the group being filled by build_overlap_groups
    at,         \* number of the group being laid out
    family,     \* family being laid out in a group of several sets
    base,       \* set_base
    block,      \* block_start
    mapping,    \* mapping[s][b]: merged bit of bit b of s
    next,       \* next_bit
    merged,     \* merged_families
    copied,     \* ranges of cards.bin already copied
    rows,       \* rows[d]: the source row now in row d of the merged cards.bin
    failed      \* the merge ended with an error

planVars == <<family, base, block, mapping, next, merged>>
copyVars == <<copied, rows>>
vars == <<source, group, last, at, planVars, copyVars, failed>>

Init ==
    /\ source \in Sources
    /\ group = [s \in Sets |-> 0]
    /\ last = 0
    /\ at = 1
    /\ family = NoFamily
    /\ base = [s \in Sets |-> NoBit]
    /\ block = [p \in Sets \X Families |-> NoBit]
    /\ mapping = [s \in Sets |-> [b \in 0 .. source[s].span - 1 |-> NoBit]]
    /\ next = 0
    /\ merged = <<>>
    /\ copied = {}
    /\ rows = <<>>
    /\ failed = FALSE

FamiliesOf(s) == {source[s].families[i].family : i \in DOMAIN source[s].families}

(***************************************************************************)
(* build_overlap_groups                                                    *)
(***************************************************************************)
\* Mutant: only the families of the set just before are compared.
JoinsPrevious(s) ==
    \E t \in Sets : /\ group[t] = last /\ last # 0
                    /\ \A r \in Sets : group[r] # 0 => Pos[r] <= Pos[t]
                    /\ FamiliesOf(s) \cap FamiliesOf(t) # {}

\* current_families holds the families of every set of the current group.
Joins(s) == \E t \in Sets : group[t] = last /\ last # 0 /\ FamiliesOf(s) \cap FamiliesOf(t) # {}

Group(s) ==
    /\ group[s] = 0
    /\ \A t \in Sets : Pos[t] < Pos[s] => group[t] # 0
    /\ last' = IF Joins(s) THEN last ELSE last + 1
    /\ group' = [group EXCEPT ![s] = last']
    /\ UNCHANGED <<source, at, planVars, copyVars, failed>>

Grouped == \A s \in Sets : group[s] # 0
Alone(s) == \A t \in Sets : group[t] = group[s] => t = s

(***************************************************************************)
(* build_plan                                                              *)
(***************************************************************************)

\* checked_add
Fits(n) == next + n <= MaxBit

Overflow ==
    /\ failed' = TRUE
    /\ UNCHANGED <<source, group, last, at, planVars, copyVars>>

\* Mutant: the source's start is kept.
ShiftedUnmoved(s, row) == [row EXCEPT !.set = s]

\* A family of a set kept as a block
Shifted(s, row) == [row EXCEPT !.start = next + @, !.set = s]

\* A group of one set: Mapping::Offset
PlaceSet(s) ==
    /\ Grouped /\ ~failed /\ group[s] = at /\ Alone(s)
    /\ IF ~Fits(source[s].span)
       THEN Overflow
       ELSE /\ base' = [base EXCEPT ![s] = next]
            /\ mapping' = [mapping EXCEPT ![s] = [b \in 0 .. source[s].span - 1 |-> next + b]]
            /\ merged' = merged \o [i \in DOMAIN source[s].families |->
                                        Shifted(s, source[s].families[i])]
            /\ next' = next + source[s].span
            /\ at' = at + 1
            /\ UNCHANGED <<source, group, last, family, block, copyVars, failed>>

\* family_by_set keeps the last row of a family.
RowOf(s, f) ==
    CHOOSE i \in DOMAIN source[s].families :
        /\ source[s].families[i].family = f
        /\ \A j \in DOMAIN source[s].families : source[s].families[j].family = f => j <= i

\* Blocks of the group still to be placed
Unplaced == {p \in Sets \X Families : group[p[1]] = at /\ p[2] \in FamiliesOf(p[1]) /\ block[p] = NoBit}

\* Families by cmp_family_id (equal ones in any order), the sets of a family by --sets.
TurnOf(s, f) ==
    /\ IF family = NoFamily THEN \A p \in Unplaced : Rank[p[2]] >= Rank[f] ELSE f = family
    /\ \A p \in Unplaced : p[2] = f => Pos[p[1]] >= Pos[s]

\* One block of a group of several sets: Mapping::RemapVec
PlaceRow(s, f) ==
    /\ Grouped /\ ~failed /\ ~Alone(s)
    /\ <<s, f>> \in Unplaced /\ TurnOf(s, f)
    /\ LET row   == source[s].families[RowOf(s, f)]
           after == Unplaced \ {<<s, f>>}
       IN  IF ~Fits(row.max)
           THEN Overflow
           ELSE /\ block' = [block EXCEPT ![<<s, f>>] = next]
                /\ mapping' = [mapping EXCEPT ![s] =
                        [b \in DOMAIN @ |-> IF b >= row.start /\ b < row.start + row.max
                                            THEN next + (b - row.start) ELSE @[b]]]
                /\ merged' = Append(merged, [row EXCEPT !.start = next, !.set = s])
                /\ next' = next + row.max
                /\ family' = IF \E p \in after : p[2] = f THEN f ELSE NoFamily
                /\ at' = IF after = {} THEN at + 1 ELSE at
                /\ UNCHANGED <<source, group, last, base, copyVars, failed>>

Planned == Grouped /\ at = last + 1 /\ ~failed

(***************************************************************************)
(* write_cards_bin                                                         *)
(***************************************************************************)
\* <<s, 0>> is all of s, <<s, i>> the rows of its i-th family.
Ranges == {<<s, 0>> : s \in {t \in Sets : Alone(t)}}
          \cup UNION {{<<s, i>> : i \in DOMAIN source[s].families} : s \in {t \in Sets : ~Alone(t)}}

EarlierRange(q, r) ==
    \/ q[2] = 0 /\ (r[2] # 0 \/ Pos[q[1]] < Pos[r[1]])
    \/ q[2] # 0 /\ r[2] # 0 /\ (Pos[q[1]] < Pos[r[1]] \/ (q[1] = r[1] /\ q[2] < r[2]))

RangeFrom(r) == IF r[2] = 0 THEN 0 ELSE source[r[1]].families[r[2]].start
RangeLen(r)  == IF r[2] = 0 THEN source[r[1]].span ELSE source[r[1]].families[r[2]].max
RangeTo(r)   == IF r[2] = 0 THEN base[r[1]] ELSE block[<<r[1], source[r[1]].families[r[2]].family>>]

\* Mutant: the rows are taken from where the merged file has them.
CopiedFromTarget(r, d) == <<r[1], d>>

\* copy_range: row d of the merged file, inside the range, comes from this source row.
Copied(r, d) == <<r[1], RangeFrom(r) + (d - RangeTo(r))>>

Row(d) == IF d \in DOMAIN rows THEN rows[d] ELSE NoBit  \* set_len: all rows are zero at first

CopyRange(r) ==
    /\ Planned
    /\ r \in Ranges \ copied
    /\ \A q \in Ranges \ copied : ~EarlierRange(q, r)
    /\ copied' = copied \cup {r}
    /\ rows' = [d \in 0 .. next - 1 |->
                    IF d >= RangeTo(r) /\ d < RangeTo(r) + RangeLen(r) THEN Copied(r, d) ELSE Row(d)]
    /\ UNCHANGED <<source, group, last, at, planVars, failed>>

Next ==
    \/ \E s \in Sets : Group(s) \/ PlaceSet(s) \/ \E f \in Families : PlaceRow(s, f)
    \/ \E r \in Ranges : CopyRange(r)

Spec == Init /\ [][Next]_vars

Done == Planned /\ copied = Ranges

(***************************************************************************)
(* Properties                                                              *)
(***************************************************************************)
\* Every bitmap of s (idGd, line, stat, faction) is carried over like this.
Remapped(s, bits) == {mapping[s][b] : b \in bits} \ {NoBit}

BitsOf(s) == UNION {source[s].families[i].start .. source[s].families[i].start + source[s].families[i].max - 1
                        : i \in DOMAIN source[s].families}

\* In the merged index every card of every source decodes to its own reference and is found
\* by both lookups.
SourcesDecode ==
    Planned =>
        \A s \in Sets : \A i \in DOMAIN source[s].families :
            LET row == source[s].families[i]
            IN  \A uid \in 1 .. row.max :
                    \E bit \in Remapped(s, {row.start + uid - 1}) :
                        /\ Decodes(merged, bit, Ref(row, uid))
                        /\ LooksUp(merged, Ref(row, uid), bit)
                        /\ Resolves(merged, Ref(row, uid), bit)

\* "Every card from every source set appears exactly once": a card's row of cards.bin is
\* where its bit is.
RowsFollowBits ==
    Done => \A s \in Sets : \A b \in BitsOf(s) :
                \E bit \in Remapped(s, {b}) : bit \in DOMAIN rows /\ rows[bit] = <<s, b>>

Share(s, t) == FamiliesOf(s) \cap FamiliesOf(t) # {}

\* The documented grouping: from some set on, each shares a family with an earlier one.
Chained(s, t) ==
    \E a \in Sets :
        /\ Pos[a] <= Pos[s] /\ Pos[a] <= Pos[t]
        /\ \A k \in Sets : Pos[a] < Pos[k] /\ (Pos[k] <= Pos[s] \/ Pos[k] <= Pos[t])
                => \E j \in Sets : Pos[a] <= Pos[j] /\ Pos[j] < Pos[k] /\ Share(j, k)

\* families[] lists a family once, and counts its cards together, if the sets that have it
\* are chained.
ListedOnceIfChained ==
    Planned => \A i, j \in SpanHeads(merged) :
                    merged[i].family = merged[j].family /\ Chained(merged[i].set, merged[j].set) => i = j
==============================================================================
