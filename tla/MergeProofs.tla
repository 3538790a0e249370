----------------------------- MODULE MergeProofs -----------------------------
(***************************************************************************)
(* Proofs about Merge.  What has been laid out so far is judged by ranges   *)
(* of the source: a range that has a place has it for itself, below next,   *)
(* the remap sends each of its bits there, and the merged catalog lists the *)
(* families in it.  A family has its blocks side by side because no other   *)
(* has a turn while one of its blocks is missing.                           *)
(***************************************************************************)
EXTENDS Merge, SequenceTheorems, TLAPS

Blocks == Sets \X Families
Bit    == 0 .. MaxBit
Entry  == [set : Sets, family : Families, start : Bit, max : 1 .. MaxBit]
Remaps == UNION {[0 .. n - 1 -> Bit \cup {NoBit}] : n \in Nat}

TypeOK ==
    /\ source \in Sources
    /\ group \in [Sets -> Nat]
    /\ last \in Nat /\ at \in Nat
    /\ family \in Families \cup {NoFamily}
    /\ base \in [Sets -> Bit \cup {NoBit}]
    /\ block \in [Blocks -> Bit \cup {NoBit}]
    /\ mapping \in [Sets -> Remaps]
    /\ \A s \in Sets : DOMAIN mapping[s] = 0 .. source[s].span - 1
    /\ next \in Bit
    /\ merged \in Seq(Entry)
    /\ failed \in BOOLEAN

\* Sets are taken in order, and groups are numbered in that order.
Groups ==
    /\ \A s \in Sets : group[s] <= last
    /\ last # 0 => \E s \in Sets : group[s] = last
    /\ \A s, t \in Sets : Pos[s] < Pos[t] /\ group[t] # 0 => group[s] # 0 /\ group[s] <= group[t]

\* Two sets of different groups have between them one that shares nothing with those before
\* it, back to the first of the two.
Breaks ==
    \A a, s \in Sets :
        Pos[a] < Pos[s] /\ group[s] # 0 /\ group[a] # group[s] =>
            \E k \in Sets : /\ Pos[a] < Pos[k] /\ Pos[k] <= Pos[s]
                            /\ \A j \in Sets : Pos[a] <= Pos[j] /\ Pos[j] < Pos[k] => ~Share(j, k)

\* Nothing is laid out before the groups are known.
Untouched ==
    ~Grouped => /\ at = 1 /\ next = 0 /\ merged = <<>> /\ family = NoFamily /\ ~failed
                /\ base = [s \in Sets |-> NoBit] /\ block = [p \in Blocks |-> NoBit]
                /\ copied = {}

\* Groups are laid out one after another, each to its end.
InTurn ==
    /\ \A s \in Sets : base[s] # NoBit => Grouped /\ Alone(s) /\ group[s] < at
    /\ \A s \in Sets, f \in Families :
            block[<<s, f>>] # NoBit => Grouped /\ ~Alone(s) /\ group[s] <= at /\ f \in FamiliesOf(s)
    /\ Grouped => \A s \in Sets : group[s] < at =>
                        IF Alone(s) THEN base[s] # NoBit
                        ELSE \A f \in FamiliesOf(s) : block[<<s, f>>] # NoBit

\* While a family has its turn its block was the last one placed; one that was begun has it.
FamilyTurn ==
    /\ family # NoFamily =>
            /\ \E p \in Unplaced : p[2] = family /\ ~Alone(p[1])
            /\ merged # <<>>
            /\ merged[Len(merged)].family = family
            /\ merged[Len(merged)].start + merged[Len(merged)].max = next
    /\ \A s, t \in Sets, f \in Families :
            group[s] = at /\ block[<<s, f>>] # NoBit /\ <<t, f>> \in Unplaced => family = f

\* A range that has a place has it for itself.
RangeEnd(r) == RangeTo(r) + RangeLen(r)

Regions ==
    /\ \A r \in Ranges : RangeTo(r) # NoBit =>
            /\ RangeEnd(r) <= next
            /\ \A b \in RangeFrom(r) .. RangeFrom(r) + RangeLen(r) - 1 :
                    mapping[r[1]][b] = RangeTo(r) + (b - RangeFrom(r))
    /\ \A r, q \in Ranges :
            r # q /\ RangeTo(r) # NoBit /\ RangeTo(q) # NoBit =>
                RangeEnd(r) <= RangeTo(q) \/ RangeEnd(q) <= RangeTo(r)

\* Where the plan has the i-th family of s
Start(s, i) ==
    IF Alone(s) THEN IF base[s] = NoBit THEN NoBit ELSE base[s] + source[s].families[i].start
    ELSE block[<<s, source[s].families[i].family>>]

Moved(s, i, e) ==
    /\ e.set = s /\ e.family = source[s].families[i].family
    /\ e.max = source[s].families[i].max
    /\ e.start = Start(s, i)

\* The merged catalog lists each family of a set that has a place, once, and nothing else.
Listed ==
    /\ \A k \in DOMAIN merged :
            /\ merged[k].start + merged[k].max <= next
            /\ \E i \in DOMAIN source[merged[k].set].families : Moved(merged[k].set, i, merged[k])
    /\ \A k, l \in DOMAIN merged : k < l =>
            /\ merged[k].start + merged[k].max <= merged[l].start
            /\ merged[k].set # merged[l].set \/ merged[k].family # merged[l].family
    /\ \A s \in Sets : \A i \in DOMAIN source[s].families :
            Start(s, i) # NoBit => \E k \in DOMAIN merged : Moved(s, i, merged[k])

\* Entries of one family in one group are neighbours.
Neighbours ==
    \A k, l \in DOMAIN merged :
        /\ k < l /\ merged[k].family = merged[l].family
        /\ group[merged[k].set] = group[merged[l].set]
        => /\ merged[l - 1].family = merged[l].family
           /\ merged[l - 1].start + merged[l - 1].max = merged[l].start

\* A range once copied stays as it was copied.
Copies ==
    /\ copied \subseteq Ranges
    /\ copied # {} => Planned
    /\ \A r \in copied : \A d \in RangeTo(r) .. RangeEnd(r) - 1 :
            d \in DOMAIN rows /\ rows[d] = Copied(r, d)

MergeInv ==
    /\ TypeOK
    /\ Groups
    /\ Breaks
    /\ Untouched
    /\ InTurn
    /\ FamilyTurn
    /\ Regions
    /\ Listed
    /\ Neighbours
    /\ Copies

(***************************************************************************)
(* Sources, ranges and blocks                                              *)
(***************************************************************************)
\* What Built says of a row.
LEMMA RowFacts ==
    ASSUME source \in Sources, NEW s \in Sets
    PROVE  /\ source[s].span \in Bit
           /\ source[s].families \in Seq([set : {s}, family : Families, start : Bit, max : 1 .. MaxBit])
           /\ DOMAIN source[s].families = 1 .. Len(source[s].families)
           /\ \A i \in DOMAIN source[s].families :
                /\ i \in Nat \ {0}
                /\ source[s].families[i].set = s
                /\ source[s].families[i].family \in Families
                /\ source[s].families[i].family \in FamiliesOf(s)
                /\ source[s].families[i].start \in Bit
                /\ source[s].families[i].max \in 1 .. MaxBit
                /\ source[s].families[i].start + source[s].families[i].max <= source[s].span
           /\ \A i, j \in DOMAIN source[s].families :
                /\ i < j => source[s].families[i].start + source[s].families[i].max
                                <= source[s].families[j].start
                /\ source[s].families[i].family = source[s].families[j].family => i = j
<1> DEFINE fs == source[s].families
           R  == [set : {s}, family : Families, start : Bit, max : 1 .. MaxBit]
<1>1. Built(s, source[s])
  BY MergeAssumption
<1>2. /\ source[s].span \in Bit
      /\ fs \in Seq(R)
      /\ \A i \in DOMAIN fs : fs[i].start + fs[i].max <= source[s].span
      /\ \A i, j \in DOMAIN fs : i < j => /\ fs[i].start + fs[i].max <= fs[j].start
                                          /\ fs[i].family # fs[j].family
  BY <1>1 DEF Built, Bit
<1>3. \A i \in DOMAIN fs : fs[i].family \in FamiliesOf(s)
  BY DEF FamiliesOf
<1> HIDE DEF fs, R
<1>4. DOMAIN fs = 1 .. Len(fs) /\ Len(fs) \in Nat /\ \A i \in DOMAIN fs : fs[i] \in R
  BY <1>2
<1>5. \A i \in DOMAIN fs : i \in Nat \ {0}
  BY <1>4
<1>6. \A i \in DOMAIN fs : /\ fs[i].set = s /\ fs[i].family \in Families
                           /\ fs[i].start \in Bit /\ fs[i].max \in 1 .. MaxBit
  BY <1>4 DEF R
<1>7. \A i, j \in DOMAIN fs : fs[i].family = fs[j].family => i = j
  BY <1>2, <1>5
<1> QED
  BY <1>2, <1>3, <1>4, <1>5, <1>6, <1>7 DEF fs, R

\* A range is a set of its own group, or one family of another set.
LEMMA RangeKinds ==
    ASSUME NEW r
    PROVE  r \in Ranges <=>
                \/ \E s \in Sets : Alone(s) /\ r = <<s, 0>>
                \/ \E s \in Sets : ~Alone(s) /\ \E i \in DOMAIN source[s].families : r = <<s, i>>
BY DEF Ranges

\* The range of a set of its own group
LEMMA WholeRange ==
    ASSUME source \in Sources, NEW s \in Sets
    PROVE  /\ RangeFrom(<<s, 0>>) = 0 /\ RangeLen(<<s, 0>>) = source[s].span
           /\ RangeTo(<<s, 0>>) = base[s]
BY DEF RangeFrom, RangeLen, RangeTo

\* The range of one family
LEMMA FamilyRange ==
    ASSUME source \in Sources, NEW s \in Sets, NEW i \in DOMAIN source[s].families
    PROVE  /\ RangeFrom(<<s, i>>) = source[s].families[i].start
           /\ RangeLen(<<s, i>>) = source[s].families[i].max
           /\ RangeTo(<<s, i>>) = block[<<s, source[s].families[i].family>>]
BY RowFacts DEF RangeFrom, RangeLen, RangeTo

\* Types of what a range is copied by.
LEMMA RangeTypes ==
    ASSUME TypeOK, NEW r \in Ranges
    PROVE  /\ r[1] \in Sets /\ RangeFrom(r) \in Bit /\ RangeLen(r) \in Bit
           /\ RangeTo(r) \in Bit \cup {NoBit}
           /\ RangeFrom(r) + RangeLen(r) <= source[r[1]].span
<1> USE DEF TypeOK
<1>1. CASE \E s \in Sets : Alone(s) /\ r = <<s, 0>>
  <2>1. PICK s \in Sets : Alone(s) /\ r = <<s, 0>>
    BY <1>1
  <2>2. source[s].span \in Bit /\ base[s] \in Bit \cup {NoBit} /\ r[1] = s
    BY <2>1, RowFacts
  <2>3. RangeFrom(r) = 0 /\ RangeLen(r) = source[s].span /\ RangeTo(r) = base[s]
    BY <2>1, WholeRange
  <2> QED
    BY <2>2, <2>3, MaxBitAssumption DEF Bit
<1>2. CASE \E s \in Sets : ~Alone(s) /\ \E i \in DOMAIN source[s].families : r = <<s, i>>
  <2>0. PICK s \in Sets : ~Alone(s) /\ \E i \in DOMAIN source[s].families : r = <<s, i>>
    BY <1>2
  <2>1. PICK i \in DOMAIN source[s].families : r = <<s, i>>
    BY <2>0
  <2>2. <<s, source[s].families[i].family>> \in Blocks
    <3>1. source[s].families[i].family \in Families
      BY RowFacts
    <3> QED
      BY <3>1 DEF Blocks
  <2>3. block[<<s, source[s].families[i].family>>] \in Bit \cup {NoBit}
    BY <2>2
  <2>4. /\ RangeFrom(r) = source[s].families[i].start /\ RangeLen(r) = source[s].families[i].max
        /\ RangeTo(r) = block[<<s, source[s].families[i].family>>] /\ r[1] = s
    BY <2>1, FamilyRange
  <2>5. /\ source[s].families[i].start \in Bit /\ source[s].families[i].max \in 1 .. MaxBit
        /\ source[s].families[i].start + source[s].families[i].max <= source[s].span
    BY RowFacts
  <2> QED
    BY <2>3, <2>4, <2>5, MaxBitAssumption DEF Bit
<1> QED
  BY <1>1, <1>2, RangeKinds

\* The row family_by_set keeps is the only one of its family.
LEMMA RowOfFamily ==
    ASSUME source \in Sources, NEW s \in Sets, NEW f \in FamiliesOf(s)
    PROVE  RowOf(s, f) \in DOMAIN source[s].families /\ source[s].families[RowOf(s, f)].family = f
<1>1. PICK i \in DOMAIN source[s].families : source[s].families[i].family = f
  BY DEF FamiliesOf
<1>2. ASSUME NEW j \in DOMAIN source[s].families, source[s].families[j].family = f PROVE j <= i
  <2>1. i \in Nat /\ (source[s].families[j].family = source[s].families[i].family => j = i)
    BY RowFacts
  <2> QED
    BY <1>1, <1>2, <2>1
<1> QED
  BY <1>1, <1>2 DEF RowOf

(***************************************************************************)
(* The initial state and the grouping                                      *)
(***************************************************************************)
\* A remap of n bits is a remap.
LEMMA RemapType ==
    ASSUME NEW n \in Nat, NEW m \in [0 .. n - 1 -> Bit \cup {NoBit}]
    PROVE  m \in Remaps
BY DEF Remaps

\* While nothing has a place the plan is sound whatever the groups are.
Blank ==
    /\ source \in Sources /\ group \in [Sets -> Nat]
    /\ at = 1 /\ next = 0 /\ merged = <<>> /\ family = NoFamily
    /\ base = [s \in Sets |-> NoBit] /\ block = [p \in Blocks |-> NoBit]
    /\ copied = {}

\* The conjuncts that are about the plan
LEMMA BlankIsSound == Blank => InTurn /\ FamilyTurn /\ Regions /\ Listed /\ Neighbours /\ Copies
<1> SUFFICES ASSUME Blank PROVE InTurn /\ FamilyTurn /\ Regions /\ Listed /\ Neighbours /\ Copies
  OBVIOUS
<1> USE DEF Blank
<1>1. \A s \in Sets : base[s] = NoBit /\ \A f \in Families : block[<<s, f>>] = NoBit
  BY DEF Blocks
<1>2. \A r \in Ranges : RangeTo(r) = NoBit
  <2> SUFFICES ASSUME NEW r \in Ranges PROVE RangeTo(r) = NoBit
    OBVIOUS
  <2>1. CASE \E s \in Sets : Alone(s) /\ r = <<s, 0>>
    BY <1>1, <2>1, WholeRange
  <2>2. CASE \E s \in Sets : ~Alone(s) /\ \E i \in DOMAIN source[s].families : r = <<s, i>>
    <3>1. PICK s \in Sets : \E i \in DOMAIN source[s].families : r = <<s, i>>
      BY <2>2
    <3>2. PICK i \in DOMAIN source[s].families : r = <<s, i>>
      BY <3>1
    <3>3. source[s].families[i].family \in Families
      BY RowFacts
    <3>4. RangeTo(r) = block[<<s, source[s].families[i].family>>]
      BY <3>2, FamilyRange
    <3> QED
      BY <1>1, <3>3, <3>4
  <2> QED
    BY <2>1, <2>2, RangeKinds
<1>3. Regions
  BY <1>2 DEF Regions
<1>4. ASSUME NEW s \in Sets, NEW i \in DOMAIN source[s].families PROVE Start(s, i) = NoBit
  <2>1. source[s].families[i].family \in Families
    BY RowFacts
  <2> QED
    BY <1>1, <2>1 DEF Start
<1>5. Listed /\ Neighbours
  BY <1>4 DEF Listed, Neighbours
<1>6. InTurn
  <2>1. Grouped => \A s \in Sets : ~(group[s] < at)
    BY DEF Grouped
  <2> QED
    BY <1>1, <2>1 DEF InTurn
<1>7. FamilyTurn
  BY <1>1 DEF FamilyTurn
<1>8. Copies
  BY DEF Copies
<1> QED
  BY <1>3, <1>5, <1>6, <1>7, <1>8

\* Before the grouping nothing has a place.
LEMMA InitInv == Init => MergeInv
<1> SUFFICES ASSUME Init PROVE MergeInv
  OBVIOUS
<1> USE DEF Init
<1>1. TypeOK
  <2>1. ASSUME NEW s \in Sets PROVE source[s].span \in Nat
    <3>1. source[s].span \in Bit
      BY RowFacts
    <3> QED
      BY <3>1, MaxBitAssumption DEF Bit
  <2>2. \A s \in Sets : /\ mapping[s] = [b \in 0 .. source[s].span - 1 |-> NoBit]
                        /\ mapping[s] \in [0 .. source[s].span - 1 -> Bit \cup {NoBit}]
                        /\ source[s].span \in Nat
    BY <2>1
  <2>3. mapping \in [Sets -> Remaps]
    BY <2>2, RemapType
  <2>4. block \in [Blocks -> Bit \cup {NoBit}]
    BY DEF Blocks
  <2>5. merged \in Seq(Entry) /\ next \in Bit
    BY MaxBitAssumption DEF Bit
  <2> QED
    BY <2>2, <2>3, <2>4, <2>5 DEF TypeOK
<1>2. Groups /\ Breaks
  BY DEF Groups, Breaks
<1>3. Blank
  BY DEF Blank, Blocks
<1>4. Untouched
  BY DEF Untouched, Blocks
<1> QED
  BY <1>1, <1>2, <1>3, <1>4, BlankIsSound DEF MergeInv

\* Sets join the last group or begin the next, and a new group shares nothing with the last.
LEMMA GroupStep ==
    ASSUME MergeInv, NEW s \in Sets, Group(s)
    PROVE  MergeInv'
<1>1. /\ group[s] = 0 /\ \A t \in Sets : Pos[t] < Pos[s] => group[t] # 0
      /\ last' = IF Joins(s) THEN last ELSE last + 1
      /\ group' = [group EXCEPT ![s] = last']
      /\ UNCHANGED <<source, at, family, base, block, mapping, next, merged, copied, rows, failed>>
  BY DEF Group, planVars, copyVars
<1>2. TypeOK /\ Groups /\ Breaks /\ Untouched
  BY DEF MergeInv
<1>3. /\ group \in [Sets -> Nat] /\ last \in Nat /\ last' \in Nat /\ last' # 0
      /\ \A t \in Sets : Pos[t] \in Nat
      /\ \A t, u \in Sets : Pos[t] = Pos[u] => t = u
  <2>1. group \in [Sets -> Nat] /\ last \in Nat
    BY <1>2 DEF TypeOK
  <2>2. Joins(s) => last # 0
    BY DEF Joins
  <2> QED
    BY <1>1, <2>1, <2>2, MergeAssumption
<1>4. /\ group'[s] = last' /\ \A t \in Sets : t # s => group'[t] = group[t]
      /\ group' \in [Sets -> Nat]
  BY <1>1, <1>3
<1>5. ~Grouped
  BY <1>1 DEF Grouped
<1>6. Blank' /\ ~failed'
  BY <1>1, <1>2, <1>4, <1>5 DEF Blank, Untouched, TypeOK
<1>7. TypeOK'
  BY <1>1, <1>2, <1>3, <1>4 DEF TypeOK
\* The sets that have a group are those before s.
<1>8. \A t \in Sets : t # s => (group[t] # 0 <=> Pos[t] < Pos[s])
  <2> SUFFICES ASSUME NEW t \in Sets, t # s, group[t] # 0 PROVE Pos[t] < Pos[s]
    BY <1>1
  <2>1. ~(Pos[s] < Pos[t])
    BY <1>1, <1>2 DEF Groups
  <2> QED
    BY <1>3, <2>1
<1>9. Groups'
  <2>1. last <= last' /\ \A t \in Sets : group'[t] <= last'
    BY <1>1, <1>2, <1>3, <1>4 DEF Groups
  <2>2. ASSUME NEW t \in Sets, NEW u \in Sets, Pos[t] < Pos[u], group'[u] # 0
        PROVE  group'[t] # 0 /\ group'[t] <= group'[u]
    <3>1. CASE u = s
      BY <1>1, <1>3, <1>4, <2>1, <2>2, <3>1
    <3>2. CASE u # s
      <4>1. Pos[u] < Pos[s] /\ t # s /\ group[u] # 0
        BY <1>3, <1>4, <1>8, <2>2, <3>2
      <4> QED
        BY <1>2, <1>4, <2>2, <3>2, <4>1 DEF Groups
    <3> QED
      BY <3>1, <3>2
  <2> QED
    BY <1>4, <2>1, <2>2 DEF Groups
<1>10. Breaks'
  <2> SUFFICES ASSUME NEW a \in Sets, NEW u \in Sets,
                      Pos[a] < Pos[u], group'[u] # 0, group'[a] # group'[u]
               PROVE  \E k \in Sets : /\ Pos[a] < Pos[k] /\ Pos[k] <= Pos[u]
                                      /\ \A j \in Sets : Pos[a] <= Pos[j] /\ Pos[j] < Pos[k] => ~Share(j, k)
    <3>1. \A j, k \in Sets : Share(j, k)' <=> Share(j, k)
      BY <1>1 DEF Share, FamiliesOf
    <3> QED
      BY <3>1 DEF Breaks
  <2>1. CASE u # s
    <3>1. Pos[u] < Pos[s]
      BY <1>3, <1>4, <1>8, <2>1
    <3>2. a # s
      BY <1>3, <3>1
    <3> QED
      BY <1>2, <1>4, <2>1, <3>2 DEF Breaks
  <2>2. CASE u = s /\ group[a] # last
    <3>1. a # s /\ group[a] # 0 /\ group[a] <= last
      BY <1>1, <1>2, <1>3, <2>2 DEF Groups
    <3>2. PICK t \in Sets : group[t] = last
      BY <1>2, <1>3, <2>2, <3>1 DEF Groups
    <3>3. Pos[a] < Pos[t]
      <4>1. ~(Pos[t] < Pos[a]) /\ t # a
        BY <1>2, <1>3, <2>2, <3>1, <3>2 DEF Groups
      <4> QED
        BY <1>3, <4>1
    <3>4. group[t] # 0 /\ Pos[t] < Pos[s]
      BY <1>1, <1>3, <1>8, <2>2, <3>1, <3>2
    <3>5. PICK k \in Sets : /\ Pos[a] < Pos[k] /\ Pos[k] <= Pos[t]
                            /\ \A j \in Sets : Pos[a] <= Pos[j] /\ Pos[j] < Pos[k] => ~Share(j, k)
      BY <1>2, <2>2, <3>2, <3>3, <3>4 DEF Breaks
    <3>6. Pos[k] <= Pos[u]
      BY <1>3, <2>2, <3>4, <3>5
    <3> QED
      BY <3>5, <3>6
  <2>3. CASE u = s /\ group[a] = last
    <3>1. a # s /\ ~Joins(s) /\ last # 0
      BY <1>1, <1>3, <1>4, <1>8, <2>3
    <3>2. ASSUME NEW j \in Sets, Pos[a] <= Pos[j], Pos[j] < Pos[s] PROVE ~Share(j, s)
      <4>1. group[j] # 0 /\ group[j] <= last /\ (Pos[a] < Pos[j] => group[a] <= group[j])
        BY <1>1, <1>2, <3>2 DEF Groups
      <4>2. group[j] = last
        BY <1>3, <2>3, <3>2, <4>1
      <4> QED
        BY <3>1, <4>2 DEF Joins, Share
    <3> QED
      BY <1>3, <2>3, <3>2
  <2> QED
    BY <2>1, <2>2, <2>3
<1>11. Untouched'
  BY <1>6 DEF Untouched, Blank
<1>12. (InTurn /\ FamilyTurn /\ Regions /\ Listed /\ Neighbours /\ Copies)'
  BY <1>6, BlankIsSound, PTL
<1> QED
  BY <1>7, <1>9, <1>10, <1>11, <1>12 DEF MergeInv

(***************************************************************************)
(* Steps that place nothing                                                *)
(***************************************************************************)
\* What the groups and the sources determine stays while they do.
Fixed == UNCHANGED <<source, group, last>>

\* Neither the ranges nor the families of a set change.
LEMMA FixedFacts ==
    ASSUME Fixed
    PROVE  /\ Grouped' <=> Grouped
           /\ \A t \in Sets : (Alone(t)' <=> Alone(t)) /\ FamiliesOf(t)' = FamiliesOf(t)
           /\ Ranges' = Ranges
           /\ \A r : RangeFrom(r)' = RangeFrom(r) /\ RangeLen(r)' = RangeLen(r)
<1> USE DEF Fixed
<1>1. Grouped' <=> Grouped
  BY DEF Grouped
<1>2. \A t \in Sets : (Alone(t)' <=> Alone(t)) /\ FamiliesOf(t)' = FamiliesOf(t)
  BY DEF Alone, FamiliesOf
<1>3. Ranges' = Ranges
  BY DEF Ranges, Alone
<1>4. \A r : RangeFrom(r)' = RangeFrom(r) /\ RangeLen(r)' = RangeLen(r)
  BY DEF RangeFrom, RangeLen
<1> QED
  BY <1>1, <1>2, <1>3, <1>4

\* Groups are not touched by what comes after them.
LEMMA FixedGroups ==
    ASSUME MergeInv, Fixed, Grouped
    PROVE  Groups' /\ Breaks' /\ Untouched'
<1>1. Groups /\ Breaks
  BY DEF MergeInv
<1>2. Groups'
  BY <1>1 DEF Groups, Fixed
<1>3. Breaks'
  <2>1. \A j, k \in Sets : Share(j, k)' <=> Share(j, k)
    BY DEF Share, FamiliesOf, Fixed
  <2> QED
    BY <1>1, <2>1 DEF Breaks, Fixed
<1>4. Untouched'
  BY FixedFacts DEF Untouched
<1> QED
  BY <1>2, <1>3, <1>4

\* Once all groups are laid out every range has a place.
LEMMA PlannedPlaced ==
    ASSUME MergeInv, Planned, NEW r \in Ranges
    PROVE  RangeTo(r) # NoBit
<1>1. TypeOK /\ Groups /\ InTurn
  BY DEF MergeInv
<1>2. Grouped /\ \A s \in Sets : group[s] < at
  <2>1. \A s \in Sets : group[s] \in Nat /\ group[s] <= last
    BY <1>1 DEF TypeOK, Groups
  <2> QED
    BY <1>1, <2>1 DEF Planned, TypeOK
<1>3. CASE \E s \in Sets : Alone(s) /\ r = <<s, 0>>
  <2>1. PICK s \in Sets : Alone(s) /\ r = <<s, 0>>
    BY <1>3
  <2>2. base[s] # NoBit
    BY <1>1, <1>2, <2>1 DEF InTurn
  <2>3. RangeTo(r) = base[s]
    BY <1>1, <2>1, WholeRange DEF TypeOK
  <2> QED
    BY <2>2, <2>3
<1>4. CASE \E s \in Sets : ~Alone(s) /\ \E i \in DOMAIN source[s].families : r = <<s, i>>
  <2>1. PICK s \in Sets : ~Alone(s) /\ \E i \in DOMAIN source[s].families : r = <<s, i>>
    BY <1>4
  <2>2. PICK i \in DOMAIN source[s].families : r = <<s, i>>
    BY <2>1
  <2>3. RangeTo(r) = block[<<s, source[s].families[i].family>>]
    BY <1>1, <2>2, FamilyRange DEF TypeOK
  <2>4. source[s].families[i].family \in FamiliesOf(s)
    BY DEF FamiliesOf
  <2> QED
    BY <1>1, <1>2, <2>1, <2>3, <2>4 DEF InTurn
<1> QED
  BY <1>3, <1>4, RangeKinds

\* While a group is laid out nothing is copied.
LEMMA NothingCopied ==
    ASSUME MergeInv, NEW s \in Sets, group[s] = at
    PROVE  ~Planned /\ copied = {}
<1>1. TypeOK /\ Groups /\ Copies
  BY DEF MergeInv
<1>2. group[s] <= last /\ last \in Nat
  BY <1>1 DEF TypeOK, Groups
<1>3. ~Planned
  BY <1>2 DEF Planned
<1> QED
  BY <1>1, <1>3 DEF Copies

\* A merge that fails leaves the plan as it is.
LEMMA OverflowStep ==
    ASSUME MergeInv, NEW s \in Sets, group[s] = at, Grouped, Overflow
    PROVE  MergeInv'
<1>1. /\ failed' = TRUE
      /\ UNCHANGED <<source, group, last, at, family, base, block, mapping, next, merged, copied, rows>>
  BY DEF Overflow, planVars, copyVars
<1>2. Fixed
  BY <1>1 DEF Fixed
<1>3. TypeOK /\ InTurn /\ FamilyTurn /\ Regions /\ Listed /\ Neighbours
  BY DEF MergeInv
<1>4. copied = {}
  BY NothingCopied
<1>5. TypeOK'
  BY <1>1, <1>3 DEF TypeOK
<1>6. Groups' /\ Breaks' /\ Untouched'
  BY <1>2, FixedGroups
<1>7. InTurn'
  BY <1>1, <1>3 DEF InTurn, Grouped, Alone, FamiliesOf
<1>8. FamilyTurn'
  BY <1>1, <1>3 DEF FamilyTurn, Unplaced, Alone, FamiliesOf
<1>9. Regions'
  <2>1. \A r : RangeTo(r)' = RangeTo(r) /\ RangeEnd(r)' = RangeEnd(r)
    BY <1>1 DEF RangeTo, RangeEnd, RangeLen
  <2> QED
    BY <1>1, <1>2, <1>3, <2>1, FixedFacts DEF Regions
<1>10. Listed' /\ Neighbours'
  BY <1>1, <1>3 DEF Listed, Neighbours, Moved, Start, Alone
<1>11. Copies'
  BY <1>1, <1>4 DEF Copies
<1> QED
  BY <1>5, <1>6, <1>7, <1>8, <1>9, <1>10, <1>11 DEF MergeInv

\* Copying a range takes nothing from those copied before.
LEMMA CopyStep ==
    ASSUME MergeInv, NEW r \in Ranges, CopyRange(r)
    PROVE  MergeInv'
<1>1. /\ Planned /\ r \notin copied /\ copied' = copied \cup {r}
      /\ rows' = [d \in 0 .. next - 1 |->
                    IF d >= RangeTo(r) /\ d < RangeTo(r) + RangeLen(r) THEN Copied(r, d) ELSE Row(d)]
      /\ UNCHANGED <<source, group, last, at, family, base, block, mapping, next, merged, failed>>
  BY DEF CopyRange, planVars
<1>2. Fixed /\ Grouped
  BY <1>1 DEF Fixed, Planned
<1>3. TypeOK /\ InTurn /\ FamilyTurn /\ Regions /\ Listed /\ Neighbours /\ Copies
  BY DEF MergeInv
<1>4. TypeOK'
  BY <1>1, <1>3 DEF TypeOK
<1>5. Groups' /\ Breaks' /\ Untouched'
  BY <1>2, FixedGroups
<1>6. InTurn'
  BY <1>1, <1>3 DEF InTurn, Grouped, Alone, FamiliesOf
<1>7. FamilyTurn'
  BY <1>1, <1>3 DEF FamilyTurn, Unplaced, Alone, FamiliesOf
<1>8. \A q : RangeTo(q)' = RangeTo(q) /\ RangeEnd(q)' = RangeEnd(q)
  BY <1>1 DEF RangeTo, RangeEnd, RangeLen
<1>9. Regions'
  BY <1>1, <1>2, <1>3, <1>8, FixedFacts DEF Regions
<1>10. Listed' /\ Neighbours'
  BY <1>1, <1>3 DEF Listed, Neighbours, Moved, Start, Alone
<1>11. Copies'
  <2>1. Planned' /\ Ranges' = Ranges /\ copied' \subseteq Ranges
    BY <1>1, <1>2, <1>3, FixedFacts DEF Planned, Grouped, Copies
  <2>2. \A q, d : Copied(q, d)' = Copied(q, d)
    BY <1>1, <1>2, <1>8, FixedFacts DEF Copied
  <2>3. ASSUME NEW q \in copied', NEW d \in RangeTo(q) .. RangeEnd(q) - 1
        PROVE  d \in DOMAIN rows' /\ rows'[d] = Copied(q, d)
    <3>1. /\ q \in Ranges /\ RangeTo(q) \in Nat /\ RangeTo(r) \in Nat
          /\ RangeLen(r) \in Nat /\ RangeLen(q) \in Nat
      <4>1. q \in Ranges
        BY <2>1
      <4>2. RangeTo(q) # NoBit /\ RangeTo(r) # NoBit
        BY <1>1, <4>1, PlannedPlaced
      <4> QED
        BY <1>3, <4>1, <4>2, RangeTypes, MaxBitAssumption DEF Bit
    <3>2. RangeEnd(q) <= next /\ next \in Nat
      <4>1. RangeTo(q) # NoBit
        BY <3>1, MergeAssumption
      <4> QED
        BY <1>3, <3>1, <4>1, MaxBitAssumption DEF Regions, TypeOK, Bit
    <3>3. d \in 0 .. next - 1 /\ d \in DOMAIN rows'
      BY <1>1, <3>1, <3>2 DEF RangeEnd
    <3>4. CASE q = r
      BY <1>1, <3>1, <3>3, <3>4 DEF RangeEnd
    <3>5. CASE q # r
      <4>1. RangeEnd(r) <= RangeTo(q) \/ RangeEnd(q) <= RangeTo(r)
        BY <1>3, <3>1, <3>5, MergeAssumption DEF Regions
      <4>2. ~(d >= RangeTo(r) /\ d < RangeTo(r) + RangeLen(r))
        BY <3>1, <4>1 DEF RangeEnd
      <4>3. q \in copied
        BY <1>1, <3>5
      <4>4. d \in DOMAIN rows /\ rows[d] = Copied(q, d)
        BY <1>3, <4>3 DEF Copies
      <4> QED
        BY <1>1, <3>3, <4>2, <4>4 DEF Row
    <3> QED
      BY <3>4, <3>5
  <2> QED
    BY <1>8, <2>1, <2>2, <2>3 DEF Copies
<1> QED
  BY <1>4, <1>5, <1>6, <1>7, <1>9, <1>10, <1>11 DEF MergeInv

(***************************************************************************)
(* A set of its own group is placed                                        *)
(***************************************************************************)
\* The set takes the bits from next on, gaps included, and its entries follow those before.
LEMMA PlaceSetStep ==
    ASSUME MergeInv, NEW s \in Sets, PlaceSet(s), Fits(source[s].span)
    PROVE  MergeInv'
<1> DEFINE fs == source[s].families
           n  == Len(merged)
<1>1. /\ Grouped /\ ~failed /\ group[s] = at /\ Alone(s)
      /\ next + source[s].span <= MaxBit
      /\ base' = [base EXCEPT ![s] = next]
      /\ mapping' = [mapping EXCEPT ![s] = [b \in 0 .. source[s].span - 1 |-> next + b]]
      /\ merged' = merged \o [i \in DOMAIN fs |-> Shifted(s, fs[i])]
      /\ next' = next + source[s].span
      /\ at' = at + 1
      /\ UNCHANGED <<source, group, last, family, block, copied, rows, failed>>
  BY DEF PlaceSet, Fits, copyVars
<1>2. Fixed
  BY <1>1 DEF Fixed
<1>3. TypeOK /\ InTurn /\ FamilyTurn /\ Regions /\ Listed /\ Neighbours
  BY DEF MergeInv
<1>4. /\ next \in Nat /\ next <= MaxBit /\ at \in Nat /\ source[s].span \in Nat
      /\ next + source[s].span <= MaxBit
      /\ base \in [Sets -> Bit \cup {NoBit}]
      /\ group \in [Sets -> Nat] /\ source \in Sources
      /\ merged \in Seq(Entry) /\ n \in Nat /\ DOMAIN merged = 1 .. n
      /\ NoBit \notin Nat /\ MaxBit \in Nat
  <2>1. source[s].span \in Bit
    BY <1>3, RowFacts DEF TypeOK
  <2>2. merged \in Seq(Entry)
    BY <1>3 DEF TypeOK
  <2> QED
    BY <1>1, <1>3, <2>1, <2>2, MaxBitAssumption, MergeAssumption DEF TypeOK, Bit
<1>sizes. /\ next \in Nat /\ source[s].span \in Nat /\ MaxBit \in Nat /\ n \in Nat
          /\ next' = next + source[s].span /\ next + source[s].span <= MaxBit
  BY <1>1, <1>4
<1>5. /\ next' \in Nat /\ next <= next' /\ next' <= MaxBit
      /\ base'[s] = next /\ \A t \in Sets : t # s => base'[t] = base[t]
      /\ base' \in [Sets -> Bit \cup {NoBit}]
  BY <1>1, <1>4 DEF Bit
<1>6. base[s] = NoBit /\ \A f \in Families : block[<<s, f>>] = NoBit
  BY <1>1, <1>3, <1>4 DEF InTurn
<1>7. \A t \in Sets : group[t] = at => t = s
  BY <1>1 DEF Alone
<1>8. family = NoFamily
  <2> SUFFICES ASSUME family # NoFamily PROVE FALSE
    OBVIOUS
  <2>1. PICK p \in Unplaced : ~Alone(p[1])
    BY <1>3 DEF FamilyTurn
  <2>2. p[1] \in Sets /\ group[p[1]] = at
    BY DEF Unplaced
  <2> QED
    BY <1>1, <1>7, <2>1, <2>2
\* What of the source is in the merged catalog
<1>9. /\ \A i \in DOMAIN fs : /\ i \in Nat \ {0} /\ fs[i].set = s /\ fs[i].family \in Families
                              /\ fs[i].start \in Bit /\ fs[i].max \in 1 .. MaxBit
                              /\ fs[i].start + fs[i].max <= source[s].span
      /\ \A i, j \in DOMAIN fs : /\ i < j => fs[i].start + fs[i].max <= fs[j].start
                                 /\ fs[i].family = fs[j].family => i = j
  BY <1>4, RowFacts
<1>10. /\ fs \in Seq([set : {s}, family : Families, start : Bit, max : 1 .. MaxBit])
       /\ DOMAIN fs = 1 .. Len(fs) /\ Len(fs) \in Nat
  <2>1. fs \in Seq([set : {s}, family : Families, start : Bit, max : 1 .. MaxBit])
    BY <1>4, RowFacts
  <2> QED
    BY <2>1
<1>11. \A i \in DOMAIN fs :
        /\ Shifted(s, fs[i]) \in Entry
        /\ Shifted(s, fs[i]).set = s /\ Shifted(s, fs[i]).family = fs[i].family
        /\ Shifted(s, fs[i]).max = fs[i].max /\ Shifted(s, fs[i]).start = next + fs[i].start
  <2> SUFFICES ASSUME NEW i \in DOMAIN fs
               PROVE  /\ Shifted(s, fs[i]) \in Entry
                      /\ Shifted(s, fs[i]).set = s /\ Shifted(s, fs[i]).family = fs[i].family
                      /\ Shifted(s, fs[i]).max = fs[i].max
                      /\ Shifted(s, fs[i]).start = next + fs[i].start
    OBVIOUS
  <2> DEFINE R == [set : {s}, family : Families, start : Bit, max : 1 .. MaxBit]
  <2> HIDE DEF R
  <2>0. fs \in Seq(R)
    BY <1>10 DEF R
  <2>1. fs[i] \in R
    BY <1>10, <2>0
  <2>2. next + fs[i].start \in Bit
    <3>1. fs[i].start \in Nat /\ fs[i].max \in Nat /\ fs[i].start + fs[i].max <= source[s].span
      BY <1>4, <1>9 DEF Bit
    <3>2. next + fs[i].start \in Nat /\ next + fs[i].start <= MaxBit
      <4> HIDE DEF fs
      <4> QED
        BY <1>sizes, <3>1
    <3> QED
      BY <1>sizes, <3>2 DEF Bit
  <2> QED
    BY <2>1, <2>2 DEF Shifted, Entry, R
<1> DEFINE added == [i \in DOMAIN fs |-> Shifted(s, fs[i])]
<1>12. /\ added \in Seq(Entry) /\ Len(added) = Len(fs)
       /\ merged' \in Seq(Entry) /\ Len(merged') = n + Len(fs)
       /\ DOMAIN merged' = 1 .. n + Len(fs)
       /\ \A k \in 1 .. n : merged'[k] = merged[k]
       /\ \A i \in DOMAIN fs : n + i \in DOMAIN merged' /\ merged'[n + i] = Shifted(s, fs[i])
  <2>1. added \in Seq(Entry) /\ Len(added) = Len(fs)
    BY <1>10, <1>11
  <2>2. \A i \in DOMAIN fs : added[i] = Shifted(s, fs[i])
    OBVIOUS
  <2>3. merged' = merged \o added
    BY <1>1
  <2> HIDE DEF added
  <2>4. merged' \in Seq(Entry) /\ Len(merged') = n + Len(fs)
    <3>1. merged \o added \in Seq(Entry) /\ Len(merged \o added) = Len(merged) + Len(added)
      BY <1>4, <2>1, ConcatProperties
    <3> QED
      BY <2>1, <2>3, <3>1
  <2>5. DOMAIN merged' = 1 .. n + Len(fs)
    BY <1>4, <1>10, <2>4
  <2>6. \A k \in 1 .. n : merged'[k] = merged[k]
    BY <1>4, <1>10, <2>1, <2>3
  <2>7. ASSUME NEW i \in DOMAIN fs
        PROVE  n + i \in DOMAIN merged' /\ merged'[n + i] = Shifted(s, fs[i])
    <3>1. /\ i \in Nat /\ 1 <= i /\ n + i \in 1 .. Len(merged) + Len(added)
          /\ n + i - Len(merged) = i /\ ~(n + i <= Len(merged))
      <4>1. i \in 1 .. Len(fs) /\ Len(fs) \in Nat /\ Len(added) = Len(fs)
        BY <1>10, <2>1
      <4> HIDE DEF fs
      <4> QED
        BY <1>sizes, <4>1
    <3>2. (merged \o added)[n + i] = added[i]
      BY <1>4, <2>1, <3>1, ConcatProperties
    <3> QED
      BY <2>1, <2>2, <2>3, <2>5, <3>1, <3>2
  <2> QED
    BY <2>1, <2>4, <2>5, <2>6, <2>7
<1>13. \A k \in DOMAIN merged' :
            \/ k \in 1 .. n
            \/ \E i \in DOMAIN fs : k = n + i
  <2> SUFFICES ASSUME NEW k \in DOMAIN merged', k \notin 1 .. n PROVE k - n \in DOMAIN fs /\ k = n + (k - n)
    OBVIOUS
  <2> QED
    BY <1>4, <1>10, <1>12
<1> HIDE DEF fs, n, added
\* The conjuncts of the invariant
<1>14. TypeOK'
  <2>1. [b \in 0 .. source[s].span - 1 |-> next + b] \in Remaps
    <3>1. \A b \in 0 .. source[s].span - 1 : next + b \in Bit
      BY <1>sizes DEF Bit
    <3> QED
      BY <1>4, <3>1, RemapType
  <2>2. mapping' \in [Sets -> Remaps]
    BY <1>1, <1>3, <2>1 DEF TypeOK
  <2>3. \A t \in Sets : DOMAIN mapping'[t] = 0 .. source[t].span - 1
    BY <1>1, <1>3, <1>4 DEF TypeOK
  <2>4. next' \in Bit
    BY <1>4, <1>5 DEF Bit
  <2> QED
    BY <1>1, <1>3, <1>4, <1>5, <1>12, <2>2, <2>3, <2>4 DEF TypeOK
<1>15. Groups' /\ Breaks' /\ Untouched'
  BY <1>1, <1>2, FixedGroups
<1>16. InTurn'
  <2>1. \A t \in Sets : base'[t] # NoBit => Grouped' /\ Alone(t)' /\ group'[t] < at'
    <3> SUFFICES ASSUME NEW t \in Sets, base'[t] # NoBit
                 PROVE  Grouped' /\ Alone(t)' /\ group'[t] < at'
      OBVIOUS
    <3>1. CASE t = s
      BY <1>1, <1>2, <1>4, <3>1, FixedFacts
    <3>2. CASE t # s
      BY <1>1, <1>2, <1>3, <1>4, <1>5, <3>2, FixedFacts DEF InTurn
    <3> QED
      BY <3>1, <3>2
  <2>2. \A t \in Sets, f \in Families :
            block'[<<t, f>>] # NoBit =>
                Grouped' /\ ~Alone(t)' /\ group'[t] <= at' /\ f \in FamiliesOf(t)'
    BY <1>1, <1>2, <1>3, <1>4, FixedFacts DEF InTurn
  <2>3. \A t \in Sets : group'[t] < at' =>
                IF Alone(t)' THEN base'[t] # NoBit
                ELSE \A f \in FamiliesOf(t)' : block'[<<t, f>>] # NoBit
    <3> SUFFICES ASSUME NEW t \in Sets, group[t] < at + 1
                 PROVE  IF Alone(t) THEN base'[t] # NoBit
                        ELSE \A f \in FamiliesOf(t) : block[<<t, f>>] # NoBit
      BY <1>1, <1>2, FixedFacts
    <3>1. CASE t = s
      BY <1>1, <1>4, <1>5, <3>1
    <3>2. CASE t # s
      <4>1. group[t] < at
        BY <1>4, <1>7, <3>2
      <4> QED
        BY <1>1, <1>3, <1>5, <3>2, <4>1 DEF InTurn
    <3> QED
      BY <3>1, <3>2
  <2> QED
    BY <2>1, <2>2, <2>3 DEF InTurn
<1>17. FamilyTurn'
  <2>1. \A t \in Sets, f \in Families : group'[t] = at' => block'[<<t, f>>] = NoBit
    <3> SUFFICES ASSUME NEW t \in Sets, NEW f \in Families, group[t] = at + 1
                 PROVE  block[<<t, f>>] = NoBit
      BY <1>1
    <3>1. ~(group[t] <= at)
      BY <1>4
    <3> QED
      BY <1>3, <3>1 DEF InTurn
  <2>2. family' = NoFamily
    BY <1>1, <1>8
  <2> QED
    BY <2>1, <2>2 DEF FamilyTurn
<1>18. Regions'
  <2>1. \A r \in Ranges : r # <<s, 0>> => r[1] \in Sets /\ r[1] # s /\ RangeTo(r)' = RangeTo(r)
    <3> SUFFICES ASSUME NEW r \in Ranges, r # <<s, 0>>
                 PROVE  r[1] \in Sets /\ r[1] # s /\ RangeTo(r)' = RangeTo(r)
      OBVIOUS
    <3>1. r[1] \in Sets /\ r[1] # s
      BY <1>1, RangeKinds
    <3> QED
      BY <1>1, <1>5, <3>1 DEF RangeTo
  <2>2. <<s, 0>> \in Ranges
    BY <1>1, RangeKinds
  <2>3. /\ RangeTo(<<s, 0>>)' = next /\ RangeFrom(<<s, 0>>) = 0
        /\ RangeLen(<<s, 0>>) = source[s].span /\ RangeTo(<<s, 0>>) = NoBit
    BY <1>4, <1>5, <1>6, WholeRange DEF RangeTo
  <2>4. RangeEnd(<<s, 0>>)' = next' /\ \A r \in Ranges : r # <<s, 0>> => RangeEnd(r)' = RangeEnd(r)
    BY <1>1, <1>2, <2>1, <2>3, FixedFacts DEF RangeEnd
  <2>5. \A r \in Ranges : r # <<s, 0>> /\ RangeTo(r) # NoBit =>
                RangeEnd(r) <= next /\ RangeTo(r) \in Nat /\ RangeLen(r) \in Nat /\ RangeEnd(r) \in Nat
    BY <1>3, RangeTypes, MaxBitAssumption DEF Regions, Bit, RangeEnd
  <2>6. ASSUME NEW r \in Ranges, RangeTo(r)' # NoBit
        PROVE  /\ RangeEnd(r)' <= next'
               /\ \A b \in RangeFrom(r) .. RangeFrom(r) + RangeLen(r) - 1 :
                        mapping'[r[1]][b] = RangeTo(r)' + (b - RangeFrom(r))
    <3>1. CASE r = <<s, 0>>
      <4>1. mapping'[s] = [b \in 0 .. source[s].span - 1 |-> next + b]
        BY <1>1, <1>3 DEF TypeOK
      <4>2. r[1] = s
        BY <3>1
      <4>3. \A b \in 0 .. source[s].span - 1 : mapping'[s][b] = next + b
        BY <4>1
      <4>4. \A b \in 0 .. source[s].span - 1 : mapping'[s][b] = next + (b - 0)
        BY <1>4, <4>3
      <4>5. /\ RangeFrom(r) = 0 /\ RangeLen(r) = source[s].span /\ RangeTo(r)' = next
            /\ RangeEnd(r)' = next' /\ RangeFrom(r) + RangeLen(r) - 1 = source[s].span - 1
        BY <1>4, <2>3, <2>4, <3>1
      <4> QED
        BY <1>5, <4>2, <4>4, <4>5
    <3>2. CASE r # <<s, 0>>
      <4>1. mapping'[r[1]] = mapping[r[1]]
        BY <1>1, <1>3, <2>1, <3>2 DEF TypeOK
      <4>2. RangeEnd(r) <= next /\ RangeEnd(r) \in Nat
        BY <2>1, <2>5, <2>6, <3>2
      <4>3. RangeEnd(r)' <= next'
        BY <1>4, <1>5, <2>4, <3>2, <4>2
      <4> QED
        BY <1>3, <2>1, <2>6, <3>2, <4>1, <4>3 DEF Regions
    <3> QED
      BY <3>1, <3>2
  <2>7. ASSUME NEW r \in Ranges, NEW q \in Ranges, r # q, RangeTo(r)' # NoBit, RangeTo(q)' # NoBit
        PROVE  RangeEnd(r)' <= RangeTo(q)' \/ RangeEnd(q)' <= RangeTo(r)'
    <3>1. CASE r = <<s, 0>>
      BY <2>1, <2>3, <2>4, <2>5, <2>7, <3>1
    <3>2. CASE q = <<s, 0>>
      BY <2>1, <2>3, <2>4, <2>5, <2>7, <3>2
    <3>3. CASE r # <<s, 0>> /\ q # <<s, 0>>
      BY <1>3, <2>1, <2>4, <2>7, <3>3 DEF Regions
    <3> QED
      BY <3>1, <3>2, <3>3
  <2> QED
    BY <1>2, <2>6, <2>7, FixedFacts DEF Regions
<1>19. /\ \A i \in DOMAIN fs : Start(s, i) = NoBit /\ Start(s, i)' = next + fs[i].start
       /\ \A t \in Sets : t # s => \A i : Start(t, i)' = Start(t, i)
  <2>1. \A i \in DOMAIN fs : Start(s, i) = NoBit /\ Start(s, i)' = next + fs[i].start
    BY <1>1, <1>2, <1>4, <1>5, <1>6, FixedFacts DEF Start, fs
  <2>2. \A t \in Sets : t # s => \A i : Start(t, i)' = Start(t, i)
    BY <1>1, <1>2, <1>5, FixedFacts DEF Start
  <2> QED
    BY <2>1, <2>2
<1>20. \A k \in 1 .. n : /\ merged[k] \in Entry
                         /\ merged[k].set \in Sets /\ merged[k].set # s
                         /\ merged[k].start \in Nat /\ merged[k].max \in Nat
                         /\ merged[k].start + merged[k].max <= next
  <2> SUFFICES ASSUME NEW k \in 1 .. n
               PROVE  /\ merged[k] \in Entry
                      /\ merged[k].set \in Sets /\ merged[k].set # s
                      /\ merged[k].start \in Nat /\ merged[k].max \in Nat
                      /\ merged[k].start + merged[k].max <= next
    OBVIOUS
  <2>1. merged[k] \in Entry
    BY <1>4
  <2>2. PICK i \in DOMAIN source[merged[k].set].families : Moved(merged[k].set, i, merged[k])
    BY <1>3, <1>4 DEF Listed
  <2>3. merged[k].start \in Nat /\ merged[k].max \in Nat /\ merged[k].set \in Sets
    BY <1>4, <2>1 DEF Entry, Bit
  <2>4. merged[k].set # s
    BY <1>4, <1>19, <2>2, <2>3 DEF Moved, fs
  <2>5. merged[k].start + merged[k].max <= next
    BY <1>3, <1>4 DEF Listed
  <2> QED
    BY <2>1, <2>3, <2>4, <2>5
<1>21. Listed'
  <2>1. ASSUME NEW k \in DOMAIN merged'
        PROVE  /\ merged'[k].start + merged'[k].max <= next'
               /\ (\E i \in DOMAIN source[merged[k].set].families : Moved(merged[k].set, i, merged[k]))'
    <3>1. CASE k \in 1 .. n
      <4>1. PICK i \in DOMAIN source[merged[k].set].families : Moved(merged[k].set, i, merged[k])
        BY <1>3, <1>4, <3>1 DEF Listed
      <4>2. Moved(merged[k].set, i, merged[k])'
        BY <1>1, <1>12, <1>19, <1>20, <3>1, <4>1 DEF Moved
      <4>3. i \in DOMAIN source'[merged'[k].set].families
        BY <1>1, <1>12, <3>1, <4>1
      <4>4. merged'[k].start + merged'[k].max <= next'
        <5>1. /\ merged'[k] = merged[k] /\ merged[k].start \in Nat /\ merged[k].max \in Nat
              /\ merged[k].start + merged[k].max <= next
          BY <1>12, <1>20, <3>1
        <5> QED
          BY <1>sizes, <5>1
      <4> QED
        BY <4>2, <4>3, <4>4
    <3>2. CASE \E i \in DOMAIN fs : k = n + i
      <4>1. PICK i \in DOMAIN fs : k = n + i
        BY <3>2
      <4>2. /\ merged'[k].set = s /\ merged'[k].family = fs[i].family /\ merged'[k].max = fs[i].max
            /\ merged'[k].start = next + fs[i].start
        BY <1>11, <1>12, <4>1
      <4>3. Moved(merged[k].set, i, merged[k])'
        BY <1>1, <1>19, <4>2 DEF Moved, fs
      <4>6. (\E j \in DOMAIN source[merged[k].set].families : Moved(merged[k].set, j, merged[k]))'
        BY <1>1, <4>2, <4>3 DEF fs
      <4>4. next + fs[i].start + fs[i].max <= next'
        <5>1. fs[i].start \in Nat /\ fs[i].max \in Nat /\ fs[i].start + fs[i].max <= source[s].span
          BY <1>4, <1>9 DEF Bit
        <5> QED
          BY <1>sizes, <5>1
      <4>5. merged'[k].start + merged'[k].max <= next'
        BY <4>2, <4>4
      <4> QED
        BY <4>5, <4>6
    <3> QED
      BY <1>13, <3>1, <3>2
  <2>2. ASSUME NEW k \in DOMAIN merged', NEW l \in DOMAIN merged', k < l
        PROVE  /\ merged'[k].start + merged'[k].max <= merged'[l].start
               /\ merged'[k].set # merged'[l].set \/ merged'[k].family # merged'[l].family
    <3>1. CASE k \in 1 .. n /\ l \in 1 .. n
      BY <1>3, <1>4, <1>12, <2>2, <3>1 DEF Listed
    <3>2. CASE k \in 1 .. n /\ \E j \in DOMAIN fs : l = n + j
      <4>1. PICK j \in DOMAIN fs : l = n + j
        BY <3>2
      <4>2. merged'[l].set = s /\ merged'[l].start = next + fs[j].start /\ fs[j].start \in Nat
        <5>1. fs[j].start \in Nat
          BY <1>9, <1>sizes DEF Bit
        <5> QED
          BY <1>11, <1>12, <4>1, <5>1
      <4>3. /\ merged'[k].set # s /\ merged'[k].start \in Nat /\ merged'[k].max \in Nat
            /\ merged'[k].start + merged'[k].max <= next
        BY <1>12, <1>20, <3>2
      <4> QED
        BY <1>4, <4>2, <4>3
    <3>3. CASE (\E i \in DOMAIN fs : k = n + i) /\ l \in 1 .. n
      BY <1>4, <1>9, <2>2, <3>3
    <3>4. CASE (\E i \in DOMAIN fs : k = n + i) /\ (\E j \in DOMAIN fs : l = n + j)
      <4>1. PICK i \in DOMAIN fs, j \in DOMAIN fs : k = n + i /\ l = n + j
        BY <3>4
      <4>2. i < j
        BY <1>4, <1>9, <2>2, <4>1
      <4>3. fs[i].start + fs[i].max <= fs[j].start /\ fs[i].family # fs[j].family
        BY <1>9, <4>2
      <4>4. /\ merged'[k].start = next + fs[i].start /\ merged'[k].max = fs[i].max
            /\ merged'[l].start = next + fs[j].start
            /\ merged'[k].family = fs[i].family /\ merged'[l].family = fs[j].family
        BY <1>11, <1>12, <4>1
      <4>5. fs[i].start \in Nat /\ fs[i].max \in Nat /\ fs[j].start \in Nat
        BY <1>4, <1>9 DEF Bit
      <4> QED
        BY <1>4, <4>3, <4>4, <4>5
    <3> QED
      BY <1>13, <3>1, <3>2, <3>3, <3>4
  <2>3. ASSUME NEW t \in Sets, NEW i \in DOMAIN source'[t].families, Start(t, i)' # NoBit
        PROVE  (\E k \in DOMAIN merged : Moved(t, i, merged[k]))'
    <3>1. CASE t = s
      <4>1. i \in DOMAIN fs
        BY <1>1, <2>3, <3>1 DEF fs
      <4>2. n + i \in DOMAIN merged' /\ merged'[n + i] = Shifted(s, fs[i])
        BY <1>12, <4>1
      <4>3. /\ merged'[n + i].set = s /\ merged'[n + i].family = fs[i].family
            /\ merged'[n + i].max = fs[i].max /\ merged'[n + i].start = Start(s, i)'
        BY <1>11, <1>19, <4>1, <4>2
      <4>4. /\ merged'[n + i].family = source'[s].families[i].family
            /\ merged'[n + i].max = source'[s].families[i].max
        BY <1>1, <4>3 DEF fs
      <4>5. \E k \in DOMAIN merged' : /\ merged'[k].set = s /\ merged'[k].start = Start(s, i)'
                                      /\ merged'[k].family = source'[s].families[i].family
                                      /\ merged'[k].max = source'[s].families[i].max
        BY <4>2, <4>3, <4>4
      <4> QED
        BY <3>1, <4>5 DEF Moved
    <3>2. CASE t # s
      <4>1. Start(t, i) # NoBit
        BY <1>19, <2>3, <3>2
      <4>2. PICK k \in DOMAIN merged : Moved(t, i, merged[k])
        BY <1>1, <1>3, <4>1 DEF Listed
      <4>3. Moved(t, i, merged[k])'
        BY <1>1, <1>4, <1>12, <1>19, <3>2, <4>2 DEF Moved
      <4>4. k \in DOMAIN merged'
        BY <1>4, <1>10, <1>12
      <4> QED
        BY <4>3, <4>4
    <3> QED
      BY <3>1, <3>2
  <2>4. \A t \in Sets : \A i \in DOMAIN source'[t].families :
            Start(t, i)' # NoBit => (\E k \in DOMAIN merged : Moved(t, i, merged[k]))'
    BY <2>3
  <2> QED
    BY <2>1, <2>2, <2>4 DEF Listed
<1>22. Neighbours'
  <2> SUFFICES ASSUME NEW k \in DOMAIN merged', NEW l \in DOMAIN merged', k < l,
                      merged'[k].family = merged'[l].family,
                      group'[merged'[k].set] = group'[merged'[l].set]
               PROVE  /\ merged'[l - 1].family = merged'[l].family
                      /\ merged'[l - 1].start + merged'[l - 1].max = merged'[l].start
    BY DEF Neighbours
  <2>1. CASE k \in 1 .. n /\ l \in 1 .. n
    <3>1. l - 1 \in 1 .. n
      BY <1>4, <2>1
    <3>2. merged'[k] = merged[k] /\ merged'[l] = merged[l] /\ merged'[l - 1] = merged[l - 1]
      BY <1>12, <2>1, <3>1
    <3>3. merged[k].family = merged[l].family /\ group[merged[k].set] = group[merged[l].set]
      BY <1>2, <3>2 DEF Fixed
    <3>4. k \in DOMAIN merged /\ l \in DOMAIN merged
      BY <1>4, <2>1
    <3>5. /\ merged[l - 1].family = merged[l].family
          /\ merged[l - 1].start + merged[l - 1].max = merged[l].start
      BY <1>3, <3>3, <3>4 DEF Neighbours
    <3> QED
      BY <3>2, <3>5
  <2>2. CASE \E j \in DOMAIN fs : l = n + j
    <3>1. merged'[l].set = s
      BY <1>11, <1>12, <2>2
    <3>2. merged'[k].set \in Sets /\ group[merged'[k].set] = at
      <4>1. merged'[k] \in Entry
        BY <1>12
      <4> QED
        BY <1>1, <3>1, <4>1 DEF Entry
    <3>3. merged'[k].set = s
      BY <1>7, <3>2
    <3> QED
      BY <1>21, <3>1, <3>3 DEF Listed
  <2>3. CASE k \notin 1 .. n /\ l \in 1 .. n
    BY <1>4, <1>12, <2>3
  <2> QED
    BY <1>13, <2>1, <2>2, <2>3
<1>23. Copies'
  <2>1. copied' = {}
    BY <1>1, NothingCopied
  <2> QED
    BY <2>1 DEF Copies
<1> QED
  BY <1>14, <1>15, <1>16, <1>17, <1>18, <1>21, <1>22, <1>23 DEF MergeInv

(***************************************************************************)
(* A family of a set of a larger group is placed                           *)
(***************************************************************************)
\* The block takes the bits from next on; its family keeps its turn while it has another.
LEMMA PlaceRowStep ==
    ASSUME MergeInv, NEW s \in Sets, NEW f \in Families, PlaceRow(s, f),
           Fits(source[s].families[RowOf(s, f)].max)
    PROVE  MergeInv'
<1>0. PICK x : x = RowOf(s, f)
  OBVIOUS
<1> DEFINE row   == source[s].families[x]
           after == Unplaced \ {<<s, f>>}
           e     == [row EXCEPT !.start = next, !.set = s]
           n     == Len(merged)
<1>1. /\ Grouped /\ ~failed /\ ~Alone(s) /\ <<s, f>> \in Unplaced /\ TurnOf(s, f)
      /\ next + row.max <= MaxBit
      /\ block' = [block EXCEPT ![<<s, f>>] = next]
      /\ mapping' = [mapping EXCEPT ![s] =
                [b \in DOMAIN @ |-> IF b >= row.start /\ b < row.start + row.max
                                    THEN next + (b - row.start) ELSE @[b]]]
      /\ merged' = Append(merged, e)
      /\ next' = next + row.max
      /\ family' = IF \E p \in after : p[2] = f THEN f ELSE NoFamily
      /\ at' = IF after = {} THEN at + 1 ELSE at
      /\ UNCHANGED <<source, group, last, base, copied, rows, failed>>
  BY <1>0 DEF PlaceRow, Fits, copyVars
<1>2. Fixed
  BY <1>1 DEF Fixed
<1>3. TypeOK /\ InTurn /\ FamilyTurn /\ Regions /\ Listed /\ Neighbours
  BY DEF MergeInv
<1>4. group[s] = at /\ f \in FamiliesOf(s) /\ block[<<s, f>>] = NoBit
  BY <1>1 DEF Unplaced
<1>5. source \in Sources /\ x \in DOMAIN source[s].families /\ row.family = f
  BY <1>0, <1>3, <1>4, RowOfFamily DEF TypeOK
<1>6. /\ row \in [set : {s}, family : Families, start : Bit, max : 1 .. MaxBit]
      /\ row.start \in Nat /\ row.max \in Nat /\ row.max >= 1 /\ x \in Nat \ {0}
      /\ row.start + row.max <= source[s].span
      /\ \A i \in DOMAIN source[s].families :
            i # x => /\ source[s].families[i].family # f
                     /\ \/ source[s].families[i].start + source[s].families[i].max <= row.start
                        \/ row.start + row.max <= source[s].families[i].start
  <2> DEFINE R == [set : {s}, family : Families, start : Bit, max : 1 .. MaxBit]
  <2> HIDE DEF R
  <2>1. source[s].families \in Seq(R)
    BY <1>5, RowFacts DEF R
  <2>2. row \in R
    BY <1>5, <2>1
  <2>3. x \in Nat \ {0} /\ row.start \in Bit /\ row.max \in 1 .. MaxBit
        /\ row.start + row.max <= source[s].span
    BY <1>5, RowFacts
  <2>4. ASSUME NEW i \in DOMAIN source[s].families, i # x
        PROVE  /\ source[s].families[i].family # f
               /\ \/ source[s].families[i].start + source[s].families[i].max <= row.start
                  \/ row.start + row.max <= source[s].families[i].start
    <3>1. i \in Nat \ {0}
      BY <1>5, RowFacts
    <3>2. i < x \/ x < i
      BY <2>3, <2>4, <3>1
    <3>3. /\ i < x => source[s].families[i].start + source[s].families[i].max <= row.start
          /\ x < i => row.start + row.max <= source[s].families[i].start
          /\ source[s].families[i].family = row.family => i = x
      <4>1. \A j, k \in DOMAIN source[s].families :
                /\ j < k => source[s].families[j].start + source[s].families[j].max
                                <= source[s].families[k].start
                /\ source[s].families[j].family = source[s].families[k].family => j = k
        BY <1>5, RowFacts
      <4> QED
        BY <1>5, <4>1
    <3> QED
      BY <1>5, <2>4, <3>2, <3>3
  <2> QED
    BY <2>2, <2>3, <2>4, MaxBitAssumption DEF R, Bit
<1>7. /\ next \in Nat /\ at \in Nat /\ MaxBit \in Nat /\ NoBit \notin Nat /\ NoFamily \notin Families
      /\ next + row.max <= MaxBit /\ next' = next + row.max
      /\ group \in [Sets -> Nat] /\ block \in [Blocks -> Bit \cup {NoBit}]
      /\ merged \in Seq(Entry) /\ n \in Nat /\ DOMAIN merged = 1 .. n
  <2>1. merged \in Seq(Entry)
    BY <1>3 DEF TypeOK
  <2> QED
    BY <1>1, <1>3, <2>1, MaxBitAssumption, MergeAssumption DEF TypeOK, Bit
<1>8. /\ next \in Bit /\ next' \in Bit /\ next' \in Nat /\ next < next'
  <2> HIDE DEF row
  <2>1. row.max \in Nat /\ row.max >= 1
    BY <1>6
  <2> QED
    BY <1>7, <2>1 DEF Bit
<1>9. /\ e \in Entry /\ e.set = s /\ e.family = f /\ e.start = next /\ e.max = row.max
  <2>1. row.family \in Families
    BY <1>5
  <2> QED
    BY <1>5, <1>6, <1>8 DEF Entry
<1>10. /\ block'[<<s, f>>] = next
       /\ \A p \in Blocks : p # <<s, f>> => block'[p] = block[p]
       /\ block' \in [Blocks -> Bit \cup {NoBit}]
  BY <1>1, <1>7, <1>8 DEF Blocks
<1>11. \A t \in Sets : group[t] = at => ~Alone(t)
  BY <1>1, <1>4 DEF Alone
<1> HIDE DEF e, n, row
<1>12. /\ merged' \in Seq(Entry) /\ DOMAIN merged' = 1 .. n + 1 /\ Len(merged') = n + 1
       /\ \A k \in 1 .. n : merged'[k] = merged[k]
       /\ merged'[n + 1] = e
  <2>1. /\ merged' \in Seq(Entry) /\ Len(merged') = n + 1
        /\ \A k \in 1 .. n : merged'[k] = merged[k]
        /\ merged'[n + 1] = e
    BY <1>1, <1>7, <1>9, AppendProperties DEF n
  <2> QED
    BY <2>1
<1>13. \A k \in DOMAIN merged' : k \in 1 .. n \/ k = n + 1
  BY <1>7, <1>12
\* The conjuncts of the invariant
<1>14. TypeOK'
  <2>1. /\ DOMAIN mapping[s] = 0 .. source[s].span - 1
        /\ mapping[s] \in [0 .. source[s].span - 1 -> Bit \cup {NoBit}] /\ source[s].span \in Nat
    <3>1. mapping[s] \in Remaps /\ DOMAIN mapping[s] = 0 .. source[s].span - 1
      BY <1>3 DEF TypeOK
    <3>2. PICK m \in Nat : mapping[s] \in [0 .. m - 1 -> Bit \cup {NoBit}]
      BY <3>1 DEF Remaps
    <3>3. source[s].span \in Bit
      BY <1>5, RowFacts
    <3> QED
      BY <1>7, <3>1, <3>2, <3>3 DEF Bit
  <2> DEFINE m == [b \in DOMAIN mapping[s] |-> IF b >= row.start /\ b < row.start + row.max
                                               THEN next + (b - row.start) ELSE mapping[s][b]]
  <2>2. m \in [0 .. source[s].span - 1 -> Bit \cup {NoBit}]
    <3>1. \A b \in 0 .. source[s].span - 1 :
            b >= row.start /\ b < row.start + row.max => next + (b - row.start) \in Bit
      BY <1>6, <1>7, <2>1 DEF Bit
    <3> QED
      BY <2>1, <3>1
  <2>3. m \in Remaps
    BY <2>1, <2>2, RemapType
  <2>4. mapping' = [mapping EXCEPT ![s] = m]
    BY <1>1
  <2>5. DOMAIN m = 0 .. source[s].span - 1
    BY <2>1
  <2> HIDE DEF m
  <2>6. mapping' \in [Sets -> Remaps] /\ mapping'[s] = m /\ \A t \in Sets : t # s => mapping'[t] = mapping[t]
    BY <1>3, <2>3, <2>4 DEF TypeOK
  <2>7. \A t \in Sets : DOMAIN mapping'[t] = 0 .. source'[t].span - 1
    BY <1>1, <1>3, <2>5, <2>6 DEF TypeOK
  <2>8. at' \in Nat /\ family' \in Families \cup {NoFamily}
    BY <1>1, <1>7
  <2> QED
    BY <1>1, <1>3, <1>8, <1>10, <1>12, <2>6, <2>7, <2>8 DEF TypeOK
<1>15. Groups' /\ Breaks' /\ Untouched'
  BY <1>1, <1>2, FixedGroups
<1>16. /\ at <= at'
       /\ after # {} => at' = at /\ Unplaced' = after
       /\ after = {} => at' = at + 1 /\ family' = NoFamily
  <2>1. at' = at => Unplaced' = after
    <3>1. \A p \in Blocks : block'[p] = NoBit <=> block[p] = NoBit /\ p # <<s, f>>
      BY <1>7, <1>10
    <3> QED
      BY <1>1, <1>2, <3>1, FixedFacts DEF Unplaced, Blocks
  <2> QED
    BY <1>1, <1>7, <2>1
<1> HIDE DEF after
<1>17. InTurn'
  <2>1. \A t \in Sets : base'[t] # NoBit => Grouped' /\ Alone(t)' /\ group'[t] < at'
    <3>1. at' \in Nat
      BY <1>14 DEF TypeOK
    <3> QED
      BY <1>1, <1>2, <1>3, <1>7, <1>16, <3>1, FixedFacts DEF InTurn
  <2>2. ASSUME NEW t \in Sets, NEW g \in Families, block'[<<t, g>>] # NoBit
        PROVE  Grouped' /\ ~Alone(t)' /\ group'[t] <= at' /\ g \in FamiliesOf(t)'
    <3>1. CASE <<t, g>> = <<s, f>>
      <4>1. t = s /\ g = f
        BY <3>1
      <4> QED
        BY <1>1, <1>2, <1>4, <1>16, <4>1, FixedFacts
    <3>2. CASE <<t, g>> # <<s, f>>
      <4>1. block[<<t, g>>] # NoBit
        BY <1>10, <2>2, <3>2 DEF Blocks
      <4>2. Grouped /\ ~Alone(t) /\ group[t] <= at /\ g \in FamiliesOf(t)
        BY <1>3, <4>1 DEF InTurn
      <4>3. at' \in Nat /\ group[t] \in Nat
        BY <1>7, <1>14 DEF TypeOK
      <4> QED
        BY <1>1, <1>2, <1>7, <1>16, <4>2, <4>3, FixedFacts
    <3> QED
      BY <3>1, <3>2
  <2>3. ASSUME NEW t \in Sets, group[t] < at'
        PROVE  IF Alone(t) THEN base[t] # NoBit
               ELSE \A g \in FamiliesOf(t) : block'[<<t, g>>] # NoBit
    <3>1. ASSUME NEW g \in FamiliesOf(t) PROVE g \in Families /\ <<t, g>> \in Blocks
      <4>1. PICK i \in DOMAIN source[t].families : g = source[t].families[i].family
        BY DEF FamiliesOf
      <4>2. g \in Families
        BY <1>5, <4>1, RowFacts
      <4> QED
        BY <4>2 DEF Blocks
    <3>2. CASE group[t] < at
      <4>1. IF Alone(t) THEN base[t] # NoBit
            ELSE \A g \in FamiliesOf(t) : block[<<t, g>>] # NoBit
        BY <1>1, <1>3, <3>2 DEF InTurn
      <4>2. \A g \in FamiliesOf(t) : block[<<t, g>>] # NoBit => block'[<<t, g>>] # NoBit
        BY <1>7, <1>10, <3>1
      <4> QED
        BY <4>1, <4>2
    <3>3. CASE ~(group[t] < at)
      <4>1. after = {} /\ group[t] = at
        BY <1>7, <1>16, <2>3, <3>3
      <4>2. ASSUME NEW g \in FamiliesOf(t) PROVE block'[<<t, g>>] # NoBit
        <5>1. <<t, g>> \in Unplaced => <<t, g>> = <<s, f>>
          BY <4>1 DEF after
        <5>2. CASE <<t, g>> = <<s, f>>
          BY <1>7, <1>10, <5>2
        <5>3. CASE <<t, g>> # <<s, f>>
          <6>1. block[<<t, g>>] # NoBit
            BY <3>1, <4>1, <4>2, <5>1, <5>3 DEF Unplaced
          <6> QED
            BY <1>10, <3>1, <4>2, <5>3, <6>1
        <5> QED
          BY <5>2, <5>3
      <4> QED
        BY <1>11, <4>1, <4>2
    <3> QED
      BY <3>2, <3>3
  <2> QED
    BY <1>1, <1>2, <2>1, <2>2, <2>3, FixedFacts DEF InTurn
<1>18. FamilyTurn'
  <2>1. ASSUME family' # NoFamily
        PROVE  /\ \E p \in Unplaced' : p[2] = family' /\ ~Alone(p[1])'
               /\ merged' # <<>>
               /\ merged'[Len(merged')].family = family'
               /\ merged'[Len(merged')].start + merged'[Len(merged')].max = next'
    <3>1. after # {} /\ Unplaced' = after /\ family' = f /\ \E p \in after : p[2] = f
      BY <1>1, <1>16, <2>1 DEF after
    <3>2. PICK p \in after : p[2] = f
      BY <3>1
    <3>3. p[1] \in Sets /\ ~Alone(p[1])
      BY <1>11 DEF after, Unplaced
    <3>4. merged' # <<>> /\ merged'[Len(merged')] = e
      BY <1>7, <1>12
    <3> QED
      BY <1>2, <1>7, <1>9, <3>1, <3>2, <3>3, <3>4, FixedFacts
  <2>2. ASSUME NEW t \in Sets, NEW u \in Sets, NEW g \in Families,
               group'[t] = at', block'[<<t, g>>] # NoBit, <<u, g>> \in Unplaced'
        PROVE  family' = g
    <3>1. group'[t] = group[t] /\ <<t, g>> \in Blocks
      BY <1>1 DEF Blocks
    <3>2. after # {}
      <4> SUFFICES ASSUME after = {} PROVE FALSE
        OBVIOUS
      <4>1. group[t] = at + 1 /\ t # s
        BY <1>4, <1>7, <1>16, <2>2, <3>1
      <4>2. block[<<t, g>>] # NoBit
        BY <1>10, <2>2, <3>1, <4>1
      <4>3. group[t] <= at
        BY <1>3, <4>2 DEF InTurn
      <4> QED
        BY <1>7, <4>1, <4>3
    <3>3. Unplaced' = after /\ group[t] = at /\ <<u, g>> \in after /\ <<u, g>> \in Unplaced
      BY <1>16, <2>2, <3>1, <3>2 DEF after
    <3>4. CASE g = f
      <4>1. \E p \in after : p[2] = f
        BY <3>3, <3>4
      <4> QED
        BY <1>1, <3>4, <4>1 DEF after
    <3>5. CASE g # f
      <4>1. block[<<t, g>>] # NoBit
        BY <1>10, <2>2, <3>1, <3>5
      <4>2. family = g
        BY <1>3, <3>3, <4>1 DEF FamilyTurn
      <4> QED
        BY <1>1, <1>7, <3>5, <4>2 DEF TurnOf
    <3> QED
      BY <3>4, <3>5
  <2> QED
    BY <2>1, <2>2 DEF FamilyTurn
\* The range that is placed
<1>19. /\ <<s, x>> \in Ranges /\ RangeFrom(<<s, x>>) = row.start /\ RangeLen(<<s, x>>) = row.max
       /\ RangeTo(<<s, x>>) = NoBit /\ RangeTo(<<s, x>>)' = next
  <2>1. <<s, x>> \in Ranges
    BY <1>1, <1>5, RangeKinds
  <2>2. RangeTo(<<s, x>>) = block[<<s, f>>] /\ RangeFrom(<<s, x>>) = row.start /\ RangeLen(<<s, x>>) = row.max
    BY <1>5, FamilyRange DEF row
  <2>3. RangeTo(<<s, x>>)' = block'[<<s, f>>]
    <3>1. source'[s].families[x].family = f /\ x # 0
      BY <1>2, <1>5, <1>6 DEF Fixed, row
    <3>2. <<s, x>>[1] = s /\ <<s, x>>[2] = x
      OBVIOUS
    <3> QED
      BY <3>1, <3>2 DEF RangeTo
  <2> QED
    BY <1>4, <1>10, <2>1, <2>2, <2>3
<1>20. \A r \in Ranges : r # <<s, x>> => /\ RangeTo(r)' = RangeTo(r)
                                         /\ r[1] = s => \E i \in DOMAIN source[s].families : r = <<s, i>> /\ i # x
  <2> SUFFICES ASSUME NEW r \in Ranges, r # <<s, x>>
               PROVE  /\ RangeTo(r)' = RangeTo(r)
                      /\ r[1] = s => \E i \in DOMAIN source[s].families : r = <<s, i>> /\ i # x
    OBVIOUS
  <2>1. CASE \E t \in Sets : Alone(t) /\ r = <<t, 0>>
    <3>1. PICK t \in Sets : Alone(t) /\ r = <<t, 0>>
      BY <2>1
    <3>2. r[1] = t /\ r[2] = 0 /\ t # s
      BY <1>1, <3>1
    <3> QED
      BY <1>1, <3>2 DEF RangeTo
  <2>2. CASE \E t \in Sets : ~Alone(t) /\ \E i \in DOMAIN source[t].families : r = <<t, i>>
    <3>1. PICK t \in Sets : \E i \in DOMAIN source[t].families : r = <<t, i>>
      BY <2>2
    <3>2. PICK i \in DOMAIN source[t].families : r = <<t, i>>
      BY <3>1
    <3> DEFINE g == source[t].families[i].family
    <3>3. g \in Families /\ <<t, g>> \in Blocks /\ i # 0 /\ r[1] = t /\ r[2] = i
      BY <1>5, <3>2, RowFacts DEF Blocks
    <3>4. <<t, g>> # <<s, f>>
      BY <1>6, <3>2
    <3>5. block'[<<t, g>>] = block[<<t, g>>]
      BY <1>10, <3>3, <3>4
    <3>6. RangeTo(r) = block[<<t, g>>] /\ RangeTo(r)' = block'[<<t, g>>]
      BY <1>1, <3>3 DEF RangeTo
    <3> QED
      BY <3>2, <3>3, <3>5, <3>6
  <2> QED
    BY <2>1, <2>2, RangeKinds
<1>21. /\ RangeEnd(<<s, x>>)' = next'
       /\ \A r \in Ranges : r # <<s, x>> => RangeEnd(r)' = RangeEnd(r)
  BY <1>2, <1>7, <1>19, <1>20, FixedFacts DEF RangeEnd
<1>22. Regions'
  <2>1. \A r \in Ranges : RangeTo(r) # NoBit =>
                RangeEnd(r) <= next /\ RangeTo(r) \in Nat /\ RangeEnd(r) \in Nat
    BY <1>3, RangeTypes, MaxBitAssumption DEF Regions, Bit, RangeEnd
  <2>2. ASSUME NEW r \in Ranges, RangeTo(r)' # NoBit
        PROVE  /\ RangeEnd(r)' <= next'
               /\ \A b \in RangeFrom(r) .. RangeFrom(r) + RangeLen(r) - 1 :
                        mapping'[r[1]][b] = RangeTo(r)' + (b - RangeFrom(r))
    <3>1. mapping \in [Sets -> Remaps] /\ DOMAIN mapping[s] = 0 .. source[s].span - 1
      BY <1>3 DEF TypeOK
    <3>2. mapping'[s] = [b \in 0 .. source[s].span - 1 |->
                            IF b >= row.start /\ b < row.start + row.max
                            THEN next + (b - row.start) ELSE mapping[s][b]]
      BY <1>1, <3>1
    <3>3. \A t \in Sets : t # s => mapping'[t] = mapping[t]
      BY <1>1, <3>1
    <3>4. source[s].span \in Nat
      <4>1. source[s].span \in Bit
        BY <1>5, RowFacts
      <4> QED
        BY <1>7, <4>1 DEF Bit
    <3>5. CASE r = <<s, x>>
      <4>1. \A b \in row.start .. row.start + row.max - 1 : mapping'[s][b] = next + (b - row.start)
        <5>1. \A b \in row.start .. row.start + row.max - 1 :
                b \in 0 .. source[s].span - 1 /\ b >= row.start /\ b < row.start + row.max
          BY <1>6, <3>4
        <5> QED
          BY <3>2, <5>1
      <4>2. r[1] = s /\ RangeFrom(r) = row.start /\ RangeLen(r) = row.max /\ RangeTo(r)' = next
            /\ RangeEnd(r)' = next'
        BY <1>19, <1>21, <3>5
      <4> QED
        BY <1>8, <4>1, <4>2
    <3>6. CASE r # <<s, x>>
      <4>1. /\ RangeTo(r)' = RangeTo(r) /\ RangeTo(r) # NoBit /\ RangeEnd(r)' = RangeEnd(r)
            /\ RangeEnd(r) <= next /\ RangeEnd(r) \in Nat
            /\ \A b \in RangeFrom(r) .. RangeFrom(r) + RangeLen(r) - 1 :
                    mapping[r[1]][b] = RangeTo(r) + (b - RangeFrom(r))
        BY <1>3, <1>20, <1>21, <2>1, <2>2, <3>6 DEF Regions
      <4>2. RangeEnd(r)' <= next'
        BY <1>7, <1>8, <4>1
      <4>3. CASE r[1] # s
        <5>1. r[1] \in Sets
          BY <1>3, RangeTypes
        <5> QED
          BY <3>3, <4>1, <4>2, <4>3, <5>1
      <4>4. CASE r[1] = s
        <5>1. PICK i \in DOMAIN source[s].families : r = <<s, i>> /\ i # x
          BY <1>20, <3>6, <4>4
        <5>2. RangeFrom(r) = source[s].families[i].start /\ RangeLen(r) = source[s].families[i].max
          BY <1>5, <5>1, FamilyRange
        <5>3. RangeFrom(r) + RangeLen(r) <= row.start \/ row.start + row.max <= RangeFrom(r)
          BY <1>6, <5>1, <5>2
        <5>4. RangeFrom(r) \in Nat /\ RangeLen(r) \in Nat /\ RangeFrom(r) + RangeLen(r) <= source[s].span
          BY <1>3, <1>7, <4>4, RangeTypes DEF Bit
        <5>5. ASSUME NEW b \in RangeFrom(r) .. RangeFrom(r) + RangeLen(r) - 1
              PROVE  mapping'[s][b] = mapping[s][b]
          <6>1. b \in 0 .. source[s].span - 1 /\ ~(b >= row.start /\ b < row.start + row.max)
            BY <1>6, <3>4, <5>3, <5>4
          <6> QED
            BY <3>2, <6>1
        <5> QED
          BY <4>1, <4>2, <4>4, <5>5
      <4> QED
        BY <4>3, <4>4
    <3> QED
      BY <3>5, <3>6
  <2>3. ASSUME NEW r \in Ranges, NEW q \in Ranges, r # q, RangeTo(r)' # NoBit, RangeTo(q)' # NoBit
        PROVE  RangeEnd(r)' <= RangeTo(q)' \/ RangeEnd(q)' <= RangeTo(r)'
    <3>1. CASE r = <<s, x>>
      <4>1. RangeTo(r)' = next /\ RangeTo(q)' = RangeTo(q) /\ RangeEnd(q)' = RangeEnd(q)
        BY <1>19, <1>20, <1>21, <2>3, <3>1
      <4> QED
        BY <2>1, <2>3, <4>1
    <3>2. CASE q = <<s, x>>
      <4>1. RangeTo(q)' = next /\ RangeTo(r)' = RangeTo(r) /\ RangeEnd(r)' = RangeEnd(r)
        BY <1>19, <1>20, <1>21, <2>3, <3>2
      <4> QED
        BY <2>1, <2>3, <4>1
    <3>3. CASE r # <<s, x>> /\ q # <<s, x>>
      BY <1>3, <1>20, <1>21, <2>3, <3>3 DEF Regions
    <3> QED
      BY <3>1, <3>2, <3>3
  <2> QED
    BY <1>2, <2>2, <2>3, FixedFacts DEF Regions
<1>23. /\ Start(s, x) = NoBit /\ Start(s, x)' = next
       /\ \A t \in Sets : \A i \in DOMAIN source[t].families :
                <<t, i>> # <<s, x>> => Start(t, i)' = Start(t, i)
  <2>1. Start(s, x) = NoBit /\ Start(s, x)' = next
    <3>1. source[s].families[x].family = f /\ source'[s].families[x].family = f
      BY <1>2, <1>5 DEF Fixed, row
    <3>2. ~Alone(s) /\ ~Alone(s)'
      BY <1>1, <1>2, FixedFacts
    <3> QED
      BY <1>4, <1>10, <3>1, <3>2 DEF Start
  <2>2. ASSUME NEW t \in Sets, NEW i \in DOMAIN source[t].families, <<t, i>> # <<s, x>>
        PROVE  Start(t, i)' = Start(t, i)
    <3> DEFINE g == source[t].families[i].family
    <3>1. <<t, g>> \in Blocks
      BY <1>5, RowFacts DEF Blocks
    <3>2. <<t, g>> # <<s, f>>
      BY <1>6, <2>2
    <3>3. block'[<<t, g>>] = block[<<t, g>>]
      BY <1>10, <3>1, <3>2
    <3> QED
      BY <1>1, <1>2, <3>3, FixedFacts DEF Start
  <2> QED
    BY <2>1, <2>2
<1>24. \A k \in 1 .. n :
            /\ merged[k].set \in Sets /\ merged[k].start \in Nat /\ merged[k].max \in Nat
            /\ merged[k].start + merged[k].max <= next
            /\ \E i \in DOMAIN source[merged[k].set].families :
                    /\ Moved(merged[k].set, i, merged[k])
                    /\ <<merged[k].set, i>> # <<s, x>>
  <2> SUFFICES ASSUME NEW k \in 1 .. n
               PROVE  /\ merged[k].set \in Sets /\ merged[k].start \in Nat /\ merged[k].max \in Nat
                      /\ merged[k].start + merged[k].max <= next
                      /\ \E i \in DOMAIN source[merged[k].set].families :
                            /\ Moved(merged[k].set, i, merged[k])
                            /\ <<merged[k].set, i>> # <<s, x>>
    OBVIOUS
  <2>1. merged[k] \in Entry
    BY <1>7
  <2>2. merged[k].start \in Nat /\ merged[k].max \in Nat /\ merged[k].set \in Sets
    BY <1>7, <2>1 DEF Entry, Bit
  <2>3. PICK i \in DOMAIN source[merged[k].set].families : Moved(merged[k].set, i, merged[k])
    BY <1>3, <1>7 DEF Listed
  <2>4. Start(merged[k].set, i) # NoBit
    BY <1>7, <2>2, <2>3 DEF Moved
  <2>5. <<merged[k].set, i>> # <<s, x>>
    BY <1>23, <2>4
  <2>6. merged[k].start + merged[k].max <= next
    BY <1>3, <1>7 DEF Listed
  <2> QED
    BY <2>2, <2>3, <2>5, <2>6
<1>25. Listed'
  <2>1. ASSUME NEW k \in DOMAIN merged'
        PROVE  /\ merged'[k].start + merged'[k].max <= next'
               /\ (\E i \in DOMAIN source[merged[k].set].families : Moved(merged[k].set, i, merged[k]))'
    <3>1. CASE k \in 1 .. n
      <4>1. PICK i \in DOMAIN source[merged[k].set].families :
                /\ Moved(merged[k].set, i, merged[k])
                /\ <<merged[k].set, i>> # <<s, x>>
        BY <1>24, <3>1
      <4>2. Moved(merged[k].set, i, merged[k])'
        BY <1>1, <1>12, <1>23, <1>24, <3>1, <4>1 DEF Moved
      <4>3. i \in DOMAIN source'[merged'[k].set].families
        BY <1>1, <1>12, <3>1, <4>1
      <4>4. merged'[k].start + merged'[k].max <= next'
        BY <1>7, <1>8, <1>12, <1>24, <3>1
      <4> QED
        BY <4>2, <4>3, <4>4
    <3>2. CASE k = n + 1
      <4>1. merged'[k] = e
        BY <1>12, <3>2
      <4>2. /\ merged'[k].set = s /\ merged'[k].family = source'[s].families[x].family
            /\ merged'[k].max = source'[s].families[x].max /\ merged'[k].start = Start(s, x)'
        BY <1>2, <1>5, <1>9, <1>23, <4>1 DEF Fixed, row
      <4>3. x \in DOMAIN source'[merged'[k].set].families
        BY <1>2, <1>5, <4>2 DEF Fixed
      <4>5. Moved(merged[k].set, x, merged[k])'
        BY <4>2 DEF Moved
      <4>4. merged'[k].start + merged'[k].max <= next'
        <5> HIDE DEF row
        <5>1. row.max \in Nat
          BY <1>6
        <5> QED
          BY <1>7, <1>9, <4>1, <5>1
      <4> QED
        BY <4>3, <4>4, <4>5
    <3> QED
      BY <1>13, <3>1, <3>2
  <2>2. ASSUME NEW k \in DOMAIN merged', NEW l \in DOMAIN merged', k < l
        PROVE  /\ merged'[k].start + merged'[k].max <= merged'[l].start
               /\ merged'[k].set # merged'[l].set \/ merged'[k].family # merged'[l].family
    <3>1. CASE k \in 1 .. n /\ l \in 1 .. n
      BY <1>3, <1>7, <1>12, <2>2, <3>1 DEF Listed
    <3>2. CASE k \in 1 .. n /\ l = n + 1
      <4>1. PICK i \in DOMAIN source[merged[k].set].families :
                /\ Moved(merged[k].set, i, merged[k])
                /\ <<merged[k].set, i>> # <<s, x>>
        BY <1>24, <3>2
      <4>2. merged[k].set = s => merged[k].family # f
        BY <1>6, <4>1 DEF Moved
      <4> QED
        BY <1>9, <1>12, <1>24, <3>2, <4>2
    <3>3. CASE k = n + 1
      BY <1>7, <1>12, <2>2, <3>3
    <3> QED
      BY <1>13, <3>1, <3>2, <3>3
  <2>3. ASSUME NEW t \in Sets, NEW i \in DOMAIN source'[t].families, Start(t, i)' # NoBit
        PROVE  (\E k \in DOMAIN merged : Moved(t, i, merged[k]))'
    <3>1. CASE <<t, i>> = <<s, x>>
      <4>1. t = s /\ i = x /\ n + 1 \in DOMAIN merged'
        BY <1>7, <1>12, <3>1
      <4>2. /\ merged'[n + 1].set = s /\ merged'[n + 1].family = source'[s].families[x].family
            /\ merged'[n + 1].max = source'[s].families[x].max /\ merged'[n + 1].start = Start(s, x)'
        BY <1>2, <1>5, <1>9, <1>12, <1>23 DEF Fixed, row
      <4>3. \E k \in DOMAIN merged' : /\ merged'[k].set = s /\ merged'[k].start = Start(s, x)'
                                      /\ merged'[k].family = source'[s].families[x].family
                                      /\ merged'[k].max = source'[s].families[x].max
        BY <4>1, <4>2
      <4> QED
        BY <4>1, <4>3 DEF Moved
    <3>2. CASE <<t, i>> # <<s, x>>
      <4>1. i \in DOMAIN source[t].families /\ Start(t, i)' = Start(t, i)
        BY <1>1, <1>23, <2>3, <3>2
      <4>2. PICK k \in DOMAIN merged : Moved(t, i, merged[k])
        BY <1>3, <2>3, <4>1 DEF Listed
      <4>3. Moved(t, i, merged[k])'
        BY <1>1, <1>7, <1>12, <4>1, <4>2 DEF Moved
      <4>4. k \in DOMAIN merged'
        BY <1>7, <1>12
      <4> QED
        BY <4>3, <4>4
    <3> QED
      BY <3>1, <3>2
  <2>4. \A t \in Sets : \A i \in DOMAIN source'[t].families :
            Start(t, i)' # NoBit => (\E k \in DOMAIN merged : Moved(t, i, merged[k]))'
    BY <2>3
  <2> QED
    BY <2>1, <2>2, <2>4 DEF Listed
<1>26. Neighbours'
  <2> SUFFICES ASSUME NEW k \in DOMAIN merged', NEW l \in DOMAIN merged', k < l,
                      merged'[k].family = merged'[l].family,
                      group'[merged'[k].set] = group'[merged'[l].set]
               PROVE  /\ merged'[l - 1].family = merged'[l].family
                      /\ merged'[l - 1].start + merged'[l - 1].max = merged'[l].start
    BY DEF Neighbours
  <2>1. CASE k \in 1 .. n /\ l \in 1 .. n
    <3>1. l - 1 \in 1 .. n
      BY <1>7, <2>1
    <3>2. merged'[k] = merged[k] /\ merged'[l] = merged[l] /\ merged'[l - 1] = merged[l - 1]
      BY <1>12, <2>1, <3>1
    <3>3. merged[k].family = merged[l].family /\ group[merged[k].set] = group[merged[l].set]
      BY <1>2, <3>2 DEF Fixed
    <3>4. k \in DOMAIN merged /\ l \in DOMAIN merged
      BY <1>7, <2>1
    <3>5. /\ merged[l - 1].family = merged[l].family
          /\ merged[l - 1].start + merged[l - 1].max = merged[l].start
      BY <1>3, <3>3, <3>4 DEF Neighbours
    <3> QED
      BY <3>2, <3>5
  <2>2. CASE k \in 1 .. n /\ l = n + 1
    <3>1. merged[k].family = f /\ group[merged[k].set] = at
      BY <1>1, <1>4, <1>9, <1>12, <2>2
    <3>2. PICK i \in DOMAIN source[merged[k].set].families : Moved(merged[k].set, i, merged[k])
      BY <1>24, <2>2
    <3>3. ~Alone(merged[k].set) /\ Start(merged[k].set, i) # NoBit
      BY <1>7, <1>11, <1>24, <2>2, <3>1, <3>2 DEF Moved
    <3>4. block[<<merged[k].set, f>>] # NoBit
      BY <3>1, <3>2, <3>3 DEF Start, Moved
    <3>5. family = f /\ family # NoFamily
      BY <1>1, <1>3, <1>7, <1>24, <2>2, <3>1, <3>4 DEF FamilyTurn
    <3>6. merged[n].family = f /\ merged[n].start + merged[n].max = next /\ n \in 1 .. n
      BY <1>3, <1>7, <2>2, <3>5 DEF FamilyTurn, n
    <3>7. l - 1 = n /\ merged'[l - 1] = merged[n] /\ merged'[l] = e
      BY <1>7, <1>12, <2>2, <3>6
    <3> QED
      BY <1>9, <3>6, <3>7
  <2>3. CASE k = n + 1
    BY <1>7, <1>12, <2>3
  <2> QED
    BY <1>13, <2>1, <2>2, <2>3
<1>27. Copies'
  <2>1. copied' = {}
    BY <1>1, <1>4, NothingCopied
  <2> QED
    BY <2>1 DEF Copies
<1> QED
  BY <1>14, <1>15, <1>17, <1>18, <1>22, <1>25, <1>26, <1>27 DEF MergeInv

(***************************************************************************)
(* The invariant, and what follows from it                                 *)
(***************************************************************************)
\* Every step keeps the invariant.
LEMMA StepInv == MergeInv /\ [Next]_vars => MergeInv'
<1> SUFFICES ASSUME MergeInv, [Next]_vars PROVE MergeInv'
  OBVIOUS
<1>1. ASSUME NEW s \in Sets, Group(s) PROVE MergeInv'
  BY <1>1, GroupStep
<1>2. ASSUME NEW s \in Sets, PlaceSet(s) PROVE MergeInv'
  <2>1. CASE Fits(source[s].span)
    BY <1>2, <2>1, PlaceSetStep
  <2>2. CASE ~Fits(source[s].span)
    <3>1. Overflow /\ group[s] = at /\ Grouped
      BY <1>2, <2>2 DEF PlaceSet
    <3> QED
      BY <3>1, OverflowStep
  <2> QED
    BY <2>1, <2>2
<1>3. ASSUME NEW s \in Sets, NEW f \in Families, PlaceRow(s, f) PROVE MergeInv'
  <2>1. CASE Fits(source[s].families[RowOf(s, f)].max)
    BY <1>3, <2>1, PlaceRowStep
  <2>2. CASE ~Fits(source[s].families[RowOf(s, f)].max)
    <3>1. Overflow /\ Grouped /\ <<s, f>> \in Unplaced
      BY <1>3, <2>2 DEF PlaceRow
    <3>2. group[s] = at
      BY <3>1 DEF Unplaced
    <3> QED
      BY <3>1, <3>2, OverflowStep
  <2> QED
    BY <2>1, <2>2
<1>4. ASSUME NEW r \in Ranges, CopyRange(r) PROVE MergeInv'
  BY <1>4, CopyStep
<1>5. CASE UNCHANGED vars
  <2> USE <1>5 DEF vars, planVars, copyVars
  <2>1. TypeOK' /\ Groups' /\ Untouched' /\ InTurn'
    BY DEF MergeInv, TypeOK, Groups, Untouched, InTurn, Grouped, Alone, FamiliesOf
  <2>2. Breaks'
    <3>1. Breaks /\ \A j, k \in Sets : Share(j, k)' <=> Share(j, k)
      BY DEF MergeInv, Share, FamiliesOf
    <3> QED
      BY <3>1 DEF Breaks
  <2>3. FamilyTurn'
    BY DEF MergeInv, FamilyTurn, Unplaced, Alone, FamiliesOf
  <2>4. Fixed /\ \A r : RangeTo(r)' = RangeTo(r) /\ RangeEnd(r)' = RangeEnd(r)
    BY DEF RangeTo, RangeEnd, RangeLen, Fixed
  <2>5. Regions'
    BY <2>4, FixedFacts DEF MergeInv, Regions
  <2>6. Listed' /\ Neighbours'
    BY DEF MergeInv, Listed, Neighbours, Moved, Start, Alone
  <2>7. Copies'
    <3>1. (Planned' <=> Planned) /\ \A r, d : Copied(r, d)' = Copied(r, d)
      BY <2>4, FixedFacts DEF Planned, Copied
    <3> QED
      BY <2>4, <3>1, FixedFacts DEF MergeInv, Copies
  <2> QED
    BY <2>1, <2>2, <2>3, <2>5, <2>6, <2>7 DEF MergeInv
<1> QED
  BY <1>1, <1>2, <1>3, <1>4, <1>5 DEF Next

\* The invariant of the merge holds whatever the sets share and in whatever order they are
\* given, also when the bit space runs out.
THEOREM MergeInvariant == Spec => []MergeInv
<1> QED
  BY InitInv, StepInv, PTL DEF Spec

\* In a plan that is finished every bit of a card goes with its family.
LEMMA PlannedBit ==
    ASSUME MergeInv, Planned, NEW s \in Sets, NEW i \in DOMAIN source[s].families,
           NEW b \in source[s].families[i].start ..
                     source[s].families[i].start + source[s].families[i].max - 1
    PROVE  /\ Start(s, i) \in Nat
           /\ mapping[s][b] = Start(s, i) + (b - source[s].families[i].start)
           /\ \E r \in Ranges :
                /\ r[1] = s /\ RangeTo(r) \in Nat
                /\ b \in RangeFrom(r) .. RangeFrom(r) + RangeLen(r) - 1
                /\ mapping[s][b] = RangeTo(r) + (b - RangeFrom(r))
<1> DEFINE row == source[s].families[i]
<1>1. TypeOK /\ Regions /\ source \in Sources
  BY DEF MergeInv, TypeOK
<1>2. /\ i \in Nat \ {0} /\ row.start \in Nat /\ row.max \in Nat /\ source[s].span \in Nat
      /\ row.start + row.max <= source[s].span
  <2>1. /\ i \in Nat \ {0} /\ row.start \in Bit /\ row.max \in 1 .. MaxBit /\ source[s].span \in Bit
        /\ row.start + row.max <= source[s].span
    BY <1>1, RowFacts
  <2> QED
    BY <2>1, MaxBitAssumption DEF Bit
<1>3. \A r \in Ranges : /\ RangeTo(r) \in Nat /\ RangeTo(r) # NoBit
                        /\ \A c \in RangeFrom(r) .. RangeFrom(r) + RangeLen(r) - 1 :
                                mapping[r[1]][c] = RangeTo(r) + (c - RangeFrom(r))
  <2> SUFFICES ASSUME NEW r \in Ranges
               PROVE  /\ RangeTo(r) \in Nat /\ RangeTo(r) # NoBit
                      /\ \A c \in RangeFrom(r) .. RangeFrom(r) + RangeLen(r) - 1 :
                                mapping[r[1]][c] = RangeTo(r) + (c - RangeFrom(r))
    OBVIOUS
  <2>1. RangeTo(r) # NoBit
    BY PlannedPlaced
  <2>2. RangeTo(r) \in Nat
    BY <1>1, <2>1, RangeTypes, MaxBitAssumption DEF Bit
  <2> QED
    BY <1>1, <2>1, <2>2 DEF Regions
<1>4. CASE Alone(s)
  <2>1. <<s, 0>> \in Ranges /\ <<s, 0>>[1] = s
    BY <1>4, RangeKinds
  <2>2. RangeFrom(<<s, 0>>) = 0 /\ RangeLen(<<s, 0>>) = source[s].span /\ RangeTo(<<s, 0>>) = base[s]
    BY <1>1, WholeRange
  <2>3. b \in 0 .. 0 + source[s].span - 1 /\ b \in Int
    BY <1>2
  <2>4. base[s] \in Nat /\ base[s] # NoBit /\ mapping[s][b] = base[s] + (b - 0)
    BY <1>3, <2>1, <2>2, <2>3
  <2>5. Start(s, i) = base[s] + row.start
    BY <1>4, <2>4 DEF Start
  <2>6. Start(s, i) \in Nat /\ mapping[s][b] = Start(s, i) + (b - row.start)
    BY <1>2, <2>3, <2>4, <2>5
  <2> QED
    BY <2>1, <2>2, <2>3, <2>4, <2>6
<1>5. CASE ~Alone(s)
  <2>1. <<s, i>> \in Ranges /\ <<s, i>>[1] = s
    BY <1>5, RangeKinds
  <2>2. /\ RangeFrom(<<s, i>>) = row.start /\ RangeLen(<<s, i>>) = row.max
        /\ RangeTo(<<s, i>>) = block[<<s, row.family>>]
    BY <1>1, FamilyRange
  <2>3. Start(s, i) = RangeTo(<<s, i>>)
    BY <1>5, <2>2 DEF Start
  <2> QED
    BY <1>3, <2>1, <2>2, <2>3
<1> QED
  BY <1>4, <1>5

\* SourcesDecode for any sources: a merged index decodes, looks up and resolves every card of
\* every source, and the card has the same reference as before.
THEOREM MergedCardsDecode == Spec => []SourcesDecode
<1>1. MergeInv => SourcesDecode
  <2> SUFFICES ASSUME MergeInv, Planned, NEW s \in Sets, NEW i \in DOMAIN source[s].families,
                      NEW uid \in 1 .. source[s].families[i].max
               PROVE  LET row == source[s].families[i]
                      IN  \E bit \in Remapped(s, {row.start + uid - 1}) :
                            /\ Decodes(merged, bit, Ref(row, uid))
                            /\ LooksUp(merged, Ref(row, uid), bit)
                            /\ Resolves(merged, Ref(row, uid), bit)
    BY DEF SourcesDecode
  <2> DEFINE row == source[s].families[i]
             bit == Start(s, i) + uid - 1
             ref == Ref(row, uid)
  <2>1. TypeOK /\ Listed /\ source \in Sources
    BY DEF MergeInv, TypeOK
  <2>2. /\ row.set = s /\ row.start \in Nat /\ row.max \in Nat /\ uid \in Nat /\ 1 <= uid /\ uid <= row.max
        /\ MaxBit \in Nat /\ NoBit \notin Nat
    <3>1. row.set = s /\ row.start \in Bit /\ row.max \in 1 .. MaxBit
      BY <2>1, RowFacts
    <3> QED
      BY <3>1, MaxBitAssumption, MergeAssumption DEF Bit
  <2>3. /\ Start(s, i) \in Nat
        /\ mapping[s][row.start + uid - 1] = Start(s, i) + (row.start + uid - 1 - row.start)
    <3> DEFINE b == row.start + uid - 1
    <3>1. b \in row.start .. row.start + row.max - 1
      BY <2>2
    <3> HIDE DEF b
    <3>2. Start(s, i) \in Nat /\ mapping[s][b] = Start(s, i) + (b - row.start)
      BY <3>1, PlannedBit
    <3> QED
      BY <2>2, <3>2 DEF b
  <2> HIDE DEF row
  <2>4. bit \in Nat /\ mapping[s][row.start + uid - 1] = bit
    BY <2>2, <2>3
  <2>5. bit \in Remapped(s, {row.start + uid - 1})
    BY <2>2, <2>4 DEF Remapped
  <2>6. PICK k \in DOMAIN merged : Moved(s, i, merged[k])
    BY <2>1, <2>2, <2>3 DEF Listed
  <2>7. /\ merged[k].set = s /\ merged[k].family = row.family /\ merged[k].max = row.max
        /\ merged[k].start = Start(s, i)
    BY <2>6 DEF Moved, row
  <2>8. /\ merged[k].start + merged[k].max <= MaxBit
        /\ ref.set = s /\ ref.family = row.family /\ ref.uid = uid
    <3>1. merged[k].start + merged[k].max <= next /\ next \in Nat /\ next <= MaxBit
      BY <2>1, MaxBitAssumption DEF Listed, TypeOK, Bit
    <3> QED
      BY <2>2, <2>3, <2>7, <3>1 DEF Ref
  <2>9. /\ DOMAIN merged = 1 .. Len(merged) /\ Len(merged) \in Nat
        /\ \A l \in DOMAIN merged : l \in Nat /\ merged[l].start \in Nat /\ merged[l].max \in Nat
    <3>1. merged \in Seq(Entry)
      BY <2>1 DEF TypeOK
    <3>2. \A l \in DOMAIN merged : l \in Nat /\ merged[l] \in Entry
      BY <3>1
    <3>3. ASSUME NEW l \in DOMAIN merged PROVE merged[l].start \in Nat /\ merged[l].max \in Nat
      <4>1. merged[l].start \in Bit /\ merged[l].max \in 1 .. MaxBit
        BY <3>2 DEF Entry
      <4> QED
        BY <2>2, <4>1 DEF Bit
    <3> QED
      BY <3>1, <3>2, <3>3
  <2>10. Decodes(merged, bit, ref)
    <3>1. \A l \in DOMAIN merged : merged[l].start <= bit => l <= k
      <4> SUFFICES ASSUME NEW l \in DOMAIN merged, k < l PROVE ~(merged[l].start <= bit)
        BY <2>9
      <4>1. merged[k].start + merged[k].max <= merged[l].start
        BY <2>1 DEF Listed
      <4> QED
        BY <2>2, <2>3, <2>7, <2>9, <4>1
    <3>2. merged[k].start <= bit /\ bit - merged[k].start + 1 = uid
      BY <2>2, <2>3, <2>7
    <3>3. ref = Ref(merged[k], uid)
      BY <2>2, <2>7 DEF Ref
    <3> QED
      BY <2>2, <2>7, <3>1, <3>2, <3>3 DEF Decodes
  <2>11. BitOf(merged[k], uid) = bit
    <3>1. bit >= 0 /\ bit <= MaxBit
      BY <2>2, <2>3, <2>7, <2>8
    <3>2. BitOf(merged[k], uid) = U32(bit)
      BY <2>7 DEF BitOf
    <3> HIDE DEF bit
    <3>3. U32(bit) = bit
      BY <2>2, <2>4, <3>1 DEF U32
    <3> QED
      BY <3>2, <3>3
  <2>12. Matching(merged, ref) = {k}
    <3>1. k \in Matching(merged, ref)
      BY <2>7, <2>8 DEF Matching
    <3>2. ASSUME NEW l \in Matching(merged, ref) PROVE l = k
      <4>1. l \in DOMAIN merged /\ merged[l].family = merged[k].family /\ merged[l].set = merged[k].set
        BY <2>7, <2>8 DEF Matching
      <4>2. ~(l < k) /\ ~(k < l)
        BY <2>1, <4>1 DEF Listed
      <4> QED
        BY <2>9, <4>1, <4>2
    <3> QED
      BY <3>1, <3>2
  <2>13. LooksUp(merged, ref, bit)
    BY <2>2, <2>7, <2>8, <2>11, <2>12 DEF LooksUp
  <2>14. Resolves(merged, ref, bit)
    BY <2>2, <2>7, <2>8, <2>9, <2>11, <2>12 DEF Resolves
  <2> QED
    BY <2>5, <2>10, <2>13, <2>14 DEF row
<1> QED
  BY <1>1, MergeInvariant, PTL

\* RowsFollowBits for any sources: the copied cards.bin has each card's row where the plan has
\* the card's bit.
THEOREM RowsAreWhereBitsAre == Spec => []RowsFollowBits
<1>1. MergeInv => RowsFollowBits
  <2> SUFFICES ASSUME MergeInv, Done, NEW s \in Sets, NEW b \in BitsOf(s)
               PROVE  \E bit \in Remapped(s, {b}) : bit \in DOMAIN rows /\ rows[bit] = <<s, b>>
    BY DEF RowsFollowBits
  <2>1. Planned /\ copied = Ranges /\ Copies /\ TypeOK
    BY DEF Done, MergeInv
  <2>2. PICK i \in DOMAIN source[s].families :
            b \in source[s].families[i].start ..
                  source[s].families[i].start + source[s].families[i].max - 1
    BY DEF BitsOf
  <2>3. PICK r \in Ranges : /\ r[1] = s /\ RangeTo(r) \in Nat
                            /\ b \in RangeFrom(r) .. RangeFrom(r) + RangeLen(r) - 1
                            /\ mapping[s][b] = RangeTo(r) + (b - RangeFrom(r))
    BY <2>1, <2>2, PlannedBit
  <2>4. RangeFrom(r) \in Nat /\ RangeLen(r) \in Nat /\ NoBit \notin Nat
    BY <2>1, RangeTypes, MaxBitAssumption, MergeAssumption DEF Bit
  <2> DEFINE bit == RangeTo(r) + (b - RangeFrom(r))
  <2>5. bit \in Nat /\ bit \in RangeTo(r) .. RangeEnd(r) - 1 /\ RangeFrom(r) + (bit - RangeTo(r)) = b
    BY <2>3, <2>4 DEF RangeEnd
  <2>6. bit \in DOMAIN rows /\ rows[bit] = Copied(r, bit)
    BY <2>1, <2>5 DEF Copies
  <2>7. Copied(r, bit) = <<s, b>>
    BY <2>3, <2>5 DEF Copied
  <2>8. bit \in Remapped(s, {b})
    BY <2>3, <2>4, <2>5 DEF Remapped
  <2> QED
    BY <2>6, <2>7, <2>8
<1> QED
  BY <1>1, MergeInvariant, PTL

\* ListedOnceIfChained for any sets in any order: chained sets are in one group, and in a
\* group a family's entries are neighbours, so it begins once.
THEOREM ChainedListedOnce == Spec => []ListedOnceIfChained
<1>1. MergeInv => ListedOnceIfChained
  <2> SUFFICES ASSUME MergeInv, Planned, NEW k \in SpanHeads(merged), NEW l \in SpanHeads(merged),
                      merged[k].family = merged[l].family, Chained(merged[k].set, merged[l].set)
               PROVE  k = l
    BY DEF ListedOnceIfChained
  <2>1. TypeOK /\ Groups /\ Breaks /\ Neighbours
    BY DEF MergeInv
  <2>2. /\ \A j \in DOMAIN merged : j \in Nat /\ merged[j] \in Entry
        /\ k \in DOMAIN merged /\ l \in DOMAIN merged
        /\ 1 <= k /\ 1 <= l
    <3>1. merged \in Seq(Entry)
      BY <2>1 DEF TypeOK
    <3> QED
      BY <3>1 DEF SpanHeads
  <2>3. merged[k].set \in Sets /\ merged[l].set \in Sets
    BY <2>2 DEF Entry
  <2>4. PICK a \in Sets :
            /\ Pos[a] <= Pos[merged[k].set] /\ Pos[a] <= Pos[merged[l].set]
            /\ \A j \in Sets : Pos[a] < Pos[j] /\ (Pos[j] <= Pos[merged[k].set] \/ Pos[j] <= Pos[merged[l].set])
                    => \E h \in Sets : Pos[a] <= Pos[h] /\ Pos[h] < Pos[j] /\ Share(h, j)
    BY DEF Chained
  <2>5. ASSUME NEW t \in Sets, t = merged[k].set \/ t = merged[l].set
        PROVE  group[t] = group[a]
    <3> SUFFICES ASSUME group[t] # group[a] PROVE FALSE
      OBVIOUS
    <3>1. Pos[a] < Pos[t]
      <4>1. Pos[a] <= Pos[t] /\ Pos[a] \in Nat /\ Pos[t] \in Nat /\ (Pos[a] = Pos[t] => a = t)
        BY <2>4, <2>5, MergeAssumption
      <4> QED
        BY <4>1
    <3>2. group[t] # 0
      BY DEF Planned, Grouped
    <3>3. PICK j \in Sets : /\ Pos[a] < Pos[j] /\ Pos[j] <= Pos[t]
                            /\ \A h \in Sets : Pos[a] <= Pos[h] /\ Pos[h] < Pos[j] => ~Share(h, j)
      BY <2>1, <3>1, <3>2 DEF Breaks
    <3> QED
      BY <2>4, <2>5, <3>3
  <2>6. group[merged[k].set] = group[merged[l].set]
    BY <2>3, <2>5
  <2>7. ASSUME NEW i \in SpanHeads(merged), NEW j \in SpanHeads(merged), i < j, i >= 1,
               i \in DOMAIN merged, j \in DOMAIN merged,
               merged[i].family = merged[j].family, group[merged[i].set] = group[merged[j].set]
        PROVE  FALSE
    <3>1. /\ merged[j - 1].family = merged[j].family
          /\ merged[j - 1].start + merged[j - 1].max = merged[j].start
      BY <2>1, <2>7 DEF Neighbours
    <3>2. j # 1
      BY <2>2, <2>7
    <3> QED
      BY <3>1, <3>2 DEF SpanHeads
  <2>8. ~(k < l) /\ ~(l < k)
    BY <2>2, <2>6, <2>7
  <2> QED
    BY <2>2, <2>8
<1> QED
  BY <1>1, MergeInvariant, PTL

(***************************************************************************)
(* What the readers of a catalog take for granted                          *)
(***************************************************************************)
SourcesTile == \A s \in Sets : Tiles(source[s].families, source[s].span)

\* The families of the sources that have a place leave no bit below next to none.
Filled == \A bit \in 0 .. next - 1 : \E s \in Sets : \E i \in DOMAIN source[s].families :
                /\ Start(s, i) # NoBit
                /\ bit \in Start(s, i) .. Start(s, i) + source[s].families[i].max - 1

LEMMA FilledSet ==
    ASSUME MergeInv, SourcesTile, Filled, NEW s \in Sets, PlaceSet(s), Fits(source[s].span)
    PROVE  Filled'
<1>1. /\ group[s] = at /\ Alone(s)
      /\ base' = [base EXCEPT ![s] = next] /\ next' = next + source[s].span
      /\ UNCHANGED <<source, group, block>>
  BY DEF PlaceSet
<1>2. TypeOK /\ InTurn
  BY DEF MergeInv
<1>3. /\ next \in Nat /\ source[s].span \in Nat /\ NoBit \notin Nat /\ base \in [Sets -> Bit \cup {NoBit}]
      /\ at \in Nat
  <2>1. source \in Sources /\ next \in Bit /\ at \in Nat /\ base \in [Sets -> Bit \cup {NoBit}]
    BY <1>2 DEF TypeOK
  <2>2. source[s].span \in Bit
    BY <2>1, RowFacts
  <2>3. NoBit \notin Nat
    BY MergeAssumption, MaxBitAssumption
  <2> QED
    BY <2>1, <2>2, <2>3 DEF Bit
<1>4. base[s] = NoBit
  BY <1>1, <1>2, <1>3 DEF InTurn
<1>5. \A t : Alone(t)' <=> Alone(t)
  BY <1>1 DEF Alone
<1>6. \A t \in Sets : \A i \in DOMAIN source[t].families : Start(t, i) # NoBit => Start(t, i)' = Start(t, i)
  <2> SUFFICES ASSUME NEW t \in Sets, NEW i \in DOMAIN source[t].families, Start(t, i) # NoBit
               PROVE  Start(t, i)' = Start(t, i)
    OBVIOUS
  <2>1. t # s
    BY <1>1, <1>4 DEF Start
  <2> QED
    BY <1>1, <1>3, <1>5, <2>1 DEF Start
<1>7. \A i \in DOMAIN source[s].families : Start(s, i)' = next + source[s].families[i].start
  <2>1. base'[s] = next /\ base'[s] # NoBit
    BY <1>1, <1>3
  <2> QED
    BY <1>1, <1>5, <2>1 DEF Start
<1> SUFFICES ASSUME NEW bit \in 0 .. next' - 1
             PROVE  \E t \in Sets : \E i \in DOMAIN source[t].families :
                        /\ Start(t, i)' # NoBit
                        /\ bit \in Start(t, i)' .. Start(t, i)' + source[t].families[i].max - 1
  BY <1>1 DEF Filled
<1>8. CASE bit \in 0 .. next - 1
  BY <1>6, <1>8 DEF Filled
<1>9. CASE bit \notin 0 .. next - 1
  <2>1. bit - next \in 0 .. source[s].span - 1 /\ bit \in Int
    BY <1>1, <1>3, <1>9
  <2>2. PICK i \in DOMAIN source[s].families : bit - next \in SpanOf(source[s].families[i])
    BY <2>1 DEF SourcesTile, Tiles
  <2>3. source[s].families[i].start \in Nat /\ source[s].families[i].max \in Nat
    <3>1. source \in Sources
      BY <1>2 DEF TypeOK
    <3>2. source[s].families[i].start \in Bit /\ source[s].families[i].max \in 1 .. MaxBit
      BY <3>1, RowFacts
    <3> QED
      BY <3>2 DEF Bit
  <2>4. next + source[s].families[i].start \in Nat
    BY <1>3, <2>3
  <2>5. bit \in next + source[s].families[i].start .. next + source[s].families[i].start + source[s].families[i].max - 1
    <3> DEFINE start == source[s].families[i].start
               max == source[s].families[i].max
    <3>1. bit - next \in start .. start + max - 1
      BY <2>2 DEF SpanOf
    <3> HIDE DEF start, max
    <3>2. start \in Nat /\ max \in Nat
      BY <2>3 DEF start, max
    <3>3. bit \in next + start .. next + start + max - 1
      BY <1>3, <2>1, <3>1, <3>2
    <3> QED
      BY <3>3 DEF start, max
  <2> QED
    BY <1>3, <1>7, <2>4, <2>5
<1> QED
  BY <1>8, <1>9

LEMMA FilledRow ==
    ASSUME MergeInv, Filled, NEW s \in Sets, NEW f \in Families, PlaceRow(s, f),
           Fits(source[s].families[RowOf(s, f)].max)
    PROVE  Filled'
<1>0. PICK k : k = RowOf(s, f)
  OBVIOUS
<1>1. PICK max : max = source[s].families[k].max
  OBVIOUS
<1>2. /\ <<s, f>> \in Unplaced /\ ~Alone(s)
      /\ block' = [block EXCEPT ![<<s, f>>] = next] /\ next' = next + max
      /\ UNCHANGED <<source, group, base>>
  BY <1>0, <1>1 DEF PlaceRow
<1>3. TypeOK
  BY DEF MergeInv
<1>4. f \in FamiliesOf(s) /\ block[<<s, f>>] = NoBit
  BY <1>2 DEF Unplaced
<1>5. k \in DOMAIN source[s].families /\ source[s].families[k].family = f
  BY <1>0, <1>3, <1>4, RowOfFamily DEF TypeOK
<1>6. next \in Nat /\ NoBit \notin Nat /\ block \in [Blocks -> Bit \cup {NoBit}]
  BY <1>3, MergeAssumption DEF TypeOK, Bit
<1>7. max \in Nat
  <2>1. source \in Sources
    BY <1>3 DEF TypeOK
  <2>2. max \in 1 .. MaxBit
    BY <1>1, <1>5, <2>1, RowFacts
  <2> QED
    BY <2>2
<1>8. \A t : Alone(t)' <=> Alone(t)
  BY <1>2 DEF Alone
<1>9. \A t \in Sets : \A i \in DOMAIN source[t].families : Start(t, i) # NoBit => Start(t, i)' = Start(t, i)
  <2> SUFFICES ASSUME NEW t \in Sets, NEW i \in DOMAIN source[t].families, Start(t, i) # NoBit
               PROVE  Start(t, i)' = Start(t, i)
    OBVIOUS
  <2>1. CASE Alone(t)
    BY <1>2, <1>8, <2>1 DEF Start
  <2>2. CASE ~Alone(t)
    <3>1. <<t, source[t].families[i].family>> # <<s, f>>
      BY <1>4, <2>2 DEF Start
    <3>2. block'[<<t, source[t].families[i].family>>] = block[<<t, source[t].families[i].family>>]
      <4>1. <<t, source[t].families[i].family>> \in Blocks
        BY <1>3, RowFacts DEF TypeOK, Blocks
      <4> QED
        BY <1>2, <1>6, <3>1, <4>1
    <3> QED
      BY <1>2, <1>8, <2>2, <3>2 DEF Start
  <2> QED
    BY <2>1, <2>2
<1>10. Start(s, k)' = next /\ Start(s, k)' # NoBit
  <2>1. <<s, f>> \in Blocks
    BY DEF Blocks
  <2>2. block'[<<s, f>>] = next
    BY <1>2, <1>6, <2>1
  <2>3. source'[s].families[k].family = f /\ ~Alone(s)'
    BY <1>2, <1>5, <1>8
  <2>4. Start(s, k)' = block'[<<s, f>>]
    BY <2>3 DEF Start
  <2> QED
    BY <1>6, <2>2, <2>4
<1> SUFFICES ASSUME NEW bit \in 0 .. next' - 1
             PROVE  \E t \in Sets : \E i \in DOMAIN source[t].families :
                        /\ Start(t, i)' # NoBit
                        /\ bit \in Start(t, i)' .. Start(t, i)' + source[t].families[i].max - 1
  BY <1>2 DEF Filled
<1>11. CASE bit \in 0 .. next - 1
  BY <1>9, <1>11 DEF Filled
<1>12. CASE bit \notin 0 .. next - 1
  <2>1. bit \in next .. next + max - 1
    BY <1>2, <1>6, <1>7, <1>12
  <2>2. bit \in Start(s, k)' .. Start(s, k)' + source[s].families[k].max - 1
    BY <1>1, <1>10, <2>1
  <2> QED
    BY <1>5, <1>10, <2>2
<1> QED
  BY <1>11, <1>12

LEMMA FilledStep ==
    ASSUME MergeInv, SourcesTile => Filled, [Next]_vars
    PROVE  (SourcesTile => Filled)'
<1>1. source' = source
  BY DEF Next, Group, PlaceSet, PlaceRow, CopyRange, Overflow, vars
<1> SUFFICES ASSUME SourcesTile, Filled PROVE Filled'
  BY <1>1 DEF SourcesTile
<1>2. CASE UNCHANGED <<group, base, block, next>>
  BY <1>1, <1>2 DEF Filled, Start, Alone
<1>3. ASSUME NEW s \in Sets, Group(s) PROVE Filled'
  <2>1. next' = 0
    BY <1>3 DEF Group, planVars, MergeInv, Untouched, Grouped
  <2> QED
    BY <2>1 DEF Filled
<1>4. ASSUME NEW s \in Sets, PlaceSet(s) PROVE Filled'
  <2>1. CASE Fits(source[s].span)
    BY <1>4, <2>1, FilledSet
  <2>2. CASE ~Fits(source[s].span)
    BY <1>2, <1>4, <2>2 DEF PlaceSet, Overflow, planVars
  <2> QED
    BY <2>1, <2>2
<1>5. ASSUME NEW s \in Sets, NEW f \in Families, PlaceRow(s, f) PROVE Filled'
  <2>1. CASE Fits(source[s].families[RowOf(s, f)].max)
    BY <1>5, <2>1, FilledRow
  <2>2. CASE ~Fits(source[s].families[RowOf(s, f)].max)
    BY <1>2, <1>5, <2>2 DEF PlaceRow, Overflow, planVars
  <2> QED
    BY <2>1, <2>2
<1>6. CASE (\E r \in Ranges : CopyRange(r)) \/ UNCHANGED vars
  BY <1>2, <1>6 DEF CopyRange, vars, planVars
<1> QED
  BY <1>3, <1>4, <1>5, <1>6 DEF Next

\* From sources that fill their spans, family after family, the merge makes a catalog that does:
\* what the readers of an index, and the queries over it, take for granted.
THEOREM MergeTiles == Spec => [](SourcesTile => Tiles(merged, next) /\ next \in 0 .. MaxBit)
<1>1. Init => (SourcesTile => Filled)
  BY DEF Init, Filled
<1>2. MergeInv /\ (SourcesTile => Filled) /\ [Next]_vars => (SourcesTile => Filled)'
  BY FilledStep
<1>3. MergeInv /\ (SourcesTile => Filled) => (SourcesTile => Tiles(merged, next) /\ next \in 0 .. MaxBit)
  <2> SUFFICES ASSUME MergeInv, Filled PROVE Tiles(merged, next) /\ next \in 0 .. MaxBit
    OBVIOUS
  <2>1. Listed /\ next \in 0 .. MaxBit
    BY DEF MergeInv, TypeOK, Bit
  <2>2. ASSUME NEW bit \in 0 .. next - 1 PROVE \E k \in DOMAIN merged : bit \in SpanOf(merged[k])
    <3>1. PICK s \in Sets : \E i \in DOMAIN source[s].families :
                /\ Start(s, i) # NoBit
                /\ bit \in Start(s, i) .. Start(s, i) + source[s].families[i].max - 1
      BY DEF Filled
    <3>2. PICK i \in DOMAIN source[s].families :
                /\ Start(s, i) # NoBit
                /\ bit \in Start(s, i) .. Start(s, i) + source[s].families[i].max - 1
      BY <3>1
    <3>3. PICK k \in DOMAIN merged : Moved(s, i, merged[k])
      BY <2>1, <3>2 DEF Listed
    <3> QED
      BY <3>2, <3>3 DEF Moved, SpanOf
  <2> QED
    BY <2>1, <2>2 DEF Listed, Tiles
<1> QED
  BY <1>1, <1>2, <1>3, MergeInvariant, PTL DEF Spec
==============================================================================
