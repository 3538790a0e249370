--------------------------- MODULE CardQueryProofs ---------------------------
(***************************************************************************)
(* What modules CardQuery and FilterPanel promise, for every dataset,       *)
(* format, collection, request and panel.  The argument, in the order of    *)
(* the sections:                                                            *)
(*                                                                         *)
(* - the stores of build_index after n cards are the union of what each of  *)
(*   the n cards puts into them (Recorded);                                 *)
(* - so, in a snapshot of a whole dataset, one filter's bitmap has the bit  *)
(*   of a card exactly if the card, read alone, passes the filter;          *)
(* - so the intersection of the bitmaps is the answer (AnswerReads);        *)
(* - positions are listed by rank, and what is after a cursor is the rest   *)
(*   of the list (SortedAfter);                                             *)
(* - Inv: what is served is a snapshot of some dataset, and what a client   *)
(*   was told by this snapshot alone is what it still says.  Options and    *)
(*   pages are judged from Inv;                                             *)
(* - PanelInv: what every sequence of edits leaves is a well-formed panel,  *)
(*   of which the server takes the query and finds what the panel says;     *)
(* - filling a box adds one group to the query without its slot, which is   *)
(*   what the server judges the options of the box by (FilledAnswer).       *)
(*                                                                         *)
(* Facts about folds over a sequence are shown for its first k elements, k  *)
(* by k (StepByStep, from the well-foundedness of the natural numbers).     *)
(***************************************************************************)
EXTENDS CardQuery, FilterPanel, FiniteSetTheorems, SequenceTheorems, WellFoundedInduction, TLAPS

(***************************************************************************)
(* Least and greatest                                                      *)
(***************************************************************************)
\* What some number does not have, there is a least number that does not have it.
LEMMA LeastOf ==
    ASSUME NEW T \in SUBSET Nat, T # {}
    PROVE  \E n \in T : \A m \in T : n <= m
<1>1. IsWellFoundedOn(OpToRel(<, Nat), Nat)
  BY NatLessThanWellFounded
<1>2. PICK n \in T : \A m \in T : ~(<<m, n>> \in OpToRel(<, Nat))
  BY <1>1, WFMin, Zenon
<1>3. \A m \in T : ~(m < n)
  BY <1>2 DEF OpToRel
<1> QED
  BY <1>3

\* Induction up to n, for a set of the numbers that have what is to be shown
LEMMA StepByStep ==
    ASSUME NEW n \in Nat, NEW S, 0 \in S, \A k \in 0 .. n - 1 : k \in S => k + 1 \in S
    PROVE  \A k \in 0 .. n : k \in S
<1> DEFINE T == {k \in 0 .. n : k \notin S}
<1>1. SUFFICES ASSUME T # {} PROVE FALSE
  OBVIOUS
<1>2. T \in SUBSET Nat
  OBVIOUS
<1>3. \E k \in T : \A m \in T : k <= m
  <2> HIDE DEF T
  <2> QED
    BY <1>1, <1>2, LeastOf
<1>4. PICK k \in T : \A m \in T : k <= m
  BY <1>3
<1>5. k # 0 /\ k - 1 \in 0 .. n - 1 /\ ~(k <= k - 1) /\ k - 1 + 1 = k
  BY <1>4
<1>6. k - 1 \in S
  BY <1>4, <1>5
<1> QED
  BY <1>4, <1>5, <1>6

LEMMA MaxOf ==
    ASSUME NEW n \in Nat, NEW S \in SUBSET (1 .. n), S # {}
    PROVE  Max(S) \in S /\ \A x \in S : x <= Max(S)
<1> DEFINE T == {n - x : x \in S}
<1>0. \A x \in S : x \in Nat /\ n - x \in Nat
  OBVIOUS
<1>1. T \in SUBSET Nat /\ T # {}
  BY <1>0
<1>2. PICK t \in T : \A u \in T : t <= u
  <2> HIDE DEF T
  <2> QED
    BY <1>1, LeastOf
<1>3. PICK x \in S : t = n - x
  BY <1>2
<1>4. \A y \in S : y <= x
  <2>1. SUFFICES ASSUME NEW y \in S PROVE y <= x
    OBVIOUS
  <2>2. n - x <= n - y
    BY <1>2, <1>3
  <2> QED
    BY <2>2, <1>0
<1>5. \E z \in S : \A y \in S : z >= y
  BY <1>4, <1>0
<1>6. Max(S) \in S /\ \A y \in S : Max(S) >= y
  BY <1>5, Zenon DEF Max
<1> QED
  BY <1>6, <1>0

LEMMA MaxIs ==
    ASSUME NEW n \in Nat, NEW S \in SUBSET (1 .. n), NEW x \in S, \A y \in S : y <= x
    PROVE  Max(S) = x
<1>1. Max(S) \in S /\ \A y \in S : y <= Max(S)
  BY MaxOf
<1>2. \A y \in S : y \in Nat
  OBVIOUS
<1>3. Max(S) <= x /\ x <= Max(S) /\ Max(S) \in Nat /\ x \in Nat
  BY <1>1, <1>2
<1> QED
  BY <1>3

(***************************************************************************)
(* What compact_fields_from_card leaves of a card                          *)
(***************************************************************************)
FactionOf(card) == IF card.faction \in Factions THEN card.faction ELSE "UN"
BlankRecord(card) == [ZeroRecord EXCEPT !.faction = FactionOf(card)]

\* The fold over a card's elements, for every set of positions
Fold(card, h) ==
    h = [s \in SUBSET DOMAIN card.elements |->
            IF s = {} THEN BlankRecord(card) ELSE PackElement(h[s \ {Max(s)}], card.elements[Max(s)])]

LEMMA CompactIsFold == ASSUME NEW card PROVE Compact(card) = (CHOOSE h : Fold(card, h))[DOMAIN card.elements]
BY DEF Compact, FoldLeft, MapThenFoldSet, Fold, BlankRecord, FactionOf

\* There is such a function: it is made of the one for the elements before the last.
LEMMA FoldExists ==
    ASSUME NEW card, card.elements \in Seq(Elements)
    PROVE  \E h : Fold(card, h)
<1> DEFINE e == card.elements
           Upto(k, h) == h = [s \in SUBSET (1 .. k) |->
                                IF s = {} THEN BlankRecord(card) ELSE PackElement(h[s \ {Max(s)}], e[Max(s)])]
           S == {k \in Nat : \E h : Upto(k, h)}
<1>1. Len(e) \in Nat /\ DOMAIN e = 1 .. Len(e)
  OBVIOUS
<1>2. 0 \in S
  <2>1. Upto(0, [s \in SUBSET (1 .. 0) |-> BlankRecord(card)])
    OBVIOUS
  <2> QED
    BY <2>1
<1>3. ASSUME NEW k \in 0 .. Len(e) - 1, k \in S PROVE k + 1 \in S
  <2>1. PICK g : Upto(k, g)
    BY <1>3
  <2> DEFINE h == [s \in SUBSET (1 .. k + 1) |->
                    IF k + 1 \in s THEN PackElement(g[s \ {k + 1}], e[k + 1]) ELSE g[s]]
  <2>2. ASSUME NEW s \in SUBSET (1 .. k + 1), s # {}
        PROVE  h[s] = PackElement(h[s \ {Max(s)}], e[Max(s)])
    <3>1. CASE k + 1 \in s
      <4>1. \A y \in s : y <= k + 1
        OBVIOUS
      <4>2. Max(s) = k + 1
        BY <4>1, <3>1, MaxIs, k + 1 \in Nat
      <4>3. h[s] = PackElement(g[s \ {k + 1}], e[k + 1])
        BY <3>1
      <4>4. h[s \ {k + 1}] = g[s \ {k + 1}]
        OBVIOUS
      <4> QED
        BY <4>2, <4>3, <4>4
    <3>2. CASE k + 1 \notin s
      <4>1. s \in SUBSET (1 .. k)
        BY <3>2
      <4>2. s \ {Max(s)} \in SUBSET (1 .. k)
        BY <4>1
      <4>3. g[s] = PackElement(g[s \ {Max(s)}], e[Max(s)])
        BY <2>1, <4>1, <2>2
      <4>4. h[s] = g[s] /\ h[s \ {Max(s)}] = g[s \ {Max(s)}]
        BY <4>1, <4>2, <3>2
      <4> QED
        BY <4>3, <4>4
    <3> QED
      BY <3>1, <3>2
  <2>3. h[{}] = BlankRecord(card)
    BY <2>1
  <2>4. Upto(k + 1, h)
    BY <2>2, <2>3
  <2>5. k + 1 \in Nat
    OBVIOUS
  <2> QED
    BY <2>4, <2>5
<1>4. \A k \in 0 .. Len(e) : k \in S
  <2> HIDE DEF S, e
  <2> QED
    BY <1>1, <1>2, <1>3, StepByStep
<1>5. Len(e) \in S
  <2>1. Len(e) \in 0 .. Len(e)
    BY <1>1
  <2> HIDE DEF S, e
  <2> QED
    BY <2>1, <1>4
<1> QED
  BY <1>1, <1>5 DEF Fold

\* The elements up to k that give a card a statistic
GivingUpto(card, stat, k) == {i \in 1 .. k : card.elements[i].kind = stat /\ Parses(card.elements[i].value)}

ValueUpto(card, stat, k) ==
    IF GivingUpto(card, stat, k) = {} THEN 0 ELSE card.elements[Max(GivingUpto(card, stat, k))].value

\* What is known of the compact fields after k elements
Holds(card, fields, k) ==
    /\ fields = [faction |-> FactionOf(card), stats |-> fields.stats, lines |-> fields.lines]
    /\ fields.stats = [s \in Stats |-> ValueUpto(card, s, k)]

LEMMA PackHolds ==
    ASSUME NEW card, card.elements \in Seq(Elements), NEW k \in 1 .. Len(card.elements),
           NEW fields, Holds(card, fields, k - 1)
    PROVE  Holds(card, PackElement(fields, card.elements[k]), k)
<1> DEFINE e == card.elements[k]
           new == PackElement(fields, e)
<1>1. \A s \in Stats : GivingUpto(card, s, k) =
            GivingUpto(card, s, k - 1) \cup (IF e.kind = s /\ Parses(e.value) THEN {k} ELSE {})
  BY DEF GivingUpto
<1>2. ASSUME NEW s \in Stats, e.kind = s, Parses(e.value)
      PROVE  ValueUpto(card, s, k) = e.value
  <2>1. k \in GivingUpto(card, s, k) /\ GivingUpto(card, s, k) \in SUBSET (1 .. k)
    BY <1>2 DEF GivingUpto
  <2>2. \A y \in GivingUpto(card, s, k) : y <= k
    BY <2>1
  <2>3. Max(GivingUpto(card, s, k)) = k
    BY <2>1, <2>2, MaxIs, k \in Nat
  <2> QED
    BY <2>1, <2>3 DEF ValueUpto
<1>3. ASSUME NEW s \in Stats, ~(e.kind = s /\ Parses(e.value))
      PROVE  ValueUpto(card, s, k) = ValueUpto(card, s, k - 1)
  BY <1>1, <1>3 DEF ValueUpto
<1>4. "MAIN_EFFECT" \notin Stats /\ "ECHO_EFFECT" \notin Stats
  BY DEF Stats
<1>5. CASE e.kind \in Stats /\ Parses(e.value)
  <2>1. new = [fields EXCEPT !.stats[e.kind] = e.value]
    BY <1>5, <1>4 DEF PackElement
  <2>2. new.stats = [fields.stats EXCEPT ![e.kind] = e.value]
    BY <2>1 DEF Holds
  <2>3. new = [faction |-> FactionOf(card), stats |-> new.stats, lines |-> new.lines]
    BY <2>1 DEF Holds
  <2>4. new.stats = [s \in Stats |-> ValueUpto(card, s, k)]
    BY <2>2, <1>2, <1>3, <1>5 DEF Holds
  <2> QED
    BY <2>3, <2>4 DEF Holds
<1>6. CASE ~(e.kind \in Stats /\ Parses(e.value))
  <2>1. \E ls : new = [fields EXCEPT !.lines = ls] \/ new = fields
    BY <1>6 DEF PackElement
  <2>2. new = [faction |-> FactionOf(card), stats |-> new.stats, lines |-> new.lines]
    BY <2>1 DEF Holds
  <2>3. new.stats = fields.stats
    BY <2>1 DEF Holds
  <2>4. \A s \in Stats : ValueUpto(card, s, k) = ValueUpto(card, s, k - 1)
    BY <1>3, <1>6
  <2> QED
    BY <2>2, <2>3, <2>4 DEF Holds
<1> QED
  BY <1>5, <1>6

\* A card's compact fields have its faction, if that is one, and of each statistic the value
\* of the last element that gives one.
LEMMA CompactReads ==
    ASSUME NEW card, card.elements \in Seq(Elements)
    PROVE  /\ Compact(card).faction = FactionOf(card)
           /\ \A s \in Stats : Compact(card).stats[s] = ValueOf(card, s)
<1> DEFINE e == card.elements
           h == CHOOSE g : Fold(card, g)
           S == {k \in Nat : Holds(card, h[1 .. k], k)}
<1>1. Len(e) \in Nat /\ DOMAIN e = 1 .. Len(e)
  OBVIOUS
<1>2. Fold(card, h)
  BY FoldExists, Zenon
<1> HIDE DEF h
<1>3. 0 \in S
  <2>1. h[1 .. 0] = BlankRecord(card)
    BY <1>2 DEF Fold
  <2>2. BlankRecord(card) = [faction |-> FactionOf(card), stats |-> [s \in Stats |-> 0], lines |-> [l \in Lines |-> NoIds]]
    BY DEF BlankRecord, ZeroRecord
  <2>3. \A s \in Stats : ValueUpto(card, s, 0) = 0
    BY DEF ValueUpto, GivingUpto
  <2> QED
    BY <2>1, <2>2, <2>3 DEF Holds
<1>4. ASSUME NEW k \in 0 .. Len(e) - 1, k \in S PROVE k + 1 \in S
  <2>1. 1 .. k + 1 \in SUBSET DOMAIN e /\ 1 .. k + 1 # {} /\ (1 .. k + 1) \ {k + 1} = 1 .. k
    <3> DEFINE n == Len(e)
    <3>1. n \in Nat /\ k \in 0 .. n - 1 /\ DOMAIN e = 1 .. n
      BY <1>1
    <3> HIDE DEF n, e
    <3>2. k + 1 \in 1 .. n
      BY <3>1
    <3>3. \A i \in 1 .. k + 1 : i \in 1 .. n
      BY <3>1
    <3>4. (1 .. k + 1) \ {k + 1} = 1 .. k
      BY <3>1
    <3>5. 1 \in 1 .. k + 1
      BY <3>1
    <3> QED
      BY <3>1, <3>3, <3>4, <3>5
  <2>2. Max(1 .. k + 1) = k + 1
    <3> DEFINE top == 1 .. k + 1
    <3>1. top \in SUBSET (1 .. k + 1) /\ k + 1 \in Nat /\ k + 1 \in top /\ \A y \in top : y <= k + 1
      OBVIOUS
    <3> HIDE DEF top
    <3>2. Max(top) = k + 1
      BY <3>1, MaxIs
    <3> QED
      BY <3>2 DEF top
  <2>3. h[1 .. k + 1] = PackElement(h[1 .. k], e[k + 1])
    BY <1>2, <2>1, <2>2 DEF Fold
  <2>4. k + 1 \in 1 .. Len(e) /\ k + 1 - 1 = k /\ k + 1 \in Nat
    BY <1>1
  <2>5. Holds(card, PackElement(h[1 .. k], e[k + 1]), k + 1)
    BY <1>4, <2>4, PackHolds
  <2> QED
    BY <2>3, <2>4, <2>5
<1>5. \A k \in 0 .. Len(e) : k \in S
  <2> HIDE DEF S, e
  <2> QED
    BY <1>1, <1>3, <1>4, StepByStep
<1>6. Holds(card, Compact(card), Len(e))
  <2>1. Compact(card) = h[1 .. Len(e)]
    BY <1>1, CompactIsFold DEF h
  <2>2. Len(e) \in 0 .. Len(e)
    BY <1>1
  <2> HIDE DEF e
  <2> QED
    BY <2>1, <2>2, <1>5
<1>7. \A s \in Stats : ValueUpto(card, s, Len(e)) = ValueOf(card, s)
  <2>1. \A s \in Stats : GivingUpto(card, s, Len(e)) = Giving(card, s)
    BY <1>1 DEF GivingUpto, Giving
  <2> QED
    BY <2>1 DEF ValueUpto, ValueOf
<1> QED
  BY <1>6, <1>7 DEF Holds

(***************************************************************************)
(* What the lines of a card's text say                                     *)
(***************************************************************************)
IdsOfElement(e) ==
    CASE e.kind = "MAIN_EFFECT" ->
            UNION {{<<MainLines[g], id>> : id \in IdsOf(FlattenSeq(e.displays[g]))} :
                        g \in DOMAIN e.displays \cap DOMAIN MainLines}
      [] e.kind = "ECHO_EFFECT" -> {<<"Ec", id>> : id \in IdsOf(NodesOf(e))}
      [] OTHER -> {}

NodesOfElement(e, line) ==
    IF e.kind = "ECHO_EFFECT" /\ line = "Ec" THEN ToSet(NodesOf(e))
    ELSE UNION {ToSet(FlattenSeq(e.displays[g])) :
                    g \in {h \in DOMAIN e.displays \cap DOMAIN MainLines :
                            e.kind = "MAIN_EFFECT" /\ MainLines[h] = line}}

LEMMA ElementIdsRead ==
    ASSUME NEW e, NEW line, NEW id
    PROVE  <<line, id>> \in IdsOfElement(e) <=> \E x \in NodesOfElement(e, line) : x.id = id
<1>1. ASSUME NEW nodes PROVE id \in IdsOf(nodes) <=> \E x \in ToSet(nodes) : x.id = id
  BY DEF IdsOf, ToSet
<1>2. CASE e.kind = "MAIN_EFFECT"
  <2>1. <<line, id>> \in IdsOfElement(e) <=>
            \E g \in DOMAIN e.displays \cap DOMAIN MainLines :
                MainLines[g] = line /\ id \in IdsOf(FlattenSeq(e.displays[g]))
    BY <1>2 DEF IdsOfElement
  <2>2. (\E x \in NodesOfElement(e, line) : x.id = id) <=>
            \E g \in DOMAIN e.displays \cap DOMAIN MainLines :
                MainLines[g] = line /\ \E x \in ToSet(FlattenSeq(e.displays[g])) : x.id = id
    BY <1>2 DEF NodesOfElement
  <2> QED
    BY <2>1, <2>2, <1>1
<1>3. CASE e.kind = "ECHO_EFFECT"
  BY <1>1, <1>3 DEF IdsOfElement, NodesOfElement
<1>4. CASE e.kind # "MAIN_EFFECT" /\ e.kind # "ECHO_EFFECT"
  BY <1>4 DEF IdsOfElement, NodesOfElement
<1> QED
  BY <1>2, <1>3, <1>4

\* id_gds_per_effect_line finds an id on a line exactly if a node of the line has it.
LEMMA LineIdsRead ==
    ASSUME NEW card, NEW line, NEW id
    PROVE  <<line, id>> \in LineIds(card) <=> \E x \in NodesOn(card, line) : x.id = id
<1>1. LineIds(card) = UNION {IdsOfElement(card.elements[i]) : i \in DOMAIN card.elements}
  BY DEF LineIds, IdsOfElement
<1>2. NodesOn(card, line) = UNION {NodesOfElement(card.elements[i], line) : i \in DOMAIN card.elements}
  <2>1. NodesOn(card, line) = UNION {NodesOfElement(e, line) : e \in ToSet(card.elements)}
    BY DEF NodesOn, NodesOfElement
  <2> QED
    BY <2>1 DEF ToSet
<1>3. <<line, id>> \in LineIds(card) <=> \E i \in DOMAIN card.elements : <<line, id>> \in IdsOfElement(card.elements[i])
  BY <1>1
<1>4. (\E x \in NodesOn(card, line) : x.id = id) <=>
            \E i \in DOMAIN card.elements : \E x \in NodesOfElement(card.elements[i], line) : x.id = id
  BY <1>2
<1> QED
  BY <1>3, <1>4, ElementIdsRead

LEMMA LineIdsArePairs ==
    ASSUME NEW card, NEW q \in LineIds(card)
    PROVE  q = <<q[1], q[2]>> /\ q[1] \in Lines
<1>1. LineIds(card) = UNION {IdsOfElement(card.elements[i]) : i \in DOMAIN card.elements}
  BY DEF LineIds, IdsOfElement
<1>2. PICK i \in DOMAIN card.elements : q \in IdsOfElement(card.elements[i])
  BY <1>1
<1>3. \A g \in DOMAIN MainLines : MainLines[g] \in Lines
  BY DEF MainLines, Lines
<1> QED
  BY <1>2, <1>3 DEF IdsOfElement, Lines

(***************************************************************************)
(* What an index has of the cards indexed so far                           *)
(***************************************************************************)
LinesUpto(cards, m) == UNION {{<<q[1], q[2], cards[n].bit>> : q \in LineIds(cards[n])} : n \in 1 .. m}
WholeUpto(cards, m) == UNION {{<<id, cards[n].bit>> : id \in IdsOf(AllNodes(cards[n]))} : n \in 1 .. m}
StatsUpto(cards, m) == UNION {InsertStats({}, Compact(cards[n]), cards[n].bit) : n \in 1 .. m}
FactionsUpto(cards, m) == UNION {InsertFaction({}, Compact(cards[n]), cards[n].bit) : n \in 1 .. m}

Recorded(ix, cards, m) ==
    /\ DOMAIN ix.types = UNION {IdsOf(AllNodes(cards[n])) : n \in 1 .. m}
    /\ ix.whole = WholeUpto(cards, m)
    /\ ix.lines = LinesUpto(cards, m)
    /\ ix.stats = StatsUpto(cards, m)
    /\ ix.factions = FactionsUpto(cards, m)
    /\ DOMAIN ix.records = {cards[n].bit : n \in 1 .. m}
    /\ \A n \in 1 .. m : ix.records[cards[n].bit] = Compact(cards[n])

LEMMA EmptyRecords == ASSUME NEW cards PROVE Recorded(EmptyIndex, cards, 0)
BY DEF Recorded, EmptyIndex, WholeUpto, LinesUpto, StatsUpto, FactionsUpto

\* Indexing the next card keeps what the index has of those before, as no bit comes twice.
LEMMA IndexedRecords ==
    ASSUME NEW d, IsDataset(d), NEW m \in 0 .. Len(d.cards) - 1, NEW ix, Recorded(ix, d.cards, m)
    PROVE  Recorded(Indexed(ix, d.cards[m + 1]), d.cards, m + 1)
<1> DEFINE cards == d.cards
           card == cards[m + 1]
           new == Indexed(ix, card)
<1>1. 1 .. m + 1 = (1 .. m) \cup {m + 1}
  OBVIOUS
<1>2. DOMAIN new.types = UNION {IdsOf(AllNodes(cards[n])) : n \in 1 .. m + 1}
  <2>1. DOMAIN new.types = DOMAIN ix.types \cup IdsOf(AllNodes(card))
    BY DEF Indexed, RecordFirst
  <2> QED
    BY <2>1, <1>1 DEF Recorded
<1>3. new.whole = WholeUpto(cards, m + 1)
  <2>1. new.whole = ix.whole \cup {<<id, card.bit>> : id \in IdsOf(AllNodes(card))}
    BY DEF Indexed
  <2> QED
    BY <2>1, <1>1 DEF Recorded, WholeUpto
<1>4. new.lines = LinesUpto(cards, m + 1)
  <2>1. new.lines = ix.lines \cup {<<q[1], q[2], card.bit>> : q \in LineIds(card)}
    BY DEF Indexed
  <2> QED
    BY <2>1, <1>1 DEF Recorded, LinesUpto
<1>5. new.stats = StatsUpto(cards, m + 1)
  <2>1. new.stats = ix.stats \cup InsertStats({}, Compact(card), card.bit)
    BY DEF Indexed, InsertStats
  <2> QED
    BY <2>1, <1>1 DEF Recorded, StatsUpto
<1>6. new.factions = FactionsUpto(cards, m + 1)
  <2>1. new.factions = ix.factions \cup InsertFaction({}, Compact(card), card.bit)
    BY DEF Indexed, InsertFaction
  <2> QED
    BY <2>1, <1>1 DEF Recorded, FactionsUpto
<1>7. new.records = Extend(ix.records, card.bit, Compact(card))
  BY DEF Indexed
<1>8. DOMAIN new.records = {cards[n].bit : n \in 1 .. m + 1}
  BY <1>7, <1>1 DEF Recorded, Extend
<1>9. \A n \in 1 .. m : cards[n].bit # card.bit
  <2>1. m + 1 \in DOMAIN cards /\ \A n \in 1 .. m : n \in DOMAIN cards /\ n # m + 1
    BY DEF IsDataset, Tiles
  <2> QED
    BY <2>1 DEF IsDataset, Tiles
<1>10. \A n \in 1 .. m + 1 : new.records[cards[n].bit] = Compact(cards[n])
  BY <1>1, <1>7, <1>9 DEF Recorded, Extend
<1>11. Recorded(new, cards, m + 1)
  <2> HIDE DEF new
  <2> QED
    BY <1>2, <1>3, <1>4, <1>5, <1>6, <1>8, <1>10 DEF Recorded
<1> QED
  BY <1>11

(***************************************************************************)
(* What a snapshot says of a card                                          *)
(***************************************************************************)
\* A snapshot is of a whole dataset, and a collection in it is one that was found.
IsSnapshot(app, d) ==
    /\ app = [ build |-> app.build, families |-> d.families, span |-> d.span, cards |-> d.cards,
               index |-> app.index, formats |-> app.formats, collections |-> app.collections ]
    /\ Recorded(app.index, d.cards, Len(d.cards))
    /\ app.formats = [id \in DOMAIN FormatDefs |-> FormatOf(d.families, FormatDefs[id])]
    /\ \A id \in DOMAIN app.collections :
            /\ id \in DOMAIN Collections
            /\ AllFound(d.families, Collections[id])
            /\ app.collections[id] = RefBits(d.families, Collections[id])

LEMMA SnapshotFields ==
    ASSUME NEW d, IsDataset(d), NEW app, IsSnapshot(app, d)
    PROVE  /\ app.families = d.families /\ app.span = d.span /\ app.cards = d.cards
           /\ IsDataset(d) /\ DOMAIN d.cards = 1 .. Len(d.cards)
           /\ Recorded(app.index, d.cards, Len(d.cards))
<1>1. IsDataset(d)
  OBVIOUS
<1>2. d.cards \in Seq(Cards)
  BY <1>1 DEF IsDataset, Tiles
<1>3. app.families = d.families /\ app.span = d.span /\ app.cards = d.cards
  BY DEF IsSnapshot
<1> QED
  BY <1>1, <1>2, <1>3 DEF IsSnapshot

\* A line's bitmaps: a position is in one for a card with a node on that line.
LEMMA LineRead ==
    ASSUME NEW d, IsDataset(d), NEW app, IsSnapshot(app, d), NEW n \in DOMAIN d.cards, NEW line, NEW id
    PROVE  <<line, id, d.cards[n].bit>> \in app.index.lines
                <=> \E x \in NodesOn(d.cards[n], line) : x.id = id
<1>1. app.index.lines = LinesUpto(d.cards, Len(d.cards)) /\ DOMAIN d.cards = 1 .. Len(d.cards)
  BY SnapshotFields DEF Recorded
<1>2. \A m \in DOMAIN d.cards : d.cards[m].bit = d.cards[n].bit => m = n
  BY SnapshotFields DEF IsDataset, Tiles
<1>3. <<line, id, d.cards[n].bit>> \in app.index.lines <=> <<line, id>> \in LineIds(d.cards[n])
  <2>1. ASSUME <<line, id, d.cards[n].bit>> \in app.index.lines
        PROVE  <<line, id>> \in LineIds(d.cards[n])
    <3>1. PICK m \in DOMAIN d.cards : <<line, id, d.cards[n].bit>> \in
                {<<q[1], q[2], d.cards[m].bit>> : q \in LineIds(d.cards[m])}
      BY <2>1, <1>1 DEF LinesUpto
    <3>2. PICK q \in LineIds(d.cards[m]) : <<line, id, d.cards[n].bit>> = <<q[1], q[2], d.cards[m].bit>>
      BY <3>1
    <3>3. m = n /\ q[1] = line /\ q[2] = id
      BY <3>2, <1>2
    <3> QED
      BY <3>2, <3>3, LineIdsArePairs
  <2>2. ASSUME <<line, id>> \in LineIds(d.cards[n])
        PROVE  <<line, id, d.cards[n].bit>> \in app.index.lines
    BY <2>2, <1>1 DEF LinesUpto
  <2> QED
    BY <2>1, <2>2
<1> QED
  BY <1>3, LineIdsRead

LEMMA LinesAreOfCards ==
    ASSUME NEW d, IsDataset(d), NEW app, IsSnapshot(app, d), NEW t \in app.index.lines
    PROVE  \E n \in DOMAIN d.cards : \E q \in LineIds(d.cards[n]) :
                t = <<q[1], q[2], d.cards[n].bit>> /\ q[1] \in Lines
<1>1. app.index.lines = LinesUpto(d.cards, Len(d.cards)) /\ DOMAIN d.cards = 1 .. Len(d.cards)
  BY SnapshotFields DEF Recorded
<1>2. PICK n \in DOMAIN d.cards : \E q \in LineIds(d.cards[n]) : t = <<q[1], q[2], d.cards[n].bit>>
  BY <1>1 DEF LinesUpto
<1> QED
  BY <1>2, LineIdsArePairs

LEMMA CardElements ==
    ASSUME NEW d, IsDataset(d), NEW n \in DOMAIN d.cards
    PROVE  d.cards[n] \in Cards /\ d.cards[n].elements \in Seq(Elements)
<1>1. d.cards \in Seq(Cards)
  BY DEF IsDataset, Tiles
<1>2. d.cards[n] \in Cards
  BY <1>1
<1> QED
  BY <1>2 DEF Cards

\* A bucket's bitmap has a position exactly if its card's statistic is the bucket's value.
LEMMA StatRead ==
    ASSUME NEW d, IsDataset(d), NEW app, IsSnapshot(app, d), NEW n \in DOMAIN d.cards, NEW s, NEW v
    PROVE  <<s, v, d.cards[n].bit>> \in app.index.stats
                <=> s \in Stats /\ v = ValueOf(d.cards[n], s) /\ v < Buckets
<1>1. app.index.stats = StatsUpto(d.cards, Len(d.cards)) /\ DOMAIN d.cards = 1 .. Len(d.cards)
  BY SnapshotFields DEF Recorded
<1>2. \A m \in DOMAIN d.cards : d.cards[m].bit = d.cards[n].bit => m = n
  BY SnapshotFields DEF IsDataset, Tiles
<1>3. \A m \in DOMAIN d.cards : <<s, v, d.cards[n].bit>> \in InsertStats({}, Compact(d.cards[m]), d.cards[m].bit)
            <=> /\ s \in Stats /\ v = Compact(d.cards[m]).stats[s] /\ v < Buckets
                /\ d.cards[m].bit = d.cards[n].bit
  BY DEF InsertStats
<1>4. <<s, v, d.cards[n].bit>> \in app.index.stats
            <=> s \in Stats /\ v = Compact(d.cards[n]).stats[s] /\ v < Buckets
  <2>1. <<s, v, d.cards[n].bit>> \in app.index.stats <=>
            \E m \in DOMAIN d.cards : <<s, v, d.cards[n].bit>> \in InsertStats({}, Compact(d.cards[m]), d.cards[m].bit)
    BY <1>1 DEF StatsUpto
  <2> QED
    BY <2>1, <1>2, <1>3
<1>5. s \in Stats => Compact(d.cards[n]).stats[s] = ValueOf(d.cards[n], s)
  BY CompactReads, CardElements
<1> QED
  BY <1>4, <1>5

LEMMA FactionRead ==
    ASSUME NEW d, IsDataset(d), NEW app, IsSnapshot(app, d), NEW n \in DOMAIN d.cards, NEW f
    PROVE  <<f, d.cards[n].bit>> \in app.index.factions <=> f \in Factions /\ f = d.cards[n].faction
<1>1. app.index.factions = FactionsUpto(d.cards, Len(d.cards)) /\ DOMAIN d.cards = 1 .. Len(d.cards)
  BY SnapshotFields DEF Recorded
<1>2. \A m \in DOMAIN d.cards : d.cards[m].bit = d.cards[n].bit => m = n
  BY SnapshotFields DEF IsDataset, Tiles
<1>3. \A m \in DOMAIN d.cards : <<f, d.cards[n].bit>> \in InsertFaction({}, Compact(d.cards[m]), d.cards[m].bit)
            <=> f \in Factions /\ f = Compact(d.cards[m]).faction /\ d.cards[m].bit = d.cards[n].bit
  BY DEF InsertFaction
<1>4. <<f, d.cards[n].bit>> \in app.index.factions <=> f \in Factions /\ f = Compact(d.cards[n]).faction
  <2>1. <<f, d.cards[n].bit>> \in app.index.factions <=>
            \E m \in DOMAIN d.cards : <<f, d.cards[n].bit>> \in InsertFaction({}, Compact(d.cards[m]), d.cards[m].bit)
    BY <1>1 DEF FactionsUpto
  <2> QED
    BY <2>1, <1>2, <1>3
<1>5. Compact(d.cards[n]).faction = FactionOf(d.cards[n])
  BY CompactReads, CardElements
<1> QED
  BY <1>4, <1>5 DEF FactionOf, Factions

(***************************************************************************)
(* Positions and the entries of the catalog                                *)
(***************************************************************************)
LEMMA EntryFields ==
    ASSUME NEW d, IsDataset(d), NEW i \in DOMAIN d.families
    PROVE  /\ d.families[i].start \in Nat /\ d.families[i].max \in Nat \ {0}
           /\ d.families[i].start + d.families[i].max <= d.span
           /\ d.span \in 0 .. MaxBit
           /\ DOMAIN d.families = 1 .. Len(d.families)
<1>1. IsDataset(d)
  OBVIOUS
<1>2. d.families \in Seq(Entries)
  BY <1>1 DEF IsDataset, Tiles
<1>3. d.families[i] \in Entries
  BY <1>2
<1>4. d.families[i].start \in Nat /\ d.families[i].max \in Nat \ {0}
  BY <1>3 DEF Entries
<1>5. d.families[i].start + d.families[i].max <= d.span /\ d.span \in 0 .. MaxBit
  BY <1>1 DEF IsDataset, Tiles
<1> QED
  BY <1>2, <1>4, <1>5

\* Spans are within the catalog's and have no position in common.
LEMMA SpansApart ==
    ASSUME NEW d, IsDataset(d), NEW i \in DOMAIN d.families, NEW bit \in SpanOf(d.families[i])
    PROVE  /\ bit \in 0 .. d.span - 1
           /\ \A j \in DOMAIN d.families : bit \in SpanOf(d.families[j]) => j = i
<1>1. bit \in 0 .. d.span - 1
  BY EntryFields DEF SpanOf
<1>2. \A j \in DOMAIN d.families : bit \in SpanOf(d.families[j]) =>
            d.families[j].start <= bit /\ bit < d.families[j].start + d.families[j].max
  BY EntryFields DEF SpanOf
<1>3. \A j, k \in DOMAIN d.families : j < k => d.families[j].start + d.families[j].max <= d.families[k].start
  BY DEF IsDataset, Tiles
<1>4. SUFFICES ASSUME NEW j \in DOMAIN d.families, bit \in SpanOf(d.families[j]), j # i PROVE FALSE
  BY <1>1
<1>5. i \in Nat /\ j \in Nat /\ bit \in Nat
  BY EntryFields, <1>1
<1>6. CASE j < i
  <2>1. d.families[j].start + d.families[j].max <= d.families[i].start
    BY <1>3, <1>6
  <2> QED
    BY <2>1, <1>2, <1>4, <1>5, EntryFields
<1>7. CASE i < j
  <2>1. d.families[i].start + d.families[i].max <= d.families[j].start
    BY <1>3, <1>7
  <2> QED
    BY <2>1, <1>2, <1>4, <1>5, EntryFields
<1> QED
  BY <1>4, <1>5, <1>6, <1>7

\* A card is in the span of one entry, which is the one its reference is made of.
LEMMA CardEntry ==
    ASSUME NEW d, IsDataset(d), NEW app, IsSnapshot(app, d), NEW n \in DOMAIN d.cards
    PROVE  \E i \in DOMAIN d.families :
                /\ EntryOf(app, d.cards[n]) = d.families[i]
                /\ d.cards[n].bit \in SpanOf(d.families[i])
                /\ d.cards[n].bit \in AllBits(app)
                /\ \A j \in DOMAIN d.families : d.cards[n].bit \in SpanOf(d.families[j]) => j = i
<1> DEFINE bit == d.cards[n].bit
           k == CHOOSE i \in DOMAIN d.families : bit \in SpanOf(d.families[i])
<1>1. \E i \in DOMAIN d.families : bit \in SpanOf(d.families[i])
  BY DEF IsDataset, Tiles
<1>2. k \in DOMAIN d.families /\ bit \in SpanOf(d.families[k])
  BY <1>1
<1>3. EntryOf(app, d.cards[n]) = d.families[k]
  BY SnapshotFields DEF EntryOf
<1> HIDE DEF k
<1>4. /\ bit \in 0 .. d.span - 1
      /\ \A j \in DOMAIN d.families : bit \in SpanOf(d.families[j]) => j = k
  BY <1>2, SpansApart
<1>5. bit \in AllBits(app)
  BY <1>4, SnapshotFields DEF AllBits
<1> QED
  BY <1>2, <1>3, <1>4, <1>5

LEMMA SetRead ==
    ASSUME NEW d, IsDataset(d), NEW app, IsSnapshot(app, d), NEW n \in DOMAIN d.cards, NEW sets
    PROVE  d.cards[n].bit \in SetBits(d.families, sets) <=> EntryOf(app, d.cards[n]).set \in sets
<1> DEFINE bit == d.cards[n].bit
<1>1. PICK i \in DOMAIN d.families :
            /\ EntryOf(app, d.cards[n]) = d.families[i] /\ bit \in SpanOf(d.families[i])
            /\ \A j \in DOMAIN d.families : bit \in SpanOf(d.families[j]) => j = i
  BY CardEntry
<1>2. bit \in SetBits(d.families, sets) <=>
            \E j \in DOMAIN d.families : bit \in SpanOf(d.families[j]) /\ d.families[j].set \in sets
  BY DEF SetBits, SetBitmap, SetCodes
<1> QED
  BY <1>1, <1>2

LEMMA NameRead ==
    ASSUME NEW d, IsDataset(d), NEW app, IsSnapshot(app, d), NEW n \in DOMAIN d.cards, NEW needle
    PROVE  d.cards[n].bit \in NameBits(d.families, needle) <=> needle \in EntryOf(app, d.cards[n]).names
<1> DEFINE bit == d.cards[n].bit
<1>1. PICK i \in DOMAIN d.families :
            /\ EntryOf(app, d.cards[n]) = d.families[i] /\ bit \in SpanOf(d.families[i])
            /\ \A j \in DOMAIN d.families : bit \in SpanOf(d.families[j]) => j = i
  BY CardEntry
<1>2. bit \in NameBits(d.families, needle) <=>
            \E j \in DOMAIN d.families : bit \in SpanOf(d.families[j]) /\ needle \in d.families[j].names
  BY DEF NameBits
<1> QED
  BY <1>1, <1>2

\* The position of a reference within its family's span, where no sum of two overflows
LEMMA BitInSpan ==
    ASSUME NEW d, IsDataset(d), NEW i \in DOMAIN d.families, NEW uid \in 1 .. d.families[i].max
    PROVE  /\ BitOf(d.families[i], uid) = d.families[i].start + uid - 1
           /\ BitOf(d.families[i], uid) \in SpanOf(d.families[i])
<1>1. d.families[i].start + uid - 1 \in 0 .. MaxBit
  BY EntryFields, MaxBitAssumption
<1>2. U32(d.families[i].start + uid - 1) = d.families[i].start + uid - 1
  BY <1>1, MaxBitAssumption DEF U32
<1> QED
  BY <1>2, EntryFields DEF BitOf, SpanOf

\* Of references that are all found, build_bitmap_from_ref_strs gives the positions of the cards
\* that have them.
LEMMA RefRead ==
    ASSUME NEW d, IsDataset(d), NEW app, IsSnapshot(app, d), NEW n \in DOMAIN d.cards,
           NEW refs \in SUBSET Refs, AllFound(d.families, refs)
    PROVE  d.cards[n].bit \in RefBits(d.families, refs) <=> RefOf(app, d.cards[n]) \in refs
<1> DEFINE fs == d.families
           bit == d.cards[n].bit
<1>1. PICK i \in DOMAIN fs :
            /\ EntryOf(app, d.cards[n]) = fs[i] /\ bit \in SpanOf(fs[i])
            /\ \A j \in DOMAIN fs : bit \in SpanOf(fs[j]) => j = i
  BY CardEntry
<1>2. RefOf(app, d.cards[n]) = Ref(fs[i], bit - fs[i].start + 1)
  BY <1>1 DEF RefOf
<1>3. \A ref \in refs : ref = [set |-> ref.set, family |-> ref.family, uid |-> ref.uid] /\ ref.uid \in Nat \ {0}
  BY MaxBitAssumption DEF Refs
<1>4. ASSUME bit \in RefBits(fs, refs) PROVE RefOf(app, d.cards[n]) \in refs
  <2>1. PICK ref \in refs : LooksUp(fs, ref, bit)
    BY <1>4 DEF RefBits
  <2>2. PICK k \in DOMAIN fs : Matching(fs, ref) = {k} /\ ref.uid <= fs[k].max /\ bit = BitOf(fs[k], ref.uid)
    BY <2>1 DEF LooksUp
  <2>3. ref.uid \in 1 .. fs[k].max
    BY <2>2, <1>3, EntryFields
  <2>4. bit = fs[k].start + ref.uid - 1 /\ bit \in SpanOf(fs[k])
    BY <2>2, <2>3, BitInSpan
  <2>5. k = i
    BY <1>1, <2>4
  <2>6. bit - fs[i].start + 1 = ref.uid
    BY <2>4, <2>5, <1>3, EntryFields
  <2>7. fs[k].family = ref.family /\ fs[k].set = ref.set
    BY <2>2 DEF Matching
  <2> QED
    BY <1>2, <1>3, <2>5, <2>6, <2>7 DEF Ref
<1>5. ASSUME RefOf(app, d.cards[n]) \in refs PROVE bit \in RefBits(fs, refs)
  <2> DEFINE ref == Ref(fs[i], bit - fs[i].start + 1)
  <2>1. ref \in refs /\ ref.set = fs[i].set /\ ref.family = fs[i].family /\ ref.uid = bit - fs[i].start + 1
    BY <1>2, <1>5 DEF Ref
  <2>2. PICK b \in 0 .. MaxBit : LooksUp(fs, ref, b)
    BY <2>1 DEF AllFound
  <2>3. PICK k \in DOMAIN fs : Matching(fs, ref) = {k} /\ ref.uid <= fs[k].max /\ b = BitOf(fs[k], ref.uid)
    BY <2>2 DEF LooksUp
  <2>4. k = i
    BY <2>1, <2>3 DEF Matching
  <2>5. ref.uid \in 1 .. fs[i].max
    BY <1>3, <2>1, <2>3, <2>4, EntryFields
  <2>6. b = fs[i].start + ref.uid - 1
    BY <2>3, <2>4, <2>5, BitInSpan
  <2>7. bit \in Nat
    BY CardElements DEF Cards
  <2>8. b = bit
    BY <2>1, <2>6, <2>7, EntryFields
  <2> QED
    BY <2>1, <2>2, <2>8 DEF RefBits
<1> QED
  BY <1>4, <1>5

(***************************************************************************)
(* Each filter, for one card                                               *)
(***************************************************************************)
LEMMA AbilityRead ==
    ASSUME NEW d, IsDataset(d), NEW app, IsSnapshot(app, d), NEW n \in DOMAIN d.cards, NEW line, NEW ids
    PROVE  d.cards[n].bit \in OnLine(app, line, ids) <=> HasAbility(d.cards[n], line, ids)
<1>1. d.cards[n].bit \in AllBits(app)
  BY CardEntry
<1>2. ASSUME NEW k \in Kinds
      PROVE  (\E id \in ids[k] : <<line, id, d.cards[n].bit>> \in app.index.lines)
                <=> \E x \in NodesOn(d.cards[n], line) : x.id \in ids[k]
  <2>1. \A id : <<line, id, d.cards[n].bit>> \in app.index.lines <=> \E x \in NodesOn(d.cards[n], line) : x.id = id
    BY LineRead
  <2> QED
    BY <2>1
<1> QED
  BY <1>1, <1>2 DEF OnLine, HasAbility

LEMMA SlotRead ==
    ASSUME NEW d, IsDataset(d), NEW app, IsSnapshot(app, d), NEW n \in DOMAIN d.cards, NEW slot
    PROVE  d.cards[n].bit \in SlotBits(app, slot) <=> HasSlot(d.cards[n], slot)
<1> DEFINE bit == d.cards[n].bit
           onLine == [g \in DOMAIN MainLines |-> OnLine(app, MainLines[g], slot.ids)]
<1>1. bit \in AllBits(app)
  BY CardEntry
<1>2. bit \in SlotBits(app, slot) <=> Cardinality({g \in DOMAIN onLine : bit \in onLine[g]}) >= slot.count
  BY <1>1 DEF SlotBits
<1>3. {g \in DOMAIN onLine : bit \in onLine[g]} = {g \in DOMAIN MainLines : HasAbility(d.cards[n], MainLines[g], slot.ids)}
  BY AbilityRead
<1> QED
  BY <1>2, <1>3 DEF HasSlot

LEMMA ValueIsNumber ==
    ASSUME NEW card, card.elements \in Seq(Elements), NEW s
    PROVE  ValueOf(card, s) \in Nat
<1>1. CASE Giving(card, s) = {}
  BY <1>1 DEF ValueOf
<1>2. CASE Giving(card, s) # {}
  <2>1. Giving(card, s) \in SUBSET (1 .. Len(card.elements)) /\ Len(card.elements) \in Nat
    BY DEF Giving
  <2>2. Max(Giving(card, s)) \in Giving(card, s)
    BY <1>2, <2>1, MaxOf
  <2>3. card.elements[Max(Giving(card, s))].value \in 0 .. MaxByte
    BY <2>2 DEF Giving, Parses
  <2> QED
    BY <1>2, <2>3, CardAssumption DEF ValueOf
<1> QED
  BY <1>1, <1>2

LEMMA BoundsAre == ToSet(Bounds) = {"gt", "gte", "lt", "lte"} /\ DOMAIN Bounds = 1 .. 4
<1>1. DOMAIN Bounds = 1 .. 4 /\ Bounds[1] = "gt" /\ Bounds[2] = "gte" /\ Bounds[3] = "lt" /\ Bounds[4] = "lte"
  BY DEF Bounds
<1>2. 1 .. 4 = {1, 2, 3, 4}
  OBVIOUS
<1> QED
  BY <1>1, <1>2 DEF ToSet

\* A cost that is given and not refused is one predicate.
LEMMA ReadIsOne ==
    ASSUME NEW cost, DOMAIN cost # {}, DOMAIN cost \subseteq ToSet(Bounds) \cup {"exact", "array"}, ~Mixed(cost)
    PROVE  \E k : Read(cost) = {k}
<1>1. CASE DOMAIN cost \cap ToSet(Bounds) = {}
  <2>1. Read(cost) = DOMAIN cost /\ DOMAIN cost \subseteq {"exact", "array"}
    BY <1>1 DEF Read
  <2>2. DOMAIN cost # {"exact", "array"}
    <3>1. SUFFICES ASSUME DOMAIN cost = {"exact", "array"} PROVE FALSE
      OBVIOUS
    <3>2. Cardinality({"exact"}) = 1 /\ IsFiniteSet({"exact"})
      BY FS_Singleton
    <3>3. Cardinality({"exact"} \cup {"array"}) = 2
      BY <3>2, FS_AddElement
    <3>4. (DOMAIN cost \ ToSet(Bounds)) \cup {} = {"exact"} \cup {"array"}
      BY <3>1, <1>1
    <3> QED
      BY <3>3, <3>4, <1>1 DEF Mixed
  <2> QED
    BY <2>1, <2>2
<1>2. CASE DOMAIN cost \cap ToSet(Bounds) # {}
  <2> DEFINE Has(i) == Bounds[i] \in DOMAIN cost
             S == {i \in 1 .. 4 : Has(i)}
  <2>1. S # {} /\ S \in SUBSET Nat
    BY <1>2, BoundsAre DEF ToSet
  <2>2. \E i \in S : \A j \in S : i <= j
    <3> HIDE DEF S
    <3> QED
      BY <2>1, LeastOf
  <2>3. PICK i \in S : \A j \in S : i <= j
    BY <2>2
  <2>4. {j \in DOMAIN Bounds : Bounds[j] \in DOMAIN cost /\ \A h \in 1 .. j - 1 : Bounds[h] \notin DOMAIN cost} = {i}
    <3>1. \A h \in 1 .. i - 1 : Bounds[h] \notin DOMAIN cost
      BY <2>3
    <3>2. ASSUME NEW j \in 1 .. 4, Bounds[j] \in DOMAIN cost, j # i
          PROVE  \E h \in 1 .. j - 1 : Bounds[h] \in DOMAIN cost
      BY <2>3, <3>2
    <3> QED
      BY <3>1, <3>2, <2>3, BoundsAre
  <2>5. BoundOf(cost) = {Bounds[i]}
    BY <2>4 DEF BoundOf
  <2> QED
    BY <1>2, <2>5 DEF Read
<1> QED
  BY <1>1, <1>2

\* A cost filter finds the cards whose cost compares as asked, if it has a bucket.
LEMMA CostRead ==
    ASSUME NEW d, IsDataset(d), NEW app, IsSnapshot(app, d), NEW n \in DOMAIN d.cards, NEW s \in Stats, NEW cost
    PROVE  d.cards[n].bit \in CostBits(app, s, cost) <=>
                \E k \in Read(cost) : /\ ValueOf(d.cards[n], s) <= MaxCost
                                      /\ \E c \in cost[k] : Compare(k, ValueOf(d.cards[n], s), c)
<1> DEFINE value == ValueOf(d.cards[n], s)
<1>1. d.cards[n].bit \in AllBits(app)
  BY CardEntry
<1>2. value \in Nat
  BY ValueIsNumber, CardElements
<1>3. \A v \in 0 .. MaxCost : <<s, v, d.cards[n].bit>> \in app.index.stats <=> v = value
  BY StatRead, CostAssumption, CardAssumption
<1>4. value <= MaxCost <=> value \in 0 .. MaxCost
  BY <1>2, CostAssumption
<1> HIDE DEF value
<1> QED
  BY <1>1, <1>3, <1>4 DEF CostBits, value

LEMMA CostMatches ==
    ASSUME NEW d, IsDataset(d), NEW app, IsSnapshot(app, d), NEW n \in DOMAIN d.cards, NEW s \in Stats,
           NEW cost, DOMAIN cost # {}, DOMAIN cost \subseteq ToSet(Bounds) \cup {"exact", "array"}, ~Mixed(cost)
    PROVE  d.cards[n].bit \in CostBits(app, s, cost) <=> HasCost(d.cards[n], s, cost)
<1>1. PICK k : Read(cost) = {k}
  BY ReadIsOne
<1> QED
  BY <1>1, CostRead DEF HasCost

\* A format that is ready selects the cards its file describes.
LEMMA FormatRead ==
    ASSUME NEW d, IsDataset(d), NEW app, IsSnapshot(app, d), NEW n \in DOMAIN d.cards,
           NEW id \in DOMAIN FormatDefs, app.formats[id].ready
    PROVE  IF app.formats[id].negated
           THEN d.cards[n].bit \in app.formats[id].bits <=> ~InFormat(app, d.cards[n], FormatDefs[id])
           ELSE d.cards[n].bit \in app.formats[id].bits <=> InFormat(app, d.cards[n], FormatDefs[id])
<1> DEFINE def == FormatDefs[id]
           fs == d.families
           fmt == FormatOf(fs, def)
           card == d.cards[n]
<1>1. app.formats[id] = fmt
  BY DEF IsSnapshot
<1>2. def.included \in SUBSET Refs /\ def.refs \in SUBSET Refs
  BY FilesAssumption
<1>3. CASE def.included # {}
  <2>1. AllFound(fs, def.included) /\ fmt = [ready |-> TRUE, negated |-> FALSE, bits |-> RefBits(fs, def.included)]
    <3> HIDE DEF def
    <3> QED
      BY <1>1, <1>3 DEF FormatOf, Failed
  <2>2. card.bit \in RefBits(fs, def.included) <=> RefOf(app, card) \in def.included
    BY <2>1, <1>2, RefRead
  <2> QED
    BY <1>1, <1>3, <2>1, <2>2 DEF InFormat
<1>4. CASE def.included = {}
  <2>1. /\ AllFound(fs, def.refs)
        /\ fmt = [ready |-> TRUE, negated |-> TRUE, bits |-> SetBits(fs, def.sets) \cup RefBits(fs, def.refs)]
    BY <1>1, <1>4 DEF FormatOf, Failed
  <2>2. card.bit \in RefBits(fs, def.refs) <=> RefOf(app, card) \in def.refs
    BY <2>1, <1>2, RefRead
  <2>3. card.bit \in SetBits(fs, def.sets) <=> EntryOf(app, card).set \in def.sets
    BY SetRead
  <2> QED
    BY <1>1, <1>4, <2>1, <2>2, <2>3 DEF InFormat
<1> QED
  BY <1>3, <1>4

(***************************************************************************)
(* An answer, for one card                                                 *)
(***************************************************************************)
\* What parse_request and the resolving of format and collection leave of a request
LEMMA AcceptedRequest ==
    ASSUME NEW d, IsDataset(d), NEW app, IsSnapshot(app, d), NEW p, IsRequest(p), Status(app, p) = 200
    PROVE  /\ p.factions \subseteq Factions
           /\ \A s \in DOMAIN p.costs : ~Mixed(p.costs[s])
           /\ \A m \in DOMAIN p.effects : p.effects[m].count \in 1 .. 3
           /\ \A id \in ToSet(p.format) : id \in DOMAIN FormatDefs /\ app.formats[id].ready
           /\ \A id \in ToSet(p.collection) : id \in DOMAIN app.collections
<1>1. /\ ~BadRequest(app, p)
      /\ p.format # <<>> => app.formats[p.format[1]].ready
      /\ p.collection # <<>> => p.collection[1] \in DOMAIN app.collections
  BY DEF Status
<1>2. p.format # <<>> => p.format[1] \in DOMAIN FormatDefs
  BY <1>1 DEF BadRequest, IsSnapshot
<1>3. ASSUME NEW s \in Seq(STRING), Len(s) <= 1, NEW x \in ToSet(s) PROVE s # <<>> /\ x = s[1]
  BY <1>3 DEF ToSet
<1>4. /\ p.format \in Seq(STRING) /\ Len(p.format) <= 1
      /\ p.collection \in Seq(STRING) /\ Len(p.collection) <= 1
  BY DEF IsRequest
<1>5. \A id \in ToSet(p.format) : id \in DOMAIN FormatDefs /\ app.formats[id].ready
  BY <1>1, <1>2, <1>3, <1>4
<1>6. \A id \in ToSet(p.collection) : id \in DOMAIN app.collections
  BY <1>1, <1>3, <1>4
<1>7. p.factions \subseteq Factions
  BY <1>1 DEF BadRequest, BadFactions
<1>8. \A s \in DOMAIN p.costs : ~Mixed(p.costs[s])
  BY <1>1 DEF BadRequest, BadCost
<1>9. \A m \in DOMAIN p.effects : p.effects[m].count \in 1 .. 3
  BY <1>1 DEF BadRequest, BadCount
<1> QED
  BY <1>5, <1>6, <1>7, <1>8, <1>9

LEMMA NoFilterMatches == ASSUME NEW card, NEW line PROVE HasAbility(card, line, NoFilter)
BY DEF HasAbility, NoFilter

\* The groups of the abilities
AbilityGroups(app, p) == Combined(p.mode, {SlotBits(app, p.effects[m]) : m \in Slots(p)})

HasAbilities(card, p) ==
    IF p.mode = "or" /\ Slots(p) # {} THEN \E m \in Slots(p) : HasSlot(card, p.effects[m])
    ELSE \A m \in Slots(p) : HasSlot(card, p.effects[m])

LEMMA AbilitiesRead ==
    ASSUME NEW d, IsDataset(d), NEW app, IsSnapshot(app, d), NEW n \in DOMAIN d.cards, NEW p
    PROVE  (\A g \in AbilityGroups(app, p) : d.cards[n].bit \in g) <=> HasAbilities(d.cards[n], p)
<1> DEFINE slots == {SlotBits(app, p.effects[m]) : m \in Slots(p)}
<1>1. slots # {} <=> Slots(p) # {}
  OBVIOUS
<1>2. CASE p.mode = "or" /\ Slots(p) # {}
  <2>1. AbilityGroups(app, p) = {UNION slots}
    BY <1>1, <1>2 DEF Combined, AbilityGroups
  <2>2. d.cards[n].bit \in UNION slots <=> \E m \in Slots(p) : d.cards[n].bit \in SlotBits(app, p.effects[m])
    OBVIOUS
  <2> QED
    BY <1>2, <2>1, <2>2, SlotRead DEF HasAbilities
<1>3. CASE ~(p.mode = "or" /\ Slots(p) # {})
  <2>1. AbilityGroups(app, p) = slots
    BY <1>1, <1>3 DEF Combined, AbilityGroups
  <2> QED
    BY <1>3, <2>1, SlotRead DEF HasAbilities
<1> QED
  BY <1>2, <1>3

\* An answer has a card exactly if the request describes it.
LEMMA AnswerHasCard ==
    ASSUME NEW d, IsDataset(d), NEW app, IsSnapshot(app, d), NEW n \in DOMAIN d.cards,
           NEW p, IsRequest(p), Status(app, p) = 200
    PROVE  d.cards[n].bit \in Answer(app, p) <=> Matches(app, d.cards[n], p)
<1> DEFINE card == d.cards[n]
           bit == card.bit
           G2 == AbilityGroups(app, p)
           G3 == {OnLine(app, "Ec", ids) : ids \in {p.support} \ {NoFilter}}
           G4 == {FactionBits(app, fs) : fs \in {p.factions} \ {{}}}
           G5 == {SetBits(app.families, sets) : sets \in {p.sets} \ {{}}}
           G6 == {CostBits(app, s, p.costs[s]) : s \in {t \in DOMAIN p.costs : Read(p.costs[t]) # {}}}
           G7 == {NameBits(app.families, needle) : needle \in ToSet(p.name)}
           G8 == Format(app, p, FALSE)
           G9 == {app.collections[id] : id \in ToSet(p.collection)}
<1>1. bit \in AllBits(app) /\ app.families = d.families
  BY CardEntry, SnapshotFields
<1>2. (\A g \in G2 : bit \in g) <=> HasAbilities(card, p)
  BY AbilitiesRead
<1>3. (\A g \in G3 : bit \in g)
            <=> HasAbility(card, "Ec", p.support)
  <2>1. bit \in OnLine(app, "Ec", p.support) <=> HasAbility(card, "Ec", p.support)
    BY AbilityRead
  <2> QED
    BY <2>1, NoFilterMatches
<1>4. (\A g \in G4 : bit \in g)
            <=> (p.factions # {} => card.faction \in p.factions)
  <2>1. bit \in FactionBits(app, p.factions) <=> \E f \in p.factions : <<f, bit>> \in app.index.factions
    BY <1>1 DEF FactionBits
  <2>2. \A f \in p.factions : <<f, bit>> \in app.index.factions <=> f = card.faction
    BY FactionRead, AcceptedRequest
  <2>3. (\E f \in p.factions : <<f, bit>> \in app.index.factions) <=> card.faction \in p.factions
    <3> DEFINE fs == p.factions
               In(f) == <<f, bit>> \in app.index.factions
               own == card.faction
    <3>1. \A f \in fs : In(f) <=> f = own
      BY <2>2
    <3> HIDE DEF fs, In, own
    <3>2. (\E f \in fs : In(f)) <=> own \in fs
      BY <3>1
    <3> QED
      BY <3>2 DEF fs, In, own
  <2> QED
    BY <2>1, <2>3
<1>5. (\A g \in G5 : bit \in g)
            <=> (p.sets # {} => EntryOf(app, card).set \in p.sets)
  <2>1. bit \in SetBits(app.families, p.sets) <=> EntryOf(app, card).set \in p.sets
    BY SetRead, <1>1
  <2> QED
    BY <2>1
<1>6. (\A g \in G6 : bit \in g)
            <=> (\A s \in DOMAIN p.costs : HasCost(card, s, p.costs[s]))
  <2>1. ASSUME NEW s \in DOMAIN p.costs
        PROVE  /\ Read(p.costs[s]) # {}
               /\ bit \in CostBits(app, s, p.costs[s]) <=> HasCost(card, s, p.costs[s])
    <3>1. /\ s \in Stats /\ DOMAIN p.costs[s] # {}
          /\ DOMAIN p.costs[s] \subseteq ToSet(Bounds) \cup {"exact", "array"}
      BY DEF IsRequest
    <3>2. ~Mixed(p.costs[s])
      BY AcceptedRequest
    <3> QED
      BY <3>1, <3>2, CostMatches, ReadIsOne
  <2> QED
    BY <2>1
<1>7. (\A g \in G7 : bit \in g)
            <=> (\A needle \in ToSet(p.name) : needle \in EntryOf(app, card).names)
  BY NameRead, <1>1
<1>8. (\A g \in G8 : bit \in g) /\ bit \notin UNION Format(app, p, TRUE)
            <=> (\A id \in ToSet(p.format) : InFormat(app, card, FormatDefs[id]))
  <2>1. ASSUME NEW id \in ToSet(p.format)
        PROVE  /\ app.formats[id].negated \in BOOLEAN
               /\ IF app.formats[id].negated
                  THEN bit \in app.formats[id].bits <=> ~InFormat(app, card, FormatDefs[id])
                  ELSE bit \in app.formats[id].bits <=> InFormat(app, card, FormatDefs[id])
    <3>1. id \in DOMAIN FormatDefs /\ app.formats[id].ready
      BY AcceptedRequest
    <3>2. app.formats[id] = FormatOf(d.families, FormatDefs[id])
      BY <3>1 DEF IsSnapshot
    <3>3. app.formats[id].negated \in BOOLEAN
      BY <3>2 DEF FormatOf, Failed
    <3> QED
      BY <3>1, <3>3, FormatRead
  <2> QED
    BY <2>1 DEF Format
<1>9. (\A g \in G9 : bit \in g)
            <=> (\A id \in ToSet(p.collection) : RefOf(app, card) \in Collections[id])
  <2>1. ASSUME NEW id \in ToSet(p.collection)
        PROVE  bit \in app.collections[id] <=> RefOf(app, card) \in Collections[id]
    <3>1. /\ id \in DOMAIN Collections /\ AllFound(d.families, Collections[id])
          /\ app.collections[id] = RefBits(d.families, Collections[id])
      BY AcceptedRequest DEF IsSnapshot
    <3> QED
      BY <3>1, RefRead, FilesAssumption
  <2> QED
    BY <2>1
<1>10. bit \in Answer(app, p) <=> (\A g \in Groups(app, p) : bit \in g) /\ bit \notin UNION Format(app, p, TRUE)
  BY <1>1 DEF Answer
<1>11. Groups(app, p) = G2 \cup G3 \cup G4 \cup G5 \cup G6 \cup G7 \cup G8 \cup G9
  BY DEF Groups, AbilityGroups
<1> HIDE DEF G2, G3, G4, G5, G6, G7, G8, G9
<1>12. (\A g \in Groups(app, p) : bit \in g) <=>
            /\ \A g \in G2 : bit \in g
            /\ \A g \in G3 : bit \in g
            /\ \A g \in G4 : bit \in g
            /\ \A g \in G5 : bit \in g
            /\ \A g \in G6 : bit \in g
            /\ \A g \in G7 : bit \in g
            /\ \A g \in G8 : bit \in g
            /\ \A g \in G9 : bit \in g
  BY <1>11
<1> QED
  BY <1>2, <1>3, <1>4, <1>5, <1>6, <1>7, <1>8, <1>9, <1>10, <1>12 DEF Matches, HasAbilities

\* A position in a bitmap of lines, statistics or factions has a card.
LEMMA BitsOfCards ==
    ASSUME NEW d, IsDataset(d), NEW app, IsSnapshot(app, d), NEW bit
    PROVE  /\ \A line, id : <<line, id, bit>> \in app.index.lines => bit \in CardBits(app)
           /\ \A s, v : <<s, v, bit>> \in app.index.stats => bit \in CardBits(app)
           /\ \A f : <<f, bit>> \in app.index.factions => bit \in CardBits(app)
<1>1. /\ app.index.lines = LinesUpto(d.cards, Len(d.cards)) /\ app.index.stats = StatsUpto(d.cards, Len(d.cards))
      /\ app.index.factions = FactionsUpto(d.cards, Len(d.cards)) /\ DOMAIN d.cards = 1 .. Len(d.cards)
  BY SnapshotFields DEF Recorded
<1>2. CardBits(app) = {d.cards[n].bit : n \in DOMAIN d.cards}
  BY SnapshotFields DEF CardBits, ToSet
<1>3. ASSUME NEW line, NEW id, <<line, id, bit>> \in app.index.lines PROVE bit \in CardBits(app)
  BY <1>1, <1>2, <1>3 DEF LinesUpto
<1>4. ASSUME NEW s, NEW v, <<s, v, bit>> \in app.index.stats PROVE bit \in CardBits(app)
  BY <1>1, <1>2, <1>4 DEF StatsUpto, InsertStats
<1>5. ASSUME NEW f, <<f, bit>> \in app.index.factions PROVE bit \in CardBits(app)
  BY <1>1, <1>2, <1>5 DEF FactionsUpto, InsertFaction
<1> QED
  BY <1>3, <1>4, <1>5

\* A filter on the lines has positions of cards only, unless it asks for nothing.
LEMMA OnLineOfCards ==
    ASSUME NEW d, IsDataset(d), NEW app, IsSnapshot(app, d), NEW line,
           NEW ids \in [Kinds -> SUBSET Nat], ids # NoFilter
    PROVE  OnLine(app, line, ids) \subseteq CardBits(app)
<1>1. PICK k \in Kinds : ids[k] # {}
  BY DEF NoFilter
<1>2. ASSUME NEW bit \in OnLine(app, line, ids) PROVE \E id : <<line, id, bit>> \in app.index.lines
  BY <1>1 DEF OnLine
<1> QED
  BY <1>2, BitsOfCards

LEMMA SlotOfCards ==
    ASSUME NEW d, IsDataset(d), NEW app, IsSnapshot(app, d), NEW slot,
           slot.ids \in [Kinds -> SUBSET Nat], slot.ids # NoFilter, slot.count \in 1 .. 3
    PROVE  SlotBits(app, slot) \subseteq CardBits(app)
<1> SUFFICES ASSUME NEW bit \in SlotBits(app, slot) PROVE bit \in CardBits(app)
  OBVIOUS
<1> DEFINE onLine == [g \in DOMAIN MainLines |-> OnLine(app, MainLines[g], slot.ids)]
<1>1. Cardinality({g \in DOMAIN onLine : bit \in onLine[g]}) >= slot.count
  BY DEF SlotBits
<1>2. {g \in DOMAIN onLine : bit \in onLine[g]} # {}
  <2> DEFINE on == {g \in DOMAIN onLine : bit \in onLine[g]}
  <2> HIDE DEF on
  <2>1. ASSUME on = {} PROVE FALSE
    <3>1. Cardinality(on) = 0
      BY <2>1, FS_EmptySet
    <3>2. Cardinality(on) >= slot.count
      BY <1>1 DEF on
    <3> QED
      BY <3>1, <3>2
  <2> QED
    BY <2>1 DEF on
<1>3. PICK g \in DOMAIN MainLines : bit \in OnLine(app, MainLines[g], slot.ids)
  BY <1>2
<1> QED
  BY <1>3, OnLineOfCards

\* A filter on what is on the cards leaves only positions that have one.
LEMMA AnswerOfCards ==
    ASSUME NEW d, IsDataset(d), NEW app, IsSnapshot(app, d), NEW p, IsRequest(p), Status(app, p) = 200,
           Slots(p) # {} \/ p.support # NoFilter \/ p.factions # {} \/ DOMAIN p.costs # {}
    PROVE  Answer(app, p) \subseteq CardBits(app)
<1> SUFFICES ASSUME NEW bit \in Answer(app, p) PROVE bit \in CardBits(app)
  OBVIOUS
<1>1. \A g \in Groups(app, p) : bit \in g
  BY DEF Answer
<1>2. CASE Slots(p) # {}
  <2>1. \E m \in Slots(p) : bit \in SlotBits(app, p.effects[m])
    <3> DEFINE slots == {SlotBits(app, p.effects[m]) : m \in Slots(p)}
    <3>1. slots # {}
      BY <1>2
    <3>2. \A g \in Combined(p.mode, slots) : bit \in g
      BY <1>1 DEF Groups
    <3>3. \E g \in slots : bit \in g
      <4> HIDE DEF slots
      <4>1. Combined(p.mode, slots) \in {{UNION slots}, slots}
        BY DEF Combined
      <4>2. bit \in UNION slots \/ \A g \in slots : bit \in g
        BY <3>2, <4>1
      <4> QED
        BY <3>1, <4>2
    <3> QED
      BY <3>3
  <2>2. \A m \in Slots(p) : SlotBits(app, p.effects[m]) \subseteq CardBits(app)
    <3> SUFFICES ASSUME NEW m \in Slots(p) PROVE SlotBits(app, p.effects[m]) \subseteq CardBits(app)
      OBVIOUS
    <3>1. m \in DOMAIN p.effects /\ p.effects[m].ids # NoFilter
      BY DEF Slots
    <3>2. p.effects[m].ids \in [Kinds -> SUBSET Nat]
      BY <3>1 DEF IsRequest
    <3>3. p.effects[m].count \in 1 .. 3
      BY <3>1, AcceptedRequest
    <3> QED
      BY <3>1, <3>2, <3>3, SlotOfCards
  <2> QED
    BY <2>1, <2>2
<1>3. CASE p.support # NoFilter
  <2>1. bit \in OnLine(app, "Ec", p.support)
    <3>1. OnLine(app, "Ec", p.support) \in {OnLine(app, "Ec", ids) : ids \in {p.support} \ {NoFilter}}
      BY <1>3
    <3> QED
      BY <1>1, <3>1 DEF Groups
  <2>2. p.support \in [Kinds -> SUBSET Nat]
    BY DEF IsRequest
  <2> QED
    BY <1>3, <2>1, <2>2, OnLineOfCards
<1>4. CASE p.factions # {}
  <2>1. bit \in FactionBits(app, p.factions)
    <3>1. FactionBits(app, p.factions) \in {FactionBits(app, fs) : fs \in {p.factions} \ {{}}}
      BY <1>4
    <3> QED
      BY <1>1, <3>1 DEF Groups
  <2> QED
    BY <2>1, BitsOfCards DEF FactionBits
<1>5. CASE DOMAIN p.costs # {}
  <2>1. PICK s \in DOMAIN p.costs : TRUE
    BY <1>5
  <2>2. DOMAIN p.costs[s] # {} /\ DOMAIN p.costs[s] \subseteq ToSet(Bounds) \cup {"exact", "array"}
    BY DEF IsRequest
  <2>3. Read(p.costs[s]) # {}
    BY <2>2, AcceptedRequest, ReadIsOne
  <2>4. bit \in CostBits(app, s, p.costs[s])
    <3>1. CostBits(app, s, p.costs[s]) \in {CostBits(app, t, p.costs[t]) : t \in {u \in DOMAIN p.costs : Read(p.costs[u]) # {}}}
      BY <2>3
    <3> QED
      BY <1>1, <3>1 DEF Groups
  <2> QED
    BY <2>4, BitsOfCards DEF CostBits
<1> QED
  BY <1>2, <1>3, <1>4, <1>5

LEMMA AnswerReads ==
    ASSUME NEW d, IsDataset(d), NEW app, IsSnapshot(app, d), NEW p, IsRequest(p), Status(app, p) = 200
    PROVE  Answer(app, p) \cap CardBits(app) = MatchingBits(app, p)
<1>1. app.cards = d.cards
  BY SnapshotFields
<1>2. CardBits(app) = {d.cards[n].bit : n \in DOMAIN d.cards}
  BY <1>1 DEF CardBits, ToSet
<1>3. MatchingBits(app, p) = {d.cards[n].bit : n \in {m \in DOMAIN d.cards : Matches(app, d.cards[m], p)}}
  BY <1>1 DEF MatchingBits, ToSet
<1>4. \A n \in DOMAIN d.cards : d.cards[n].bit \in Answer(app, p) <=> Matches(app, d.cards[n], p)
  BY AnswerHasCard
<1>5. \A m, n \in DOMAIN d.cards : d.cards[m].bit = d.cards[n].bit => m = n
  BY SnapshotFields DEF IsDataset, Tiles
<1> QED
  BY <1>2, <1>3, <1>4, <1>5

(***************************************************************************)
(* The invariant: the index under construction has the cards done, the one  *)
(* served has a whole dataset, and what the client was told by one index    *)
(* alone is what that index still says                                      *)
(***************************************************************************)
Serves(app, n) == app.build \in 1 .. n /\ \E d \in Datasets : IsSnapshot(app, d)

\* What a client has been given of an answer, page by page
PagedSoFar(all, got, reply) ==
    /\ Len(got) \in 0 .. Len(all) /\ got = SubSeq(all, 1, Len(got))
    /\ reply.total = Len(all)
    /\ IF reply.cursor = <<>> THEN got = all ELSE Len(got) # 0 /\ reply.cursor = <<all[Len(got)]>>

\* What a client is told by family
CountedSo(app, bits, reply) == reply.families = FamiliesOf(app, bits) /\ reply.total = Cardinality(bits)

ListingInv(app, c) ==
    /\ c.phase # "options" /\ c.phase = IF c.reply.cursor # <<>> THEN "paging" ELSE "over"
    /\ c.reply.cursor # <<>> => c.reply.status = 200 /\ ~c.p.families
    /\ c.seen = {app.build} /\ c.reply.status = 200 =>
            /\ Status(app, c.p) = 200
            /\ ~c.p.families => PagedSoFar(Sorted(Answer(app, c.p)), c.got, c.reply)
            /\ c.p.families => CountedSo(app, Answer(app, c.p), c.reply)

OptionsInv(app, c) ==
    /\ c.phase = "options" /\ c.kind \in Kinds
    /\ c.seen = {app.build} =>
            /\ Status(app, c.p) = 200
            /\ c.offered = Offered(app, c.p, c.kind, c.region)

ChatInv(app, c) ==
    /\ IsRequest(c.p)
    /\ c.seen # {} /\ c.seen \subseteq 1 .. app.build
    /\ ListingInv(app, c) \/ OptionsInv(app, c)

Inv ==
    /\ data \in Datasets /\ done \in 0 .. Len(data.cards) /\ Recorded(index, data.cards, done)
    /\ builds \in Nat \ {0}
    /\ served = NoApp \/ Serves(served, builds)
    /\ chat = Quiet \/ (Serves(served, builds) /\ ChatInv(served, chat))

\* Two requests that filter alike have the same answer; a page of it may be asked for elsewhere.
FilterAlike(p, q) ==
    /\ p.effects = q.effects /\ p.mode = q.mode /\ p.support = q.support /\ p.factions = q.factions
    /\ p.sets = q.sets /\ p.costs = q.costs /\ p.name = q.name
    /\ p.format = q.format /\ p.collection = q.collection

LEMMA AlikeAnswers == ASSUME NEW app, NEW p, NEW q, FilterAlike(p, q) PROVE Answer(app, p) = Answer(app, q)
<1>1. Slots(p) = Slots(q)
  BY DEF Slots, FilterAlike
<1>2. Format(app, p, TRUE) = Format(app, q, TRUE) /\ Format(app, p, FALSE) = Format(app, q, FALSE)
  BY DEF Format, FilterAlike
<1>3. Groups(app, p) = Groups(app, q)
  BY <1>1, <1>2 DEF Groups, FilterAlike
<1> QED
  BY <1>2, <1>3 DEF Answer

\* The request of the next page
LEMMA NextRequest ==
    ASSUME NEW p, IsRequest(p), NEW cursor
    PROVE  LET q == [p EXCEPT !.cursor = cursor]
           IN  IsRequest(q) /\ FilterAlike(q, p) /\ q.cursor = cursor /\ q.families = p.families /\ q.limit = p.limit
<1> DEFINE q == [p EXCEPT !.cursor = cursor]
<1>1. p = [field \in RequestFields |-> p[field]]
  BY DEF IsRequest
<1>2. /\ q = [field \in RequestFields |-> q[field]]
      /\ q.cursor = cursor
      /\ \A field \in RequestFields \ {"cursor"} : q[field] = p[field]
  BY <1>1 DEF RequestFields
<1>3. /\ q.limit = p.limit /\ q.effects = p.effects /\ q.mode = p.mode /\ q.support = p.support
      /\ q.factions = p.factions /\ q.sets = p.sets /\ q.costs = p.costs /\ q.name = p.name
      /\ q.families = p.families /\ q.format = p.format /\ q.collection = p.collection
  BY <1>2 DEF RequestFields
<1> HIDE DEF q
<1>4. FilterAlike(q, p)
  BY <1>3 DEF FilterAlike
<1>5. \A field \in {"name", "format", "collection"} : q[field] \in Seq(STRING) /\ Len(q[field]) <= 1
  <2>1. \A field \in {"name", "format", "collection"} : p[field] \in Seq(STRING) /\ Len(p[field]) <= 1
    BY DEF IsRequest
  <2> QED
    BY <2>1, <1>2 DEF RequestFields
<1>6. /\ q.limit \in Nat
      /\ \A n \in DOMAIN q.effects : q.effects[n] \in [ids : [Kinds -> SUBSET Nat], count : Nat]
      /\ q.support \in [Kinds -> SUBSET Nat]
  BY <1>3 DEF IsRequest
<1>7. \A s \in DOMAIN q.costs :
            /\ s \in Stats
            /\ DOMAIN q.costs[s] # {} /\ DOMAIN q.costs[s] \subseteq ToSet(Bounds) \cup {"exact", "array"}
            /\ \A k \in DOMAIN q.costs[s] : q.costs[s][k] \in SUBSET Nat
  BY <1>3 DEF IsRequest
<1>8. IsRequest(q)
  BY <1>2, <1>5, <1>6, <1>7 DEF IsRequest
<1> QED
  BY <1>2, <1>3, <1>4, <1>8 DEF q

\* The snapshot after a collection was posted
Posted(app, id) == [app EXCEPT !.collections = Extend(@, id, RefBits(app.families, Collections[id]))]

\* A posted collection changes no answer for a request that names one known before.
LEMMA PostedFields ==
    ASSUME NEW d, IsDataset(d), NEW app, IsSnapshot(app, d), NEW id \in DOMAIN Collections,
           AllFound(app.families, Collections[id])
    PROVE  LET new == Posted(app, id)
           IN  /\ IsSnapshot(new, d)
               /\ new.build = app.build /\ new.families = app.families /\ new.span = app.span
               /\ new.cards = app.cards /\ new.index = app.index /\ new.formats = app.formats
               /\ DOMAIN app.collections \subseteq DOMAIN new.collections
               /\ \A c \in DOMAIN app.collections : new.collections[c] = app.collections[c]
<1> DEFINE new == Posted(app, id)
           bits == RefBits(app.families, Collections[id])
<1>0. app = [ build |-> app.build, families |-> d.families, span |-> d.span, cards |-> d.cards,
              index |-> app.index, formats |-> app.formats, collections |-> app.collections ]
  BY DEF IsSnapshot
<1>1. new = [ build |-> app.build, families |-> d.families, span |-> d.span, cards |-> d.cards,
              index |-> app.index, formats |-> app.formats, collections |-> Extend(app.collections, id, bits) ]
  BY <1>0 DEF Posted
<1>2. /\ DOMAIN new.collections = DOMAIN app.collections \cup {id}
      /\ \A c \in DOMAIN app.collections : c # id => new.collections[c] = app.collections[c]
      /\ new.collections[id] = bits
  BY <1>1 DEF Extend
<1>3. id \in DOMAIN app.collections => app.collections[id] = bits
  BY <1>0 DEF IsSnapshot
<1>4. /\ new.build = app.build /\ new.families = app.families /\ new.span = app.span
      /\ new.cards = app.cards /\ new.index = app.index /\ new.formats = app.formats
      /\ app.families = d.families
  BY <1>0, <1>1
<1>5. new = [ build |-> new.build, families |-> d.families, span |-> d.span, cards |-> d.cards,
              index |-> new.index, formats |-> new.formats, collections |-> new.collections ]
  BY <1>1
<1> HIDE DEF new, bits
<1>6. \A c \in DOMAIN new.collections :
            /\ c \in DOMAIN Collections
            /\ AllFound(d.families, Collections[c])
            /\ new.collections[c] = RefBits(d.families, Collections[c])
  BY <1>2, <1>3, <1>4 DEF IsSnapshot, bits
<1>7. IsSnapshot(new, d)
  BY <1>4, <1>5, <1>6 DEF IsSnapshot
<1> QED
  BY <1>2, <1>3, <1>4, <1>7 DEF new

\* The collection a request names is known to the snapshot.
Knows(app, p) == ToSet(p.collection) \subseteq DOMAIN app.collections

LEMMA PostedKeeps ==
    ASSUME NEW d, IsDataset(d), NEW app, IsSnapshot(app, d), NEW id \in DOMAIN Collections,
           AllFound(app.families, Collections[id]), NEW p
    PROVE  /\ Knows(app, p) => Answer(Posted(app, id), p) = Answer(app, p)
           /\ Status(app, p) = 200 => Status(Posted(app, id), p) = 200
<1> DEFINE new == Posted(app, id)
<1>1. /\ new.build = app.build /\ new.families = app.families /\ new.span = app.span
      /\ new.cards = app.cards /\ new.index = app.index /\ new.formats = app.formats
      /\ DOMAIN app.collections \subseteq DOMAIN new.collections
      /\ \A c \in DOMAIN app.collections : new.collections[c] = app.collections[c]
  BY PostedFields
<1> HIDE DEF new
<1>2. AllBits(new) = AllBits(app)
  BY <1>1 DEF AllBits
<1>3. /\ \A line, ids : OnLine(new, line, ids) = OnLine(app, line, ids)
      /\ \A fs : FactionBits(new, fs) = FactionBits(app, fs)
      /\ \A s, cost : CostBits(new, s, cost) = CostBits(app, s, cost)
      /\ \A neg : Format(new, p, neg) = Format(app, p, neg)
  BY <1>1, <1>2 DEF OnLine, FactionBits, CostBits, Format
<1>4. \A slot : SlotBits(new, slot) = SlotBits(app, slot)
  BY <1>2, <1>3 DEF SlotBits
<1>5. ASSUME Knows(app, p) PROVE Answer(new, p) = Answer(app, p)
  <2>1. {new.collections[c] : c \in ToSet(p.collection)} = {app.collections[c] : c \in ToSet(p.collection)}
    BY <1>1, <1>5 DEF Knows
  <2>2. {SlotBits(new, p.effects[n]) : n \in Slots(p)} = {SlotBits(app, p.effects[n]) : n \in Slots(p)}
    BY <1>4
  <2>3. {OnLine(new, "Ec", ids) : ids \in {p.support} \ {NoFilter}} = {OnLine(app, "Ec", ids) : ids \in {p.support} \ {NoFilter}}
    BY <1>3
  <2>4. {FactionBits(new, fs) : fs \in {p.factions} \ {{}}} = {FactionBits(app, fs) : fs \in {p.factions} \ {{}}}
    BY <1>3
  <2>5. {CostBits(new, s, p.costs[s]) : s \in {t \in DOMAIN p.costs : Read(p.costs[t]) # {}}}
            = {CostBits(app, s, p.costs[s]) : s \in {t \in DOMAIN p.costs : Read(p.costs[t]) # {}}}
    BY <1>3
  <2>6. Groups(new, p) = Groups(app, p)
    <3>1. /\ {SetBits(new.families, sets) : sets \in {p.sets} \ {{}}} = {SetBits(app.families, sets) : sets \in {p.sets} \ {{}}}
          /\ {NameBits(new.families, needle) : needle \in ToSet(p.name)} = {NameBits(app.families, needle) : needle \in ToSet(p.name)}
      BY <1>1
    <3>2. Format(new, p, FALSE) = Format(app, p, FALSE)
      BY <1>3
    <3>3. Combined(p.mode, {SlotBits(new, p.effects[n]) : n \in Slots(p)}) = Combined(p.mode, {SlotBits(app, p.effects[n]) : n \in Slots(p)})
      BY <2>2
    <3> QED
      BY <2>1, <2>3, <2>4, <2>5, <3>1, <3>2, <3>3 DEF Groups
  <2> QED
    BY <1>2, <1>3, <2>6 DEF Answer
<1>6. ASSUME Status(app, p) = 200 PROVE Status(new, p) = 200
  <2>1. BadRequest(new, p) <=> BadRequest(app, p)
    BY <1>1 DEF BadRequest, BadSets
  <2> QED
    BY <1>1, <1>6, <2>1 DEF Status
<1> QED
  BY <1>5, <1>6 DEF new

\* What is published of an index that has all of its dataset
LEMMA PublishedSnapshot ==
    ASSUME NEW d, IsDataset(d), NEW ix, Recorded(ix, d.cards, Len(d.cards)), NEW n
    PROVE  IsSnapshot(SnapshotOf(n, d, ix), d) /\ SnapshotOf(n, d, ix).build = n
BY DEF SnapshotOf, IsSnapshot

(***************************************************************************)
(* The order of an answer                                                  *)
(***************************************************************************)
Rank(S, x) == Cardinality({y \in S : y < x})

LEMMA AnswerIsFinite ==
    ASSUME NEW d, IsDataset(d), NEW app, IsSnapshot(app, d), NEW p
    PROVE  /\ Answer(app, p) \in SUBSET Nat /\ IsFiniteSet(Answer(app, p))
           /\ \A bit \in Answer(app, p) : bit < app.span
<1>1. app.span \in Nat
  BY SnapshotFields, MaxBitAssumption DEF IsDataset, Tiles
<1>2. Answer(app, p) \in SUBSET (0 .. app.span - 1)
  BY DEF Answer, AllBits
<1>3. IsFiniteSet(0 .. app.span - 1)
  BY <1>1, FS_Interval
<1>4. IsFiniteSet(Answer(app, p))
  BY <1>2, <1>3, FS_Subset
<1> QED
  BY <1>1, <1>2, <1>4

\* A greater member has a greater rank.
LEMMA RankGrows ==
    ASSUME NEW S \in SUBSET Nat, IsFiniteSet(S), NEW x \in S
    PROVE  /\ Rank(S, x) \in 0 .. Cardinality(S) - 1
           /\ \A y \in S : x < y => Rank(S, x) < Rank(S, y)
<1> DEFINE below(y) == {z \in S : z < y}
<1>1. \A y : IsFiniteSet(below(y)) /\ Cardinality(below(y)) \in Nat
  <2> SUFFICES ASSUME NEW y PROVE IsFiniteSet(below(y)) /\ Cardinality(below(y)) \in Nat
    OBVIOUS
  <2>1. below(y) \in SUBSET S
    OBVIOUS
  <2> QED
    BY <2>1, FS_Subset, FS_CardinalityType
<1>2. Cardinality(below(x) \cup {x}) = Cardinality(below(x)) + 1 /\ IsFiniteSet(below(x) \cup {x})
  <2>1. x \notin below(x)
    OBVIOUS
  <2>2. IsFiniteSet(below(x))
    BY <1>1
  <2> HIDE DEF below
  <2> QED
    BY <2>1, <2>2, FS_AddElement
<1>3. Cardinality(below(x) \cup {x}) <= Cardinality(S) /\ Cardinality(S) \in Nat
  <2>1. below(x) \cup {x} \in SUBSET S
    OBVIOUS
  <2> HIDE DEF below
  <2> QED
    BY <2>1, FS_Subset, FS_CardinalityType
<1>4. ASSUME NEW y \in S, x < y PROVE Cardinality(below(x) \cup {x}) <= Cardinality(below(y))
  <2>1. below(x) \cup {x} \in SUBSET below(y)
    <3>1. \A z \in S : z \in Nat
      OBVIOUS
    <3>2. ASSUME NEW z \in S, z < x PROVE z < y
      BY <1>4, <3>1, <3>2
    <3> QED
      BY <1>4, <3>2
  <2>2. IsFiniteSet(below(y))
    BY <1>1
  <2> HIDE DEF below
  <2> QED
    BY <2>1, <2>2, FS_Subset
<1>5. Cardinality(below(x)) \in Nat /\ \A y : Cardinality(below(y)) \in Nat
  BY <1>1
<1>6. Cardinality(below(x)) \in 0 .. Cardinality(S) - 1
  <2> HIDE DEF below
  <2> QED
    BY <1>2, <1>3, <1>5
<1>7. ASSUME NEW y \in S, x < y PROVE Cardinality(below(x)) < Cardinality(below(y))
  <2>1. Cardinality(below(x) \cup {x}) <= Cardinality(below(y))
    BY <1>4, <1>7
  <2>2. Cardinality(below(y)) \in Nat
    BY <1>5
  <2> HIDE DEF below
  <2> QED
    BY <1>2, <1>5, <2>1, <2>2
<1> QED
  BY <1>6, <1>7 DEF Rank

LEMMA RankTells ==
    ASSUME NEW S \in SUBSET Nat, IsFiniteSet(S), NEW x \in S, NEW y \in S, Rank(S, x) = Rank(S, y)
    PROVE  x = y
<1>1. x < y => Rank(S, x) < Rank(S, y)
  BY RankGrows
<1>2. y < x => Rank(S, y) < Rank(S, x)
  BY RankGrows
<1>3. Rank(S, x) \in 0 .. Cardinality(S) - 1
  BY RankGrows
<1>4. Cardinality(S) \in Nat
  BY FS_CardinalityType
<1>5. ~(x < y) /\ ~(y < x)
  BY <1>1, <1>2, <1>3, <1>4
<1> QED
  BY <1>5

\* Every rank is taken, as no two members have the same.
LEMMA RankTaken ==
    ASSUME NEW S \in SUBSET Nat, IsFiniteSet(S), NEW k \in 0 .. Cardinality(S) - 1
    PROVE  \E x \in S : Rank(S, x) = k
<1> DEFINE rank == [x \in S |-> Rank(S, x)]
           T == (0 .. Cardinality(S) - 1) \ {k}
<1> SUFFICES ASSUME ~\E x \in S : Rank(S, x) = k PROVE FALSE
  OBVIOUS
<1>1. Cardinality(S) \in Nat
  BY FS_CardinalityType
<1>2. IsFiniteSet(T) /\ Cardinality(T) = Cardinality(S) - 1
  <2>1. IsFiniteSet(0 .. Cardinality(S) - 1) /\ Cardinality(0 .. Cardinality(S) - 1) = Cardinality(S)
    <3>1. 0 \in Int /\ Cardinality(S) - 1 \in Int
      BY <1>1
    <3>2. /\ IsFiniteSet(0 .. Cardinality(S) - 1)
          /\ Cardinality(0 .. Cardinality(S) - 1) = IF 0 > Cardinality(S) - 1 THEN 0 ELSE Cardinality(S) - 1 - 0 + 1
      BY <3>1, FS_Interval
    <3> QED
      BY <1>1, <3>2
  <2> QED
    BY <2>1, FS_RemoveElement
<1>3. rank \in [S -> T]
  <2>1. \A x \in S : Rank(S, x) \in 0 .. Cardinality(S) - 1
    BY RankGrows
  <2> QED
    BY <2>1
<1>4. Cardinality(T) < Cardinality(S)
  BY <1>1, <1>2
<1>5. \E x, y \in S : x # y /\ rank[x] = rank[y]
  <2> HIDE DEF T, rank
  <2> QED
    BY <1>2, <1>3, <1>4, FS_PigeonHole
<1> QED
  BY <1>5, RankTells

\* Sorted lists the members by rank.
LEMMA SortedRanks ==
    ASSUME NEW S \in SUBSET Nat, IsFiniteSet(S)
    PROVE  /\ Sorted(S) \in Seq(S) /\ Len(Sorted(S)) = Cardinality(S)
           /\ \A n \in 1 .. Cardinality(S) : Sorted(S)[n] \in S /\ Rank(S, Sorted(S)[n]) = n - 1
           /\ \A x \in S : Sorted(S)[Rank(S, x) + 1] = x
<1> DEFINE member(n) == CHOOSE x \in S : Cardinality({b \in S : b < x}) = n - 1
<1>0. Sorted(S) = [n \in 1 .. Cardinality(S) |-> member(n)]
  BY Zenon DEF Sorted
<1>1. Cardinality(S) \in Nat
  BY FS_CardinalityType
<1>2. ASSUME NEW n \in 1 .. Cardinality(S)
      PROVE  Sorted(S)[n] \in S /\ Rank(S, Sorted(S)[n]) = n - 1
  <2>1. n - 1 \in 0 .. Cardinality(S) - 1
    BY <1>1
  <2>2. \E x \in S : Cardinality({b \in S : b < x}) = n - 1
    BY <2>1, RankTaken DEF Rank
  <2>3. member(n) \in S /\ Cardinality({b \in S : b < member(n)}) = n - 1
    BY <2>2, Zenon
  <2>4. Sorted(S)[n] = member(n)
    BY <1>0, Zenon
  <2> QED
    BY <2>3, <2>4 DEF Rank
<1> HIDE DEF member
<1>3. DOMAIN Sorted(S) = 1 .. Cardinality(S) /\ Sorted(S) = [n \in 1 .. Cardinality(S) |-> Sorted(S)[n]]
  BY <1>0
<1>4. Sorted(S) \in [1 .. Cardinality(S) -> S]
  BY <1>2, <1>3
<1>5. Sorted(S) \in Seq(S) /\ Len(Sorted(S)) = Cardinality(S)
  BY <1>1, <1>4
<1>6. ASSUME NEW x \in S PROVE Sorted(S)[Rank(S, x) + 1] = x
  <2>1. Rank(S, x) \in 0 .. Cardinality(S) - 1
    BY RankGrows
  <2>2. PICK n \in 1 .. Cardinality(S) : n = Rank(S, x) + 1 /\ n - 1 = Rank(S, x)
    BY <1>1, <2>1
  <2>3. Sorted(S)[n] \in S /\ Rank(S, Sorted(S)[n]) = Rank(S, x)
    BY <1>2, <2>2
  <2>4. Sorted(S)[n] = x
    <3> DEFINE y == Sorted(S)[n]
    <3>1. y \in S /\ Rank(S, x) = Rank(S, y)
      BY <2>3
    <3> HIDE DEF y
    <3>2. x = y
      BY <3>1, RankTells
    <3> QED
      BY <3>2 DEF y
  <2> QED
    BY <2>2, <2>4
<1> QED
  BY <1>2, <1>5, <1>6

\* What comes after the k-th member, sorted, is the rest of the sorted whole.
LEMMA SortedAfter ==
    ASSUME NEW S \in SUBSET Nat, IsFiniteSet(S), NEW k \in 1 .. Cardinality(S)
    PROVE  LET rest == After(S, <<Sorted(S)[k]>>)
           IN  /\ rest \in SUBSET Nat /\ IsFiniteSet(rest) /\ Cardinality(rest) = Cardinality(S) - k
               /\ \A n \in 1 .. Cardinality(rest) : Sorted(rest)[n] = Sorted(S)[k + n]
<1> DEFINE c == Sorted(S)[k]
           rest == After(S, <<c>>)
           upto == {y \in S : y < c} \cup {c}
<1>1. Cardinality(S) \in Nat
  BY FS_CardinalityType
<1>2. c \in S /\ Rank(S, c) = k - 1
  BY SortedRanks
<1>3. rest = {y \in S : y > c}
  <2>1. ToSet(<<c>>) = {c}
    <3> HIDE DEF c
    <3> QED
      BY DEF ToSet
  <2> HIDE DEF c
  <2> QED
    BY <2>1 DEF After
<1> HIDE DEF c, rest
<1>4. IsFiniteSet(upto) /\ Cardinality(upto) = k
  <2>1. IsFiniteSet({y \in S : y < c})
    BY FS_Subset
  <2>2. Cardinality({y \in S : y < c}) = k - 1 /\ c \notin {y \in S : y < c}
    BY <1>2 DEF Rank
  <2> DEFINE early == {y \in S : y < c}
  <2>3. IsFiniteSet(early) /\ Cardinality(early) = k - 1 /\ c \notin early /\ upto = early \cup {c}
    BY <2>1, <2>2
  <2> HIDE DEF early
  <2>4. IsFiniteSet(early \cup {c}) /\ Cardinality(early \cup {c}) = Cardinality(early) + 1
    BY <2>3, FS_AddElement
  <2> QED
    BY <1>1, <2>3, <2>4
<1>5. rest \in SUBSET Nat /\ rest \in SUBSET S /\ IsFiniteSet(rest)
  BY <1>3, FS_Subset
<1>6. ASSUME NEW x \in rest PROVE Rank(S, x) = k + Rank(rest, x)
  <2> DEFINE early == {y \in rest : y < x}
  <2>0. /\ \A y \in S : y \in Nat
        /\ x \in S /\ x > c /\ c \in S /\ upto = {y \in S : y < c} \cup {c} /\ early = {y \in S : y > c /\ y < x}
    BY <1>2, <1>3, <1>6
  <2>1. {y \in S : y < x} = upto \cup early /\ upto \cap early = {}
    <3> HIDE DEF upto, early
    <3>1. \A y \in S : y < x <=> y < c \/ y = c \/ (y > c /\ y < x)
      BY <2>0
    <3>2. \A y \in S : ~(y > c /\ (y < c \/ y = c))
      BY <2>0
    <3> QED
      BY <2>0, <3>1, <3>2
  <2>2. IsFiniteSet(early)
    BY <1>5, FS_Subset
  <2> HIDE DEF upto, early
  <2>3. Cardinality(upto \cup early) = Cardinality(upto) + Cardinality(early) - Cardinality({})
    BY <1>4, <2>1, <2>2, FS_Union
  <2>4. Cardinality({}) = 0 /\ Cardinality(early) \in Nat
    BY <2>2, FS_EmptySet, FS_CardinalityType
  <2>5. Cardinality({y \in S : y < x}) = k + Cardinality(early)
    <3>1. Cardinality({y \in S : y < x}) = Cardinality(upto \cup early) /\ upto \cap early = {}
      BY <2>1
    <3> QED
      BY <1>4, <2>3, <2>4, <3>1
  <2> QED
    BY <2>5 DEF Rank, early
<1>7. Cardinality(rest) = Cardinality(S) - k
  <2>1. S = upto \cup rest /\ upto \cap rest = {}
    <3>1. \A y \in S : y \in Nat
      OBVIOUS
    <3>2. \A y \in S : (y > c <=> ~(y < c \/ y = c))
      BY <1>2, <3>1
    <3> QED
      BY <1>2, <1>3, <3>2
  <2> HIDE DEF upto
  <2>2. Cardinality(upto \cup rest) = Cardinality(upto) + Cardinality(rest) - Cardinality({})
    BY <1>4, <1>5, <2>1, FS_Union
  <2>3. Cardinality({}) = 0 /\ Cardinality(rest) \in Nat
    BY <1>5, FS_EmptySet, FS_CardinalityType
  <2> QED
    BY <1>1, <1>4, <2>1, <2>2, <2>3
<1>8. ASSUME NEW n \in 1 .. Cardinality(rest) PROVE Sorted(rest)[n] = Sorted(S)[k + n]
  <2>1. Sorted(rest)[n] \in rest /\ Rank(rest, Sorted(rest)[n]) = n - 1
    BY <1>5, <1>8, SortedRanks
  <2>2. Rank(S, Sorted(rest)[n]) + 1 = k + n
    BY <1>6, <2>1
  <2>3. Sorted(S)[Rank(S, Sorted(rest)[n]) + 1] = Sorted(rest)[n]
    BY <1>5, <2>1, SortedRanks
  <2> QED
    BY <2>2, <2>3
<1> QED
  BY <1>5, <1>7, <1>8 DEF rest, c

LEMMA MinOfTwo ==
    ASSUME NEW a \in Nat, NEW b \in Nat
    PROVE  Min({a, b}) = IF a <= b THEN a ELSE b
<1>1. CASE a <= b
  <2>1. \E x \in {a, b} : \A y \in {a, b} : x <= y
    BY <1>1
  <2>2. Min({a, b}) \in {a, b} /\ \A y \in {a, b} : Min({a, b}) <= y
    BY <2>1, Zenon DEF Min
  <2> QED
    BY <1>1, <2>2
<1>2. CASE ~(a <= b)
  <2>1. \E x \in {a, b} : \A y \in {a, b} : x <= y
    BY <1>2
  <2>2. Min({a, b}) \in {a, b} /\ \A y \in {a, b} : Min({a, b}) <= y
    BY <2>1, Zenon DEF Min
  <2> QED
    BY <1>2, <2>2
<1> QED
  BY <1>1, <1>2

\* The page after the k-th member continues the enumeration; a page that is not full ends it.
LEMMA PageContinues ==
    ASSUME NEW S \in SUBSET Nat, IsFiniteSet(S), NEW k \in 0 .. Cardinality(S), NEW limit \in Nat \ {0},
           NEW cursor, cursor = IF k = 0 THEN <<>> ELSE <<Sorted(S)[k]>>
    PROVE  LET page == PageOf(S, cursor, limit)
           IN  /\ Len(page) \in 0 .. Cardinality(S) - k /\ page \in Seq(S)
               /\ \A n \in 1 .. Len(page) : page[n] = Sorted(S)[k + n]
               /\ Len(page) # limit => Len(page) = Cardinality(S) - k
<1> DEFINE rest == After(S, cursor)
           length == Min({limit, Cardinality(rest)})
           page == PageOf(S, cursor, limit)
<1>1. Cardinality(S) \in Nat
  BY FS_CardinalityType
<1>2. /\ rest \in SUBSET S /\ IsFiniteSet(rest) /\ Cardinality(rest) = Cardinality(S) - k
      /\ \A n \in 1 .. Cardinality(rest) : Sorted(rest)[n] = Sorted(S)[k + n]
  <2>1. CASE k = 0
    <3>1. ToSet(<<>>) = {}
      BY DEF ToSet
    <3>2. rest = S
      BY <2>1, <3>1 DEF After
    <3> QED
      BY <1>1, <2>1, <3>2
  <2>2. CASE k # 0
    <3>1. k \in 1 .. Cardinality(S) /\ cursor = <<Sorted(S)[k]>>
      BY <2>2
    <3>2. rest \in SUBSET S
      BY DEF After
    <3> QED
      BY <3>1, <3>2, SortedAfter
  <2> QED
    BY <2>1, <2>2
<1> HIDE DEF rest
<1>3. Sorted(rest) \in Seq(rest) /\ Len(Sorted(rest)) = Cardinality(rest) /\ Cardinality(rest) \in Nat
  BY <1>1, <1>2, SortedRanks, FS_CardinalityType
<1>4. page = SubSeq(Sorted(rest), 1, length)
  BY <1>3 DEF PageOf, rest
<1>5. length \in 0 .. Cardinality(rest) /\ (length # limit => length = Cardinality(rest))
  BY <1>3, MinOfTwo
<1> HIDE DEF page, length
<1>6. page \in Seq(S) /\ Len(page) = length /\ \A n \in 1 .. length : page[n] = Sorted(rest)[n]
  <2>0. \A n \in 1 .. Cardinality(rest) : Sorted(rest)[n] \in rest
    BY <1>2, SortedRanks
  <2>1. ASSUME NEW n \in 1 .. length PROVE Sorted(rest)[n] \in S
    <3>1. n \in 1 .. Cardinality(rest)
      BY <1>3, <1>5
    <3>2. Sorted(rest)[n] \in rest
      BY <2>0, <3>1
    <3> QED
      BY <1>2, <3>2
  <2>2. 1 \in Int /\ length \in Int /\ length \in Nat
    BY <1>3, <1>5
  <2> QED
    BY <1>4, <2>1, <2>2, SubSeqProperties
<1>7. page \in Seq(S)
  BY <1>6
<1>8. \A n \in 1 .. length : page[n] = Sorted(S)[k + n]
  BY <1>2, <1>3, <1>5, <1>6
<1> QED
  BY <1>2, <1>5, <1>6, <1>7, <1>8 DEF page

\* What a client has after a page, if it had the answer up to the cursor
LEMMA ListingContinues ==
    ASSUME NEW S \in SUBSET Nat, IsFiniteSet(S), NEW k \in 0 .. Cardinality(S), NEW limit \in Nat \ {0},
           NEW cursor, cursor = IF k = 0 THEN <<>> ELSE <<Sorted(S)[k]>>,
           NEW p, p.limit = limit, NEW reply,
           reply.cards = PageOf(S, cursor, limit), reply.total = Cardinality(S),
           reply.cursor = NextCursor(p, reply.cards)
    PROVE  PagedSoFar(Sorted(S), SubSeq(Sorted(S), 1, k) \o reply.cards, reply)
<1> DEFINE all == Sorted(S)
           page == reply.cards
           got == SubSeq(all, 1, k) \o page
           m == k + Len(page)
<1>1. Cardinality(S) \in Nat
  BY FS_CardinalityType
<1>2. all \in Seq(S) /\ Len(all) = Cardinality(S)
  BY SortedRanks
<1>3. /\ Len(page) \in 0 .. Cardinality(S) - k /\ page \in Seq(S)
      /\ \A n \in 1 .. Len(page) : page[n] = all[k + n]
      /\ Len(page) # limit => Len(page) = Cardinality(S) - k
  <2> DEFINE next == PageOf(S, cursor, limit)
  <2>1. /\ Len(next) \in 0 .. Cardinality(S) - k /\ next \in Seq(S)
        /\ \A n \in 1 .. Len(next) : next[n] = all[k + n]
        /\ Len(next) # limit => Len(next) = Cardinality(S) - k
    BY PageContinues, SMTT(30)
  <2> HIDE DEF all
  <2> QED
    BY <2>1
<1>4. reply.cursor = IF Len(page) = limit THEN <<page[Len(page)]>> ELSE <<>>
  BY DEF NextCursor, Last
<1> HIDE DEF all, page
<1>5. /\ SubSeq(all, 1, k) \in Seq(S) /\ Len(SubSeq(all, 1, k)) = k
      /\ \A n \in 1 .. k : SubSeq(all, 1, k)[n] = all[n]
  BY <1>1, <1>2
<1>6. got \in Seq(S) /\ Len(got) = m /\ m \in 0 .. Len(all)
  BY <1>1, <1>2, <1>3, <1>5
<1>7. ASSUME NEW n \in 1 .. m PROVE got[n] = all[n]
  <2>1. CASE n \in 1 .. k
    BY <1>3, <1>5, <2>1
  <2>2. CASE n \notin 1 .. k
    <3>0. Len(page) \in Nat /\ k \in Nat /\ n \in 1 .. k + Len(page)
      BY <1>1, <1>3, <1>7
    <3>1. n - k \in 1 .. Len(page) /\ k + (n - k) = n
      BY <2>2, <3>0
    <3>2. got[n] = page[n - k]
      BY <1>3, <1>5, <2>2, <3>1
    <3> QED
      BY <1>3, <3>1, <3>2
  <2> QED
    BY <2>1, <2>2
<1>0. reply.total = Len(all)
  BY <1>2 DEF all
<1> HIDE DEF got
<1>8. /\ SubSeq(all, 1, m) \in Seq(S) /\ Len(SubSeq(all, 1, m)) = m
      /\ \A n \in 1 .. m : SubSeq(all, 1, m)[n] = all[n]
  BY <1>2, <1>6
<1>9. got = SubSeq(all, 1, m)
  BY <1>6, <1>7, <1>8
<1>10. m = Len(all) => got = all
  BY <1>2, <1>6, <1>7
<1>11. CASE Len(page) = limit
  <2>1. Len(page) \in 1 .. Len(page) /\ m # 0
    BY <1>1, <1>3, <1>11
  <2>2. reply.cursor = <<all[m]>>
    BY <1>3, <1>4, <1>11, <2>1
  <2>3. PagedSoFar(all, got, reply)
    <3>0. \A x : <<x>> # <<>>
      OBVIOUS
    <3>1. Len(got) # 0 /\ reply.cursor = <<all[Len(got)]>> /\ reply.cursor # <<>>
      <4>1. Len(got) # 0 /\ reply.cursor = <<all[Len(got)]>>
        BY <1>6, <2>1, <2>2
      <4> QED
        BY <3>0, <4>1
    <3>2. Len(got) \in 0 .. Len(all) /\ got = SubSeq(all, 1, Len(got))
      BY <1>6, <1>9
    <3> QED
      BY <1>0, <3>1, <3>2 DEF PagedSoFar
  <2> QED
    BY <2>3 DEF all, got, page
<1>12. CASE Len(page) # limit
  <2>1. k + Len(page) = Cardinality(S)
    BY <1>1, <1>3, <1>12
  <2>2. m = Len(all) /\ reply.cursor = <<>>
    BY <1>2, <1>4, <1>12, <2>1
  <2>3. PagedSoFar(all, got, reply)
    BY <1>0, <1>6, <1>9, <1>10, <2>2 DEF PagedSoFar
  <2> QED
    BY <2>3 DEF all, got, page
<1> QED
  BY <1>11, <1>12

(***************************************************************************)
(* Replies                                                                 *)
(***************************************************************************)
LEMMA ReplyStatus ==
    ASSUME NEW app, NEW p
    PROVE  /\ Reply(app, p).status = Status(app, p)
           /\ Reply(app, p).cursor # <<>> => Reply(app, p).status = 200
<1>1. CASE Status(app, p) # 200
  <2>1. Reply(app, p) = Refused(Status(app, p))
    BY <1>1 DEF Reply
  <2> QED
    BY <2>1 DEF Refused
<1>2. CASE Status(app, p) = 200
  <2>1. Reply(app, p).status = 200
    BY <1>2 DEF Reply
  <2> QED
    BY <1>2, <2>1
<1> QED
  BY <1>1, <1>2

\* A reply by family is the only one.
LEMMA ReplyCounts ==
    ASSUME NEW app, NEW p, p.families, p.cursor = <<>>
    PROVE  /\ Reply(app, p).cursor = <<>>
           /\ Status(app, p) = 200 => CountedSo(app, Answer(app, p), Reply(app, p))
<1>1. CASE Status(app, p) # 200
  <2>1. Reply(app, p) = Refused(Status(app, p))
    BY <1>1 DEF Reply
  <2> QED
    BY <1>1, <2>1 DEF Refused
<1>2. CASE Status(app, p) = 200
  <2> DEFINE bits == Answer(app, p)
             fams == FamiliesOf(app, bits)
  <2>1. Reply(app, p) = [status |-> 200, total |-> Cardinality(bits), families |-> fams, cursor |-> <<>>,
                         cards |-> [i \in DOMAIN fams |-> fams[i].first]]
    BY <1>2 DEF Reply
  <2> HIDE DEF fams
  <2> QED
    BY <1>2, <2>1 DEF CountedSo, fams
<1> QED
  BY <1>1, <1>2

LEMMA ReplyContinues ==
    ASSUME NEW d, IsDataset(d), NEW app, IsSnapshot(app, d), NEW p, IsRequest(p), Status(app, p) = 200, ~p.families,
           NEW k \in 0 .. Cardinality(Answer(app, p)),
           p.cursor = IF k = 0 THEN <<>> ELSE <<Sorted(Answer(app, p))[k]>>
    PROVE  PagedSoFar(Sorted(Answer(app, p)), SubSeq(Sorted(Answer(app, p)), 1, k) \o Reply(app, p).cards, Reply(app, p))
<1> DEFINE bits == Answer(app, p)
           reply == Reply(app, p)
<1>1. p.limit \in Nat \ {0}
  BY CostAssumption DEF Status, BadRequest
<1>2. reply.cards = PageOf(bits, p.cursor, p.limit) /\ reply.total = Cardinality(bits)
      /\ reply.cursor = NextCursor(p, reply.cards)
  BY DEF Reply
<1>3. bits \in SUBSET Nat /\ IsFiniteSet(bits)
  BY AnswerIsFinite
<1> HIDE DEF bits, reply
<1>4. k \in 0 .. Cardinality(bits) /\ p.cursor = IF k = 0 THEN <<>> ELSE <<Sorted(bits)[k]>>
  BY DEF bits
<1>5. PagedSoFar(Sorted(bits), SubSeq(Sorted(bits), 1, k) \o reply.cards, reply)
  BY <1>1, <1>2, <1>3, <1>4, ListingContinues
<1> QED
  BY <1>5 DEF bits, reply

\* What is answered first
LEMMA FirstPage ==
    ASSUME NEW d, IsDataset(d), NEW app, IsSnapshot(app, d), NEW p, IsRequest(p), Status(app, p) = 200, ~p.families,
           p.cursor = <<>>
    PROVE  PagedSoFar(Sorted(Answer(app, p)), <<>> \o Reply(app, p).cards, Reply(app, p))
<1> DEFINE all == Sorted(Answer(app, p))
<1>1. all \in Seq(Nat) /\ 0 \in 0 .. Cardinality(Answer(app, p)) /\ Answer(app, p) \in SUBSET Nat
  <2>1. Answer(app, p) \in SUBSET Nat /\ IsFiniteSet(Answer(app, p))
    BY AnswerIsFinite
  <2>2. Cardinality(Answer(app, p)) \in Nat /\ all \in Seq(Answer(app, p))
    BY <2>1, FS_CardinalityType, SortedRanks
  <2> HIDE DEF all
  <2> QED
    BY <2>1, <2>2
<1>2. PagedSoFar(all, SubSeq(all, 1, 0) \o Reply(app, p).cards, Reply(app, p))
  BY <1>1, ReplyContinues
<1>3. SubSeq(all, 1, 0) = <<>>
  <2> HIDE DEF all
  <2> QED
    BY SubSeqEmpty
<1> QED
  BY <1>2, <1>3

\* What is answered next, with the cursor of the page before
LEMMA FollowingPage ==
    ASSUME NEW d, IsDataset(d), NEW app, IsSnapshot(app, d), NEW p, IsRequest(p), Status(app, p) = 200, ~p.families,
           NEW got, NEW reply, PagedSoFar(Sorted(Answer(app, p)), got, reply),
           reply.cursor # <<>>, p.cursor = reply.cursor
    PROVE  PagedSoFar(Sorted(Answer(app, p)), got \o Reply(app, p).cards, Reply(app, p))
<1> DEFINE all == Sorted(Answer(app, p))
           k == Len(got)
<1>1. Answer(app, p) \in SUBSET Nat /\ IsFiniteSet(Answer(app, p))
  BY AnswerIsFinite
<1>2. Len(all) = Cardinality(Answer(app, p))
  BY <1>1, SortedRanks
<1>3. k \in 0 .. Len(all) /\ got = SubSeq(all, 1, k) /\ k # 0 /\ p.cursor = <<all[k]>>
  <2> HIDE DEF all
  <2>1. PagedSoFar(all, got, reply)
    BY DEF all
  <2> QED
    BY <2>1 DEF PagedSoFar
<1>4. k \in 0 .. Cardinality(Answer(app, p)) /\ p.cursor = IF k = 0 THEN <<>> ELSE <<Sorted(Answer(app, p))[k]>>
  BY <1>2, <1>3
<1> HIDE DEF k
<1>5. PagedSoFar(all, SubSeq(all, 1, k) \o Reply(app, p).cards, Reply(app, p))
  BY <1>4, ReplyContinues
<1> QED
  BY <1>3, <1>5

(***************************************************************************)
(* The steps                                                               *)
(***************************************************************************)
\* A request has the collection it names, edited or not.
LEMMA AcceptedKnows ==
    ASSUME NEW d, IsDataset(d), NEW app, IsSnapshot(app, d), NEW p, IsRequest(p), Status(app, p) = 200
    PROVE  Knows(app, p) /\ \A region : Knows(app, Without(p, region))
<1>1. Knows(app, p)
  BY AcceptedRequest DEF Knows
<1>2. p = [field \in RequestFields |-> p[field]]
  BY DEF IsRequest
<1>3. ASSUME NEW region PROVE Without(p, region).collection = p.collection
  <2>1. \A x : [p EXCEPT !.support = x].collection = p.collection
    BY <1>2 DEF RequestFields
  <2>2. \A x : [p EXCEPT !.effects = x].collection = p.collection
    BY <1>2 DEF RequestFields
  <2> QED
    BY <2>1, <2>2 DEF Without
<1> QED
  BY <1>1, <1>3 DEF Knows

\* Options are offered from the answer without the line that is edited, which a posted collection keeps.
LEMMA PostedOffers ==
    ASSUME NEW d, IsDataset(d), NEW app, IsSnapshot(app, d), NEW id \in DOMAIN Collections,
           AllFound(app.families, Collections[id]), NEW p, IsRequest(p), Status(app, p) = 200,
           NEW kind, NEW region
    PROVE  Offered(Posted(app, id), p, kind, region) = Offered(app, p, kind, region)
<1> DEFINE new == Posted(app, id)
<1>1. Answer(new, Without(p, region)) = Answer(app, Without(p, region))
  BY AcceptedKnows, PostedKeeps
<1>2. new.index = app.index /\ new.span = app.span
  BY PostedFields
<1> HIDE DEF new
<1>3. \A line, ids : OnLine(new, line, ids) = OnLine(app, line, ids)
  BY <1>2 DEF OnLine, AllBits
<1> QED
  BY <1>1, <1>2, <1>3 DEF Offered, new

LEMMA PostedChat ==
    ASSUME NEW d, IsDataset(d), NEW app, IsSnapshot(app, d), NEW id \in DOMAIN Collections,
           AllFound(app.families, Collections[id]), NEW c, ChatInv(app, c)
    PROVE  ChatInv(Posted(app, id), c)
<1> DEFINE new == Posted(app, id)
<1>1. new.build = app.build /\ \A bits, reply : CountedSo(new, bits, reply) <=> CountedSo(app, bits, reply)
  <2>1. new.build = app.build /\ new.families = app.families
    BY PostedFields
  <2> HIDE DEF new
  <2>2. \A bits : FamiliesOf(new, bits) = FamiliesOf(app, bits)
    BY <2>1 DEF FamiliesOf
  <2> QED
    BY <2>1, <2>2 DEF CountedSo
<1>2. IsRequest(c.p)
  BY DEF ChatInv
<1>3. ASSUME Status(app, c.p) = 200
      PROVE  /\ Status(new, c.p) = 200 /\ Answer(new, c.p) = Answer(app, c.p)
             /\ \A kind, region : Offered(new, c.p, kind, region) = Offered(app, c.p, kind, region)
  BY <1>2, <1>3, AcceptedKnows, PostedKeeps, PostedOffers
<1> HIDE DEF new
<1>4. ASSUME ListingInv(app, c) PROVE ListingInv(new, c)
  BY <1>1, <1>3, <1>4 DEF ListingInv
<1>5. ASSUME OptionsInv(app, c) PROVE OptionsInv(new, c)
  BY <1>1, <1>3, <1>5 DEF OptionsInv
<1> QED
  BY <1>1, <1>4, <1>5 DEF ChatInv, new

\* To a client that was answered by another index, the invariant says nothing of this one.
LEMMA ReplacedChat ==
    ASSUME NEW app, app.build \in Nat, NEW new, new.build \in Nat, app.build < new.build, NEW c, ChatInv(app, c)
    PROVE  ChatInv(new, c)
<1>1. c.seen # {new.build}
  BY DEF ChatInv
<1>2. c.seen \subseteq 1 .. new.build
  BY DEF ChatInv
<1>3. ASSUME ListingInv(app, c) PROVE ListingInv(new, c)
  BY <1>1, <1>3 DEF ListingInv
<1>4. ASSUME OptionsInv(app, c) PROVE OptionsInv(new, c)
  BY <1>1, <1>4 DEF OptionsInv
<1> QED
  BY <1>2, <1>3, <1>4 DEF ChatInv

\* The record of a chat that Answered leaves, without its reference to the state
AnsweredBy(app, p, got, seen, reply) ==
    [ phase |-> IF reply.cursor # <<>> THEN "paging" ELSE "over",
      p |-> p, got |-> got \o reply.cards, seen |-> seen \cup {app.build}, reply |-> reply ]

LEMMA AnsweredChat ==
    ASSUME NEW app, app.build \in Nat \ {0}, NEW p, IsRequest(p), NEW got, NEW seen, seen \subseteq 1 .. app.build,
           p.families => p.cursor = <<>>,
           seen \subseteq {app.build} /\ Status(app, p) = 200 /\ ~p.families =>
                PagedSoFar(Sorted(Answer(app, p)), got \o Reply(app, p).cards, Reply(app, p))
    PROVE  ChatInv(app, AnsweredBy(app, p, got, seen, Reply(app, p)))
<1> DEFINE reply == Reply(app, p)
           c == AnsweredBy(app, p, got, seen, reply)
<1>1. /\ reply.status = Status(app, p) /\ (reply.cursor # <<>> => reply.status = 200 /\ ~p.families)
      /\ p.families /\ Status(app, p) = 200 => CountedSo(app, Answer(app, p), reply)
  BY ReplyStatus, ReplyCounts
<1> HIDE DEF reply
<1>2. /\ c.phase = IF reply.cursor # <<>> THEN "paging" ELSE "over"
      /\ c.p = p /\ c.got = got \o reply.cards /\ c.seen = seen \cup {app.build} /\ c.reply = reply
  BY DEF AnsweredBy
<1> HIDE DEF c
<1>3. c.phase # "options"
  BY <1>2
<1>4. c.seen = {app.build} => seen \subseteq {app.build}
  BY <1>2
<1>5. seen \subseteq {app.build} /\ Status(app, p) = 200 /\ ~p.families =>
            PagedSoFar(Sorted(Answer(app, p)), c.got, reply)
  BY <1>2 DEF reply
<1>6. ListingInv(app, c)
  BY <1>1, <1>2, <1>3, <1>4, <1>5 DEF ListingInv
<1>7. c.seen # {} /\ c.seen \subseteq 1 .. app.build
  <2>1. app.build \in 1 .. app.build
    OBVIOUS
  <2> QED
    BY <1>2, <2>1
<1> QED
  BY <1>2, <1>6, <1>7 DEF ChatInv, c, reply

\* A client's first page
LEMMA SearchChat ==
    ASSUME NEW app, NEW n \in Nat, Serves(app, n), NEW p \in Requests
    PROVE  ChatInv(app, AnsweredBy(app, p, <<>>, {}, Reply(app, p)))
<1>1. PICK d : IsDataset(d) /\ IsSnapshot(app, d)
  BY DatasetsAssumption DEF Serves
<1>2. app.build \in Nat \ {0}
  BY DatasetsAssumption DEF Serves
<1>3. IsRequest(p) /\ p.cursor = <<>>
  BY RequestsAssumption
<1>4. Status(app, p) = 200 /\ ~p.families => PagedSoFar(Sorted(Answer(app, p)), <<>> \o Reply(app, p).cards, Reply(app, p))
  BY <1>1, <1>3, FirstPage
<1> QED
  BY <1>2, <1>3, <1>4, AnsweredChat

\* Another page
LEMMA PageChat ==
    ASSUME NEW app, NEW n \in Nat, Serves(app, n), NEW c, ChatInv(app, c), c.phase = "paging"
    PROVE  LET p == [c.p EXCEPT !.cursor = c.reply.cursor]
           IN  ChatInv(app, AnsweredBy(app, p, c.got, c.seen, Reply(app, p)))
<1> DEFINE p == [c.p EXCEPT !.cursor = c.reply.cursor]
<1>1. PICK d : IsDataset(d) /\ IsSnapshot(app, d)
  BY DatasetsAssumption DEF Serves
<1>2. app.build \in Nat \ {0}
  BY DatasetsAssumption DEF Serves
<1>3. IsRequest(c.p) /\ c.seen # {} /\ c.seen \subseteq 1 .. app.build
  BY DEF ChatInv
<1>4. ListingInv(app, c) /\ c.reply.cursor # <<>> /\ c.reply.status = 200 /\ ~c.p.families
  BY DEF ChatInv, OptionsInv, ListingInv
<1>5. /\ IsRequest(p) /\ FilterAlike(p, c.p) /\ p.cursor = c.reply.cursor /\ p.families = c.p.families
  BY <1>3, NextRequest
<1> HIDE DEF p
<1>6. Answer(app, p) = Answer(app, c.p)
  BY <1>5, AlikeAnswers
<1>7. ASSUME c.seen \subseteq {app.build}, Status(app, p) = 200, ~p.families
      PROVE  PagedSoFar(Sorted(Answer(app, p)), c.got \o Reply(app, p).cards, Reply(app, p))
  <2>1. c.seen = {app.build}
    BY <1>3, <1>7
  <2>2. PagedSoFar(Sorted(Answer(app, c.p)), c.got, c.reply)
    BY <1>4, <1>5, <1>7, <2>1 DEF ListingInv
  <2>3. PagedSoFar(Sorted(Answer(app, p)), c.got, c.reply)
    BY <1>6, <2>2
  <2> QED
    BY <1>1, <1>4, <1>5, <1>7, <2>3, FollowingPage
<1>8. ChatInv(app, AnsweredBy(app, p, c.got, c.seen, Reply(app, p)))
  BY <1>2, <1>3, <1>4, <1>5, <1>7, AnsweredChat
<1> QED
  BY <1>8 DEF p

\* What Options leaves, without its reference to the state
OptionsBy(app, p, kind, region) ==
    [ phase |-> "options", p |-> p, kind |-> kind, region |-> region,
      offered |-> Offered(app, p, kind, region), seen |-> {app.build} ]

LEMMA OptionsChat ==
    ASSUME NEW app, NEW n \in Nat, Serves(app, n), NEW p \in Edited, NEW kind \in Kinds, NEW region, Status(app, p) = 200
    PROVE  ChatInv(app, OptionsBy(app, p, kind, region))
<1> DEFINE c == OptionsBy(app, p, kind, region)
<1>1. /\ c.phase = "options" /\ c.p = p /\ c.kind = kind /\ c.region = region
      /\ c.offered = Offered(app, p, kind, region) /\ c.seen = {app.build}
  BY DEF OptionsBy
<1>2. app.build \in Nat \ {0}
  BY DatasetsAssumption DEF Serves
<1> HIDE DEF c
<1>3. IsRequest(c.p)
  BY <1>1, RequestsAssumption
<1>4. OptionsInv(app, c)
  BY <1>1 DEF OptionsInv
<1>5. c.seen # {} /\ c.seen \subseteq 1 .. app.build
  BY <1>1, <1>2
<1> QED
  BY <1>3, <1>4, <1>5 DEF ChatInv, c

(***************************************************************************)
(* The invariant is inductive                                              *)
(***************************************************************************)
LEMMA DatasetCards == ASSUME NEW d \in Datasets PROVE Len(d.cards) \in Nat /\ IsDataset(d)
BY DatasetsAssumption DEF IsDataset, Tiles

LEMMA ServesLater ==
    ASSUME NEW app, NEW n \in Nat, Serves(app, n) PROVE Serves(app, n + 1) /\ app # NoApp
BY DEF Serves, NoApp

LEMMA InitInv == Init => Inv
<1> SUFFICES ASSUME Init PROVE Inv
  OBVIOUS
<1>1. data \in Datasets /\ done = 0 /\ index = EmptyIndex /\ builds = 1 /\ served = NoApp /\ chat = Quiet
  BY DEF Init
<1>2. done \in 0 .. Len(data.cards)
  BY <1>1, DatasetCards
<1>3. Recorded(index, data.cards, done)
  BY <1>1, EmptyRecords
<1> QED
  BY <1>1, <1>2, <1>3 DEF Inv

\* Every step keeps the invariant, action by action.
LEMMA NextInv == Inv /\ [Next]_vars => Inv'
<1> SUFFICES ASSUME Inv, [Next]_vars PROVE Inv'
  OBVIOUS
<1>1. /\ data \in Datasets /\ done \in 0 .. Len(data.cards) /\ Recorded(index, data.cards, done)
      /\ builds \in Nat \ {0}
      /\ served = NoApp \/ Serves(served, builds)
      /\ chat = Quiet \/ (Serves(served, builds) /\ ChatInv(served, chat))
  BY DEF Inv
<1>2. Len(data.cards) \in Nat /\ IsDataset(data)
  BY <1>1, DatasetCards
<1>3. served # NoApp => Serves(served, builds)
  BY <1>1
<1>4. CASE Build
  <2>1. /\ done # Len(data.cards)
        /\ index' = Indexed(index, data.cards[done + 1]) /\ done' = done + 1
        /\ data' = data /\ builds' = builds /\ served' = served /\ chat' = chat
    BY <1>4 DEF Build, Built
  <2>2. done \in 0 .. Len(data.cards) - 1 /\ done' \in 0 .. Len(data.cards)
    BY <1>1, <1>2, <2>1
  <2>3. Recorded(index', data'.cards, done')
    BY <1>1, <1>2, <2>1, <2>2, IndexedRecords
  <2> QED
    BY <1>1, <2>1, <2>2, <2>3 DEF Inv
<1>5. CASE Publish
  <2>1. /\ done = Len(data.cards) /\ ~Published
        /\ served' = SnapshotOf(builds, data, index)
        /\ data' = data /\ done' = done /\ index' = index /\ builds' = builds /\ chat' = chat
    BY <1>5 DEF Publish, Built, buildVars
  <2>2. IsSnapshot(served', data) /\ served'.build = builds
    BY <1>1, <2>1, PublishedSnapshot, DatasetsAssumption
  <2>3. Serves(served', builds')
    BY <1>1, <2>1, <2>2 DEF Serves
  <2>4. ASSUME chat # Quiet PROVE ChatInv(served', chat')
    <3>1. Serves(served, builds) /\ ChatInv(served, chat)
      BY <1>1, <2>4
    <3>2. served.build \in Nat /\ served.build < served'.build /\ served'.build \in Nat
      BY <1>1, <2>1, <2>2, <3>1, ServesLater DEF Serves, Published
    <3>3. ChatInv(served', chat)
      BY <3>1, <3>2, ReplacedChat
    <3> QED
      BY <2>1, <3>3
  <2> QED
    BY <1>1, <2>1, <2>3, <2>4 DEF Inv
<1>6. CASE StartBuild
  <2>1. /\ data' \in Datasets /\ done' = 0 /\ index' = EmptyIndex /\ builds' = builds + 1
        /\ served' = served /\ chat' = chat
    BY <1>6 DEF StartBuild
  <2>2. done' \in 0 .. Len(data'.cards) /\ builds' \in Nat \ {0}
    BY <1>1, <2>1, DatasetCards
  <2>3. Recorded(index', data'.cards, done')
    BY <2>1, EmptyRecords
  <2>4. Serves(served, builds) => Serves(served', builds')
    BY <1>1, <2>1, ServesLater
  <2> QED
    BY <1>1, <2>1, <2>2, <2>3, <2>4 DEF Inv
<1>7. ASSUME NEW id \in DOMAIN Collections, PostCollection(id) PROVE Inv'
  <2>1. /\ served # NoApp /\ AllFound(served.families, Collections[id])
        /\ served' = Posted(served, id)
        /\ data' = data /\ done' = done /\ index' = index /\ builds' = builds /\ chat' = chat
    BY <1>7 DEF PostCollection, Posted, buildVars
  <2>2. PICK d \in Datasets : IsDataset(d) /\ IsSnapshot(served, d)
    BY <1>3, <2>1, DatasetsAssumption DEF Serves
  <2>3. IsSnapshot(served', d) /\ served'.build = served.build
    BY <2>1, <2>2, PostedFields
  <2>4. Serves(served', builds')
    BY <1>3, <2>1, <2>3 DEF Serves
  <2>5. chat # Quiet => ChatInv(served', chat')
    BY <1>1, <2>1, <2>2, PostedChat
  <2> QED
    BY <1>1, <2>1, <2>4, <2>5 DEF Inv
<1>8. ASSUME NEW p \in Requests, Search(p) PROVE Inv'
  <2>1. /\ served # NoApp /\ chat' = AnsweredBy(served, p, <<>>, {}, Reply(served, p))
        /\ data' = data /\ done' = done /\ index' = index /\ builds' = builds /\ served' = served
    BY <1>8 DEF Search, Answered, AnsweredBy, buildVars
  <2>2. ChatInv(served', chat')
    BY <1>1, <1>3, <2>1, SearchChat
  <2> QED
    BY <1>1, <1>3, <2>1, <2>2 DEF Inv
<1>9. CASE NextPage
  <2> DEFINE p == [chat.p EXCEPT !.cursor = chat.reply.cursor]
  <2>1. /\ chat.phase = "paging" /\ chat' = AnsweredBy(served, p, chat.got, chat.seen, Reply(served, p))
        /\ data' = data /\ done' = done /\ index' = index /\ builds' = builds /\ served' = served
    BY <1>9 DEF NextPage, Answered, AnsweredBy, buildVars
  <2>2. Serves(served, builds) /\ ChatInv(served, chat)
    BY <1>1, <2>1 DEF Quiet
  <2>3. ChatInv(served, AnsweredBy(served, p, chat.got, chat.seen, Reply(served, p)))
    BY <1>1, <2>1, <2>2, PageChat
  <2>4. ChatInv(served', chat')
    BY <2>1, <2>3
  <2> QED
    BY <1>1, <2>1, <2>2, <2>4 DEF Inv
<1>10. ASSUME NEW p \in Edited, NEW kind \in Kinds, NEW region, Options(p, kind, region) PROVE Inv'
  <2>1. /\ served # NoApp /\ Status(served, p) = 200 /\ chat' = OptionsBy(served, p, kind, region)
        /\ data' = data /\ done' = done /\ index' = index /\ builds' = builds /\ served' = served
    BY <1>10 DEF Options, OptionsBy, buildVars
  <2>2. ChatInv(served', chat')
    BY <1>1, <1>3, <2>1, OptionsChat
  <2> QED
    BY <1>1, <1>3, <2>1, <2>2 DEF Inv
<1>11. CASE UNCHANGED vars
  BY <1>1, <1>11 DEF Inv, vars, buildVars
<1> QED
  BY <1>4, <1>5, <1>6, <1>7, <1>8, <1>9, <1>10, <1>11 DEF Next

\* Whatever is built, published, posted and asked in between: what is served is the whole of one
\* dataset as build_index records it, and what a client knows from it alone still holds of it.
THEOREM InvHolds == Spec => []Inv
BY InitInv, NextInv, PTL DEF Spec

(***************************************************************************)
(* What the invariant says                                                 *)
(***************************************************************************)
LEMMA ListingFacts ==
    ASSUME Inv, Listing
    PROVE  /\ \E d : IsDataset(d) /\ IsSnapshot(served, d)
           /\ IsRequest(chat.p) /\ Status(served, chat.p) = 200
           /\ chat.phase = IF chat.reply.cursor # <<>> THEN "paging" ELSE "over"
           /\ ~chat.p.families => PagedSoFar(Sorted(Answer(served, chat.p)), chat.got, chat.reply)
           /\ chat.p.families => CountedSo(served, Answer(served, chat.p), chat.reply)
<1>1. Serves(served, builds) /\ ChatInv(served, chat)
  BY DEF Inv, Listing, OneIndex
<1>2. ListingInv(served, chat) /\ IsRequest(chat.p)
  BY <1>1 DEF ChatInv, OptionsInv, Listing
<1> QED
  BY <1>1, <1>2, DatasetsAssumption DEF Serves, ListingInv, Listing, OneIndex

\* The bitmaps of an index answer a request, combined as get_cards_v2 combines them, with the
\* positions of exactly those cards that the request describes when it is read card by card:
\* for every dataset, request, format and collection, and whatever happened before.  A filter
\* on what is on the cards lets no position through that has no card.
THEOREM AnswerIsReadingHolds == Spec => []AnswerIsReading
<1>1. Inv => AnswerIsReading
  <2> SUFFICES ASSUME Inv, Listing PROVE
            /\ Answer(served, chat.p) \cap CardBits(served) = MatchingBits(served, chat.p)
            /\ Slots(chat.p) # {} \/ chat.p.support # NoFilter \/ chat.p.factions # {} \/ DOMAIN chat.p.costs # {}
                    => Answer(served, chat.p) \subseteq CardBits(served)
    BY DEF AnswerIsReading
  <2>1. PICK d : IsDataset(d) /\ IsSnapshot(served, d)
    BY ListingFacts
  <2>2. IsRequest(chat.p) /\ Status(served, chat.p) = 200
    BY ListingFacts
  <2> QED
    BY <2>1, <2>2, AnswerReads, AnswerOfCards
<1> QED
  BY <1>1, InvHolds, PTL

\* A client that follows the cursors of get_cards_v2 is given the bits of the answer in order,
\* each once, and all of them when there is no cursor any more: for every limit and every answer.
THEOREM PagesPartitionHolds == Spec => []PagesPartition
<1>1. Inv => PagesPartition
  <2> SUFFICES ASSUME Inv, Listing, ~chat.p.families PROVE
            LET all == Sorted(Answer(served, chat.p))
            IN  /\ chat.got = SubSeq(all, 1, Len(chat.got))
                /\ chat.phase = "over" => chat.got = all
                /\ chat.reply.total = Len(all)
    BY DEF PagesPartition
  <2>1. PagedSoFar(Sorted(Answer(served, chat.p)), chat.got, chat.reply)
    BY ListingFacts
  <2>2. chat.phase = IF chat.reply.cursor # <<>> THEN "paging" ELSE "over"
    BY ListingFacts
  <2> QED
    BY <2>1, <2>2 DEF PagedSoFar
<1> QED
  BY <1>1, InvHolds, PTL

(***************************************************************************)
(* Options                                                                 *)
(***************************************************************************)
\* Asking for one id more of a kind, on a line
LEMMA OneIdMore ==
    ASSUME NEW app, NEW line, NEW ids \in [Kinds -> SUBSET Nat], NEW kind \in Kinds, NEW id, NEW bit
    PROVE  bit \in OnLine(app, line, [ids EXCEPT ![kind] = {id}])
                <=> bit \in OnLine(app, line, [ids EXCEPT ![kind] = {}]) /\ <<line, id, bit>> \in app.index.lines
<1> DEFINE one == [ids EXCEPT ![kind] = {id}]
           none == [ids EXCEPT ![kind] = {}]
<1>1. /\ one[kind] = {id} /\ none[kind] = {}
      /\ \A k \in Kinds : k # kind => one[k] = ids[k] /\ none[k] = ids[k]
  OBVIOUS
<1> HIDE DEF one, none
<1>2. ASSUME bit \in OnLine(app, line, one)
      PROVE  bit \in OnLine(app, line, none) /\ <<line, id, bit>> \in app.index.lines
  <2>1. <<line, id, bit>> \in app.index.lines
    BY <1>1, <1>2 DEF OnLine
  <2>2. \A k \in Kinds : none[k] # {} => one[k] = none[k]
    BY <1>1
  <2> QED
    BY <1>2, <2>1, <2>2 DEF OnLine
<1>3. ASSUME bit \in OnLine(app, line, none), <<line, id, bit>> \in app.index.lines
      PROVE  bit \in OnLine(app, line, one)
  <2>1. ASSUME NEW k \in Kinds, one[k] # {} PROVE \E x \in one[k] : <<line, x, bit>> \in app.index.lines
    <3>1. CASE k = kind
      BY <1>1, <1>3, <3>1
    <3>2. CASE k # kind
      BY <1>1, <1>3, <2>1, <3>2 DEF OnLine
    <3> QED
      BY <3>1, <3>2
  <2> QED
    BY <1>3, <2>1 DEF OnLine
<1> QED
  BY <1>2, <1>3 DEF one, none

\* An ability that is asked for once is on one of the main lines.
LEMMA SlotOnce ==
    ASSUME NEW app, NEW slot, slot.count = 1, NEW bit
    PROVE  bit \in SlotBits(app, slot) <=> \E l \in ToSet(MainLines) : bit \in OnLine(app, l, slot.ids)
<1> DEFINE onLine == [g \in DOMAIN MainLines |-> OnLine(app, MainLines[g], slot.ids)]
           on == {g \in DOMAIN onLine : bit \in onLine[g]}
<1>1. bit \in SlotBits(app, slot) <=> bit \in AllBits(app) /\ Cardinality(on) >= 1
  BY DEF SlotBits
<1>2. DOMAIN MainLines = 1 .. 3
  BY DEF MainLines
<1>3. IsFiniteSet(on)
  <2>1. on \in SUBSET (1 .. 3)
    BY <1>2
  <2>2. IsFiniteSet(1 .. 3)
    <3>1. 1 \in Int /\ 3 \in Int
      OBVIOUS
    <3> QED
      BY <3>1, FS_Interval
  <2> HIDE DEF on
  <2> QED
    BY <2>1, <2>2, FS_Subset
<1>4. on # {} <=> \E l \in ToSet(MainLines) : bit \in OnLine(app, l, slot.ids)
  BY DEF ToSet
<1>5. \A l : bit \in OnLine(app, l, slot.ids) => bit \in AllBits(app)
  BY DEF OnLine
<1> HIDE DEF on
<1>6. Cardinality(on) \in Nat /\ (Cardinality(on) = 0 <=> on = {})
  BY <1>3, FS_CardinalityType, FS_EmptySet
<1> QED
  BY <1>1, <1>4, <1>5, <1>6

LEMMA OneGroupMore ==
    ASSUME NEW app, NEW p, NEW q, NEW group,
           Groups(app, q) = Groups(app, p) \cup {group}, p.format = q.format
    PROVE  Answer(app, q) = Answer(app, p) \cap group
<1>1. Format(app, q, TRUE) = Format(app, p, TRUE)
  BY DEF Format
<1> QED
  BY <1>1 DEF Answer

\* The groups that the abilities and the support line have no part in
SupportGroups(app, p) == {OnLine(app, "Ec", ids) : ids \in {p.support} \ {NoFilter}}

OtherGroups(app, p) ==
    {FactionBits(app, fs) : fs \in {p.factions} \ {{}}}
    \cup {SetBits(app.families, sets) : sets \in {p.sets} \ {{}}}
    \cup {CostBits(app, s, p.costs[s]) : s \in {t \in DOMAIN p.costs : Read(p.costs[t]) # {}}}
    \cup {NameBits(app.families, needle) : needle \in ToSet(p.name)}
    \cup Format(app, p, FALSE)
    \cup {app.collections[id] : id \in ToSet(p.collection)}

LEMMA GroupParts ==
    ASSUME NEW app, NEW p
    PROVE  Groups(app, p) = AbilityGroups(app, p) \cup SupportGroups(app, p) \cup OtherGroups(app, p)
BY DEF Groups, AbilityGroups, SupportGroups, OtherGroups

LEMMA OthersAlike ==
    ASSUME NEW app, NEW p, NEW q,
           p.factions = q.factions /\ p.sets = q.sets /\ p.costs = q.costs /\ p.name = q.name
           /\ p.format = q.format /\ p.collection = q.collection
    PROVE  OtherGroups(app, p) = OtherGroups(app, q)
<1>1. Format(app, p, FALSE) = Format(app, q, FALSE)
  BY DEF Format
<1> QED
  BY <1>1 DEF OtherGroups

\* Choosing an option of the support line asks for one group more than the answer it is offered from.
LEMMA ChosenSupport ==
    ASSUME NEW app, NEW p, IsRequest(p), NEW kind \in Kinds, NEW id
    PROVE  Answer(app, Chosen(p, kind, <<>>, id))
                = Answer(app, Without(p, <<>>)) \cap OnLine(app, "Ec", [p.support EXCEPT ![kind] = {id}])
<1> DEFINE ids == [p.support EXCEPT ![kind] = {id}]
           q == Chosen(p, kind, <<>>, id)
           w == Without(p, <<>>)
<1>0. p = [field \in RequestFields |-> p[field]] /\ p.support \in [Kinds -> SUBSET Nat]
  BY DEF IsRequest
<1>1. /\ q = [p EXCEPT !.support = ids] /\ w = [p EXCEPT !.support = NoFilter]
  BY DEF Chosen, Without
<1>2. /\ q.support = ids /\ w.support = NoFilter
      /\ q.effects = p.effects /\ q.mode = p.mode /\ q.factions = p.factions /\ q.sets = p.sets /\ q.costs = p.costs
      /\ q.name = p.name /\ q.format = p.format /\ q.collection = p.collection
      /\ w.effects = p.effects /\ w.mode = p.mode /\ w.factions = p.factions /\ w.sets = p.sets /\ w.costs = p.costs
      /\ w.name = p.name /\ w.format = p.format /\ w.collection = p.collection
  <2> HIDE DEF ids
  <2> QED
    BY <1>0, <1>1 DEF RequestFields
<1>3. ids # NoFilter
  BY <1>0 DEF NoFilter
<1> HIDE DEF ids, q, w
<1>4. {OnLine(app, "Ec", x) : x \in {q.support} \ {NoFilter}} = {OnLine(app, "Ec", ids)}
      /\ {OnLine(app, "Ec", x) : x \in {w.support} \ {NoFilter}} = {}
  BY <1>2, <1>3
<1>5. AbilityGroups(app, q) = AbilityGroups(app, w)
  BY <1>2 DEF Slots, AbilityGroups
<1>6. OtherGroups(app, q) = OtherGroups(app, w)
  BY <1>2, OthersAlike
<1>7. Groups(app, q) = Groups(app, w) \cup {OnLine(app, "Ec", ids)}
  BY <1>4, <1>5, <1>6, GroupParts DEF SupportGroups
<1>8. Answer(app, q) = Answer(app, w) \cap OnLine(app, "Ec", ids)
  BY <1>2, <1>7, OneGroupMore
<1> QED
  BY <1>8 DEF ids, q, w

\* The slot that is edited, as it is or new
EditedSlot(p, n) == IF n \in DOMAIN p.effects THEN p.effects[n] ELSE [ids |-> NoFilter, count |-> 1]

\* And so does choosing an option of an ability, when that is the only one or all are asked for.
LEMMA ChosenAbility ==
    ASSUME NEW app, NEW p, IsRequest(p), NEW kind \in Kinds, NEW id, NEW region, region # <<>>,
           p.mode = "and" \/ Slots(p) \subseteq {region[1]}
    PROVE  Answer(app, Chosen(p, kind, region, id))
                = Answer(app, Without(p, region))
                    \cap SlotBits(app, [EditedSlot(p, region[1]) EXCEPT !.ids[kind] = {id}])
<1> DEFINE n == region[1]
           slot == [EditedSlot(p, n) EXCEPT !.ids[kind] = {id}]
           q == Chosen(p, kind, region, id)
           w == Without(p, region)
           more == Extend(p.effects, n, slot)
           less == Restrict(p.effects, DOMAIN p.effects \ {n})
<1>0. p = [field \in RequestFields |-> p[field]]
  BY DEF IsRequest
<1>1. /\ q = [p EXCEPT !.effects = more] /\ w = [p EXCEPT !.effects = less]
  BY DEF Chosen, Without, EditedSlot
<1>2. /\ q.effects = more /\ w.effects = less
      /\ q.support = p.support /\ q.mode = p.mode /\ q.factions = p.factions /\ q.sets = p.sets /\ q.costs = p.costs
      /\ q.name = p.name /\ q.format = p.format /\ q.collection = p.collection
      /\ w.support = p.support /\ w.mode = p.mode /\ w.factions = p.factions /\ w.sets = p.sets /\ w.costs = p.costs
      /\ w.name = p.name /\ w.format = p.format /\ w.collection = p.collection
  <2> HIDE DEF more, less
  <2> QED
    BY <1>0, <1>1 DEF RequestFields
<1>3. slot.ids # NoFilter
  <2>1. EditedSlot(p, n).ids \in [Kinds -> SUBSET Nat]
    <3>1. NoFilter \in [Kinds -> SUBSET Nat]
      BY DEF NoFilter
    <3> QED
      BY <3>1 DEF EditedSlot, IsRequest
  <2>2. EditedSlot(p, n) \in [ids : [Kinds -> SUBSET Nat], count : Nat]
    <3>1. NoFilter \in [Kinds -> SUBSET Nat]
      BY DEF NoFilter
    <3> QED
      BY <3>1 DEF EditedSlot, IsRequest
  <2>3. slot.ids = [EditedSlot(p, n).ids EXCEPT ![kind] = {id}]
    BY <2>2
  <2>4. slot.ids[kind] = {id}
    BY <2>1, <2>3
  <2> QED
    BY <2>4 DEF NoFilter
<1> HIDE DEF slot
<1>4. /\ DOMAIN more = DOMAIN p.effects \cup {n} /\ more[n] = slot
      /\ DOMAIN less = DOMAIN p.effects \ {n}
      /\ \A m \in DOMAIN p.effects \ {n} : more[m] = p.effects[m] /\ less[m] = p.effects[m]
  BY DEF Extend, Restrict
<1> HIDE DEF more, less, q, w, n
<1>5. Slots(w) = Slots(p) \ {n} /\ Slots(q) = Slots(w) \cup {n}
  BY <1>2, <1>3, <1>4 DEF Slots
<1>6. \A m \in Slots(w) : q.effects[m] = w.effects[m]
  BY <1>2, <1>4, <1>5 DEF Slots
<1>7. AbilityGroups(app, q) = AbilityGroups(app, w) \cup {SlotBits(app, slot)}
  <2> DEFINE group == SlotBits(app, slot)
             others == {SlotBits(app, w.effects[m]) : m \in Slots(w)}
             all == {SlotBits(app, q.effects[m]) : m \in Slots(q)}
  <2>1. all = others \cup {group}
    BY <1>2, <1>4, <1>5, <1>6
  <2>2. p.mode # "or" \/ others = {}
    BY <1>5 DEF n
  <2>3. AbilityGroups(app, q) = Combined(p.mode, all) /\ AbilityGroups(app, w) = Combined(p.mode, others)
    BY <1>2 DEF AbilityGroups
  <2> HIDE DEF group, others, all
  <2>4. Combined(p.mode, all) = Combined(p.mode, others) \cup {group}
    <3>1. CASE p.mode # "or"
      BY <2>1, <3>1 DEF Combined
    <3>2. CASE others = {}
      <4>1. all = {group} /\ UNION {group} = group
        BY <2>1, <3>2
      <4> QED
        BY <3>2, <4>1 DEF Combined
    <3> QED
      BY <2>2, <3>1, <3>2
  <2> QED
    BY <2>3, <2>4 DEF group
<1>8. OtherGroups(app, q) = OtherGroups(app, w) /\ SupportGroups(app, q) = SupportGroups(app, w)
  BY <1>2, OthersAlike DEF SupportGroups
<1>9. Groups(app, q) = Groups(app, w) \cup {SlotBits(app, slot)}
  BY <1>7, <1>8, GroupParts
<1>10. Answer(app, q) = Answer(app, w) \cap SlotBits(app, slot)
  BY <1>2, <1>9, OneGroupMore
<1> QED
  BY <1>10 DEF q, w, slot, n

\* An id is offered exactly if the answer to the request with it is not empty.
LEMMA OfferedLeads ==
    ASSUME NEW app, NEW p, IsRequest(p), NEW kind \in Kinds, NEW region,
           NEW id \in DOMAIN app.index.types, app.index.types[id] = kind,
           OfferedOnceLine(p, region),
           p.mode = "and" \/ region = <<>> \/ Slots(p) \subseteq {region[1]}
    PROVE  id \in Offered(app, p, kind, region) <=> Answer(app, Chosen(p, kind, region, id)) # {}
<1> DEFINE base == Answer(app, Without(p, region))
           ids == IdsIn(p, region)
           one == [ids EXCEPT ![kind] = {id}]
           none == [ids EXCEPT ![kind] = {}]
           led == Answer(app, Chosen(p, kind, region, id))
<1>0. ids \in [Kinds -> SUBSET Nat]
  BY DEF IdsIn, IsRequest, NoFilter
<1>1. \A line, bit : bit \in OnLine(app, line, one) <=> bit \in OnLine(app, line, none) /\ <<line, id, bit>> \in app.index.lines
  BY <1>0, OneIdMore
<1>2. id \in Offered(app, p, kind, region)
            <=> \E l \in LinesOf(region) : \E bit \in base : bit \in OnLine(app, l, none) /\ <<l, id, bit>> \in app.index.lines
  BY DEF Offered
<1> HIDE DEF base, one, none, led
<1>3. \A bit : bit \in led <=> bit \in base /\ \E l \in LinesOf(region) : bit \in OnLine(app, l, one)
  <2>1. CASE region = <<>>
    <3>1. led = base \cap OnLine(app, "Ec", one)
      BY <2>1, ChosenSupport DEF led, base, one, IdsIn
    <3> QED
      BY <2>1, <3>1 DEF LinesOf
  <2>2. CASE region # <<>>
    <3> DEFINE slot == EditedSlot(p, region[1])
               new == [slot EXCEPT !.ids[kind] = {id}]
    <3>1. slot \in [ids : [Kinds -> SUBSET Nat], count : Nat] /\ slot.count = 1 /\ slot.ids = ids
      <4>1. NoFilter \in [Kinds -> SUBSET Nat]
        BY DEF NoFilter
      <4> QED
        BY <2>2, <4>1 DEF EditedSlot, IsRequest, OfferedOnceLine, IdsIn
    <3> HIDE DEF slot
    <3>2. new.count = 1 /\ new.ids = one
      BY <3>1 DEF one
    <3>3. led = base \cap SlotBits(app, new)
      BY <2>2, ChosenAbility DEF led, base, slot
    <3> HIDE DEF new
    <3>4. \A bit : bit \in SlotBits(app, new) <=> \E l \in ToSet(MainLines) : bit \in OnLine(app, l, one)
      BY <3>2, SlotOnce
    <3> QED
      BY <2>2, <3>3, <3>4 DEF LinesOf
  <2> QED
    BY <2>1, <2>2
<1> QED
  BY <1>1, <1>2, <1>3 DEF led

\* An idGd is offered for an ability or for the support line exactly if a request that has it
\* there finds a position, as long as one line is asked for and the abilities are combined by
\* "and" or there is no other: for every index, request, kind and line.
THEOREM OptionsLeadHolds == Spec => []OptionsLead
<1>1. Inv => OptionsLead
  <2> SUFFICES ASSUME Inv, OneIndex, chat.phase = "options", OfferedOnceLine(chat.p, chat.region),
                      chat.p.mode = "and" \/ chat.region = <<>> \/ Slots(chat.p) \subseteq {chat.region[1]},
                      NEW id \in DOMAIN served.index.types, served.index.types[id] = chat.kind
               PROVE  id \in chat.offered <=> Leads(chat.p, chat.kind, chat.region, id)
    BY DEF OptionsLead
  <2>1. ChatInv(served, chat)
    BY DEF Inv, OneIndex
  <2>2. IsRequest(chat.p) /\ OptionsInv(served, chat)
    BY <2>1 DEF ChatInv, ListingInv
  <2>3. chat.kind \in Kinds /\ chat.offered = Offered(served, chat.p, chat.kind, chat.region)
    BY <2>2 DEF OptionsInv, OneIndex
  <2>4. id \in Offered(served, chat.p, chat.kind, chat.region)
            <=> Answer(served, Chosen(chat.p, chat.kind, chat.region, id)) # {}
    BY <2>2, <2>3, OfferedLeads
  <2> QED
    BY <2>3, <2>4 DEF Leads
<1> QED
  BY <1>1, InvHolds, PTL

(***************************************************************************)
(* Sequences of sequences                                                  *)
(***************************************************************************)
Flat(ss, n, f) == f = [i \in 1 .. n |-> IF i = 1 THEN ss[i] ELSE f[i - 1] \o ss[i]]

LEMMA FlattenIsFlat ==
    ASSUME NEW ss, Len(ss) # 0 PROVE FlattenSeq(ss) = (CHOOSE f : Flat(ss, Len(ss), f))[Len(ss)]
BY DEF FlattenSeq, Flat

LEMMA FlatExists ==
    ASSUME NEW ss, NEW n \in Nat PROVE \E f : Flat(ss, n, f)
<1> DEFINE S == {k \in Nat : \E f : Flat(ss, k, f)}
<1>1. 0 \in S
  <2>1. Flat(ss, 0, [i \in 1 .. 0 |-> ss[i]])
    BY DEF Flat
  <2> QED
    BY <2>1
<1>2. ASSUME NEW k \in 0 .. n - 1, k \in S PROVE k + 1 \in S
  <2>1. PICK g : Flat(ss, k, g)
    BY <1>2
  <2> DEFINE f == [i \in 1 .. k + 1 |-> IF i = 1 THEN ss[i] ELSE g[i - 1] \o ss[i]]
  <2>2. ASSUME NEW i \in 1 .. k PROVE f[i] = g[i]
    <3>1. g[i] = IF i = 1 THEN ss[i] ELSE g[i - 1] \o ss[i]
      BY <2>1 DEF Flat
    <3>2. i \in 1 .. k + 1
      OBVIOUS
    <3> QED
      BY <3>1, <3>2
  <2>3. ASSUME NEW i \in 1 .. k + 1 PROVE f[i] = IF i = 1 THEN ss[i] ELSE f[i - 1] \o ss[i]
    <3>1. CASE i = 1
      BY <3>1
    <3>2. CASE i # 1
      <4>1. i - 1 \in 1 .. k
        BY <3>2
      <4>2. f[i - 1] = g[i - 1]
        BY <4>1, <2>2
      <4>3. f[i] = g[i - 1] \o ss[i]
        BY <3>2
      <4> HIDE DEF f
      <4> QED
        BY <3>2, <4>2, <4>3
    <3> QED
      BY <3>1, <3>2
  <2>4. f = [i \in 1 .. k + 1 |-> f[i]]
    OBVIOUS
  <2> HIDE DEF f
  <2>5. Flat(ss, k + 1, f)
    BY <2>3, <2>4 DEF Flat
  <2> QED
    BY <2>5
<1>3. \A k \in 0 .. n : k \in S
  <2> HIDE DEF S
  <2> QED
    BY <1>1, <1>2, StepByStep
<1>4. n \in S
  <2>1. n \in 0 .. n
    OBVIOUS
  <2> HIDE DEF S
  <2> QED
    BY <1>3, <2>1
<1> QED
  BY <1>4

LEMMA ElementsOfBoth ==
    ASSUME NEW T, NEW a \in Seq(T), NEW b \in Seq(T)
    PROVE  a \o b \in Seq(T) /\ \A x : x \in ToSet(a \o b) <=> x \in ToSet(a) \/ x \in ToSet(b)
<1>1. /\ a \o b \in Seq(T) /\ Len(a \o b) = Len(a) + Len(b)
      /\ \A i \in 1 .. Len(a) + Len(b) : (a \o b)[i] = IF i <= Len(a) THEN a[i] ELSE b[i - Len(a)]
  BY ConcatProperties
<1>2. /\ Len(a) \in Nat /\ Len(b) \in Nat /\ DOMAIN a = 1 .. Len(a) /\ DOMAIN b = 1 .. Len(b)
      /\ DOMAIN (a \o b) = 1 .. Len(a) + Len(b)
  BY <1>1
<1>3. ASSUME NEW i \in DOMAIN a PROVE i \in DOMAIN (a \o b) /\ (a \o b)[i] = a[i]
  BY <1>1, <1>2
<1>4. ASSUME NEW i \in DOMAIN b PROVE Len(a) + i \in DOMAIN (a \o b) /\ (a \o b)[Len(a) + i] = b[i]
  BY <1>1, <1>2
<1>5. ASSUME NEW i \in DOMAIN (a \o b)
      PROVE  (i \in DOMAIN a /\ (a \o b)[i] = a[i]) \/ (i - Len(a) \in DOMAIN b /\ (a \o b)[i] = b[i - Len(a)])
  BY <1>1, <1>2
<1>6. \A x : x \in ToSet(a) <=> \E i \in DOMAIN a : a[i] = x
  BY DEF ToSet
<1>7. \A x : x \in ToSet(b) <=> \E i \in DOMAIN b : b[i] = x
  BY DEF ToSet
<1>8. \A x : x \in ToSet(a \o b) <=> \E i \in DOMAIN (a \o b) : (a \o b)[i] = x
  BY DEF ToSet
<1>9. ASSUME NEW x PROVE x \in ToSet(a) \/ x \in ToSet(b) => x \in ToSet(a \o b)
  BY <1>3, <1>4, <1>6, <1>7, <1>8
<1>10. ASSUME NEW x PROVE x \in ToSet(a \o b) => x \in ToSet(a) \/ x \in ToSet(b)
  BY <1>5, <1>6, <1>7, <1>8
<1> QED
  BY <1>1, <1>9, <1>10

\* The flattening of a sequence has the elements of its members.
LEMMA FlattenHas ==
    ASSUME NEW T, NEW ss \in Seq(Seq(T))
    PROVE  /\ FlattenSeq(ss) \in Seq(T)
           /\ \A x : x \in ToSet(FlattenSeq(ss)) <=> \E i \in DOMAIN ss : x \in ToSet(ss[i])
<1> DEFINE n == Len(ss)
<1>0. n \in Nat /\ DOMAIN ss = 1 .. n /\ \A i \in 1 .. n : ss[i] \in Seq(T)
  OBVIOUS
<1>1. CASE n = 0
  <2>1. FlattenSeq(ss) = ss /\ ss = <<>>
    BY <1>1, <1>0 DEF FlattenSeq
  <2> QED
    BY <2>1 DEF ToSet
<1>2. CASE n # 0
  <2> DEFINE f == CHOOSE h : Flat(ss, n, h)
  <2>1. Flat(ss, n, f)
    BY <1>0, FlatExists
  <2>2. FlattenSeq(ss) = f[n]
    BY <1>2, FlattenIsFlat
  <2> HIDE DEF f
  <2> DEFINE Has(k) == /\ f[k] \in Seq(T)
                       /\ \A x : x \in ToSet(f[k]) <=> \E i \in 1 .. k : x \in ToSet(ss[i])
             S == {k \in Nat : k = 0 \/ Has(k)}
  <2>3. 0 \in S
    OBVIOUS
  <2>4. ASSUME NEW k \in 0 .. n - 1, k \in S PROVE k + 1 \in S
    <3>1. k + 1 \in 1 .. n /\ ss[k + 1] \in Seq(T)
      BY <1>0
    <3>2. f[k + 1] = IF k = 0 THEN ss[k + 1] ELSE f[k] \o ss[k + 1]
      <4>1. \A i \in 1 .. n : f[i] = IF i = 1 THEN ss[i] ELSE f[i - 1] \o ss[i]
        BY <2>1 DEF Flat
      <4>2. k + 1 - 1 = k /\ (k + 1 = 1 <=> k = 0)
        OBVIOUS
      <4> QED
        BY <3>1, <4>1, <4>2
    <3>3. CASE k = 0
      <4>1. f[1] = ss[1] /\ ss[1] \in Seq(T)
        BY <3>1, <3>2, <3>3
      <4>2. Has(1)
        BY <4>1
      <4> QED
        BY <3>3, <4>2
    <3>4. CASE k # 0
      <4>1. Has(k)
        BY <2>4, <3>4
      <4>2. f[k + 1] = f[k] \o ss[k + 1]
        BY <3>2, <3>4
      <4> DEFINE a == f[k]
                 b == ss[k + 1]
      <4>3. a \in Seq(T) /\ b \in Seq(T) /\ f[k + 1] = a \o b
        BY <3>1, <4>1, <4>2
      <4>4. \A x : x \in ToSet(a) <=> \E i \in 1 .. k : x \in ToSet(ss[i])
        BY <4>1
      <4>5. \A i \in 1 .. k + 1 : i \in 1 .. k \/ i = k + 1
        BY <3>1
      <4>6. 1 .. k \subseteq 1 .. k + 1 /\ k + 1 \in 1 .. k + 1
        BY <3>1
      <4>7. (\A x : x \in ToSet(a \o b) <=> x \in ToSet(a) \/ x \in ToSet(b)) /\ a \o b \in Seq(T)
        <5> HIDE DEF a, b
        <5> QED
          BY <4>3, ElementsOfBoth
      <4>8. \A x : x \in ToSet(f[k + 1]) <=> \E i \in 1 .. k + 1 : x \in ToSet(ss[i])
        BY <4>3, <4>4, <4>5, <4>6, <4>7
      <4>9. f[k + 1] \in Seq(T)
        BY <4>3, <4>7
      <4>10. Has(k + 1)
        BY <4>8, <4>9
      <4>11. k + 1 \in Nat
        OBVIOUS
      <4> HIDE DEF Has
      <4> QED
        BY <4>10, <4>11
    <3> QED
      BY <3>3, <3>4
  <2>5. \A k \in 0 .. n : k \in S
    <3> HIDE DEF S
    <3> QED
      BY <1>0, <2>3, <2>4, StepByStep
  <2>6. Has(n)
    <3>1. n \in S
      <4>1. n \in 0 .. n
        BY <1>0
      <4> HIDE DEF S
      <4> QED
        BY <2>5, <4>1
    <3> QED
      BY <1>2, <3>1
  <2> QED
    BY <1>0, <2>2, <2>6
<1> QED
  BY <1>1, <1>2

(***************************************************************************)
(* The command line                                                        *)
(***************************************************************************)
\* The nodes of an element, line by line, are nodes of the whole.
LEMMA ElementNodes ==
    ASSUME NEW e \in Elements
    PROVE  /\ NodesOf(e) \in Seq(Nodes)
           /\ \A g \in DOMAIN e.displays : \A x \in ToSet(FlattenSeq(e.displays[g])) : x \in ToSet(NodesOf(e))
<1> DEFINE ds == e.displays
           texts == FlattenSeq(ds)
<1>1. ds \in Seq(Seq(Seq(Nodes)))
  BY DEF Elements
<1> HIDE DEF ds
<1>2. /\ texts \in Seq(Seq(Nodes))
      /\ \A t : t \in ToSet(texts) <=> \E g \in DOMAIN ds : t \in ToSet(ds[g])
  BY <1>1, FlattenHas
<1> HIDE DEF texts
<1>3. /\ FlattenSeq(texts) \in Seq(Nodes)
      /\ \A x : x \in ToSet(FlattenSeq(texts)) <=> \E i \in DOMAIN texts : x \in ToSet(texts[i])
  BY <1>2, FlattenHas
<1>4. NodesOf(e) = FlattenSeq(texts)
  BY DEF NodesOf, texts, ds
<1>5. ASSUME NEW g \in DOMAIN ds, NEW x \in ToSet(FlattenSeq(ds[g])) PROVE x \in ToSet(FlattenSeq(texts))
  <2>1. ds[g] \in Seq(Seq(Nodes))
    BY <1>1
  <2>2. \E i \in DOMAIN ds[g] : x \in ToSet(ds[g][i])
    BY <1>5, <2>1, FlattenHas
  <2>3. PICK i \in DOMAIN ds[g] : x \in ToSet(ds[g][i])
    BY <2>2
  <2>4. ds[g][i] \in ToSet(ds[g])
    BY DEF ToSet
  <2>5. ds[g][i] \in ToSet(texts)
    BY <1>2, <2>4
  <2>6. PICK j \in DOMAIN texts : texts[j] = ds[g][i]
    BY <2>5 DEF ToSet
  <2> QED
    BY <1>3, <2>3, <2>6
<1> QED
  BY <1>3, <1>4, <1>5 DEF ds

\* An id on a line of a card is on the card.
LEMMA LineIdsOnCard ==
    ASSUME NEW card \in Cards, NEW line, NEW id, <<line, id>> \in LineIds(card)
    PROVE  id \in IdsOf(AllNodes(card))
<1> DEFINE parts == [i \in DOMAIN card.elements |-> NodesOf(card.elements[i])]
<1>1. card.elements \in Seq(Elements)
  BY DEF Cards
<1>2. \A i \in DOMAIN card.elements : card.elements[i] \in Elements
  BY <1>1
<1>3. parts \in Seq(Seq(Nodes)) /\ DOMAIN parts = DOMAIN card.elements
  <2>1. \A i \in DOMAIN card.elements : NodesOf(card.elements[i]) \in Seq(Nodes)
    BY <1>2, ElementNodes
  <2>2. DOMAIN card.elements = 1 .. Len(card.elements) /\ Len(card.elements) \in Nat
    BY <1>1
  <2> QED
    BY <2>1, <2>2
<1>4. PICK i \in DOMAIN card.elements : <<line, id>> \in IdsOfElement(card.elements[i])
  <2>1. LineIds(card) = UNION {IdsOfElement(card.elements[i]) : i \in DOMAIN card.elements}
    BY DEF LineIds, IdsOfElement
  <2> QED
    BY <2>1
<1>5. \E x \in ToSet(NodesOf(card.elements[i])) : x.id = id
  <2> DEFINE e == card.elements[i]
  <2>1. PICK x \in NodesOfElement(e, line) : x.id = id
    BY <1>4, ElementIdsRead
  <2>2. e \in Elements
    BY <1>2
  <2> HIDE DEF e
  <2>3. x \in ToSet(NodesOf(e)) \/ \E g \in DOMAIN e.displays : x \in ToSet(FlattenSeq(e.displays[g]))
    BY <2>1 DEF NodesOfElement
  <2>4. x \in ToSet(NodesOf(e))
    BY <2>2, <2>3, ElementNodes
  <2> QED
    BY <2>1, <2>4 DEF e
<1>6. PICK x \in ToSet(NodesOf(card.elements[i])) : x.id = id
  BY <1>5
<1>7. parts[i] = NodesOf(card.elements[i]) /\ AllNodes(card) = FlattenSeq(parts)
  BY DEF AllNodes
<1> HIDE DEF parts
<1>8. x \in ToSet(AllNodes(card))
  BY <1>3, <1>6, <1>7, FlattenHas
<1> QED
  BY <1>6, <1>8 DEF IdsOf, ToSet

\* So what is in a line's bitmap is in the bitmap of whole cards.
LEMMA LineOnWhole ==
    ASSUME NEW d, IsDataset(d), NEW app, IsSnapshot(app, d), NEW line, NEW id, NEW bit, <<line, id, bit>> \in app.index.lines
    PROVE  <<id, bit>> \in app.index.whole /\ line \in Lines /\ bit \in AllBits(app)
<1>1. PICK n \in DOMAIN d.cards : \E q \in LineIds(d.cards[n]) :
            <<line, id, bit>> = <<q[1], q[2], d.cards[n].bit>> /\ q[1] \in Lines
  BY LinesAreOfCards
<1>2. PICK q \in LineIds(d.cards[n]) : <<line, id, bit>> = <<q[1], q[2], d.cards[n].bit>> /\ q[1] \in Lines
  BY <1>1
<1>3. line = q[1] /\ id = q[2] /\ bit = d.cards[n].bit
  BY <1>2
<1>4. <<line, id>> \in LineIds(d.cards[n])
  BY <1>2, <1>3, LineIdsArePairs
<1>5. id \in IdsOf(AllNodes(d.cards[n]))
  BY <1>4, CardElements, LineIdsOnCard
<1>6. app.index.whole = WholeUpto(d.cards, Len(d.cards)) /\ DOMAIN d.cards = 1 .. Len(d.cards)
  BY SnapshotFields DEF Recorded
<1>7. <<id, bit>> \in app.index.whole
  BY <1>3, <1>5, <1>6 DEF WholeUpto
<1>8. bit \in AllBits(app)
  BY <1>3, CardEntry
<1> QED
  BY <1>2, <1>3, <1>7, <1>8

LEMMA PerLineHas ==
    ASSUME NEW d, IsDataset(d), NEW app, IsSnapshot(app, d), NEW line, NEW ids, NEW bit
    PROVE  bit \in PerLine(app, line, ids) <=> \E id \in ids : <<line, id, bit>> \in app.index.lines
<1>1. ASSUME bit \in PerLine(app, line, ids) PROVE \E id \in ids : <<line, id, bit>> \in app.index.lines
  <2>1. PICK t \in app.index.lines : t[1] = line /\ t[2] \in ids /\ bit = t[3]
    BY <1>1 DEF PerLine
  <2>2. PICK n \in DOMAIN d.cards : \E q \in LineIds(d.cards[n]) : t = <<q[1], q[2], d.cards[n].bit>>
    BY LinesAreOfCards
  <2>3. t = <<t[1], t[2], t[3]>>
    BY <2>2
  <2> QED
    BY <2>1, <2>3
<1>2. ASSUME NEW id \in ids, <<line, id, bit>> \in app.index.lines PROVE bit \in PerLine(app, line, ids)
  <2> DEFINE t == <<line, id, bit>>
  <2>1. t \in app.index.lines /\ t[1] = line /\ t[2] \in ids /\ t[3] = bit
    BY <1>2
  <2> HIDE DEF t
  <2> QED
    BY <2>1 DEF PerLine
<1> QED
  BY <1>1, <1>2

\* bitmap_intersect_buckets_on_line of the server and intersect_buckets_on_line of the command line
LEMMA SameOnLine ==
    ASSUME NEW d, IsDataset(d), NEW app, IsSnapshot(app, d), NEW line, NEW buckets, NEW kind \in Kinds, buckets[kind] # {}
    PROVE  CommonOnLine(app, line, buckets) = OnLine(app, line, buckets)
<1> DEFINE groups == {PerLine(app, line, ids) : ids \in GivenBuckets(buckets)}
<1>1. \A bit : (\A g \in groups : bit \in g) <=>
            \A k \in Kinds : buckets[k] # {} => \E id \in buckets[k] : <<line, id, bit>> \in app.index.lines
  <2> SUFFICES ASSUME NEW bit PROVE
            (\A g \in groups : bit \in g) <=>
            \A k \in Kinds : buckets[k] # {} => \E id \in buckets[k] : <<line, id, bit>> \in app.index.lines
    OBVIOUS
  <2>1. (\A g \in groups : bit \in g) <=> \A k \in Kinds : buckets[k] # {} => bit \in PerLine(app, line, buckets[k])
    BY DEF GivenBuckets
  <2>2. \A k \in Kinds : bit \in PerLine(app, line, buckets[k]) <=> \E id \in buckets[k] : <<line, id, bit>> \in app.index.lines
    BY PerLineHas
  <2> QED
    BY <2>1, <2>2
<1>2. groups # {}
  BY DEF GivenBuckets
<1>3. CommonOnLine(app, line, buckets) = {bit \in UNION groups : \A g \in groups : bit \in g}
  BY DEF CommonOnLine, Common
<1> HIDE DEF groups
<1>4. \A bit : bit \in CommonOnLine(app, line, buckets) <=> \A g \in groups : bit \in g
  BY <1>2, <1>3
<1>5. ASSUME NEW bit, \A g \in groups : bit \in g PROVE bit \in AllBits(app)
  <2>1. PICK id \in buckets[kind] : <<line, id, bit>> \in app.index.lines
    BY <1>1, <1>5
  <2> QED
    BY <2>1, LineOnWhole
<1>6. \A bit : bit \in OnLine(app, line, buckets) <=> \A g \in groups : bit \in g
  BY <1>1, <1>5 DEF OnLine
<1> QED
  BY <1>4, <1>6

\* A list of ids that is not refused has an id of some kind.
LEMMA BucketGiven ==
    ASSUME NEW app, NEW ids, ~QueryRefused(app, ids)
    PROVE  \E k \in Kinds : BucketsOf(app, ids)[k] # {}
<1>1. PICK id \in ids : app.index.types[id] \in Kinds
  BY DEF QueryRefused
<1>2. id \in BucketsOf(app, ids)[app.index.types[id]]
  BY <1>1 DEF BucketsOf
<1> QED
  BY <1>1, <1>2

LEMMA ToolsFindAlike ==
    ASSUME NEW d, IsDataset(d), NEW app, IsSnapshot(app, d), NEW ids, ~QueryRefused(app, ids)
    PROVE  /\ QueryPerLine(app, ids) = SlotBits(app, [ids |-> BucketsOf(app, ids), count |-> 1])
                                            \cup OnLine(app, "Ec", BucketsOf(app, ids))
           /\ QueryPerLine(app, ids) \subseteq QueryWhole(app, ids)
<1> DEFINE buckets == BucketsOf(app, ids)
           slot == [ids |-> buckets, count |-> 1]
<1>1. PICK kind \in Kinds : buckets[kind] # {}
  BY BucketGiven
<1>2. slot.count = 1 /\ slot.ids = buckets
  OBVIOUS
<1> HIDE DEF buckets, slot
<1>3. \A l : CommonOnLine(app, l, buckets) = OnLine(app, l, buckets)
  BY <1>1, SameOnLine
<1>4. \A bit : bit \in QueryPerLine(app, ids) <=> \E l \in Lines : bit \in OnLine(app, l, buckets)
  BY <1>3 DEF QueryPerLine, buckets
<1>5. \A bit : bit \in SlotBits(app, slot) <=> \E l \in ToSet(MainLines) : bit \in OnLine(app, l, buckets)
  BY <1>2, SlotOnce
<1>6. Lines = ToSet(MainLines) \cup {"Ec"}
  <2>1. DOMAIN MainLines = 1 .. 3 /\ MainLines[1] = "M1" /\ MainLines[2] = "M2" /\ MainLines[3] = "M3"
    BY DEF MainLines
  <2>2. ToSet(MainLines) = {MainLines[i] : i \in {1, 2, 3}}
    BY <2>1 DEF ToSet
  <2> QED
    BY <2>1, <2>2 DEF Lines
<1>7. QueryPerLine(app, ids) = SlotBits(app, slot) \cup OnLine(app, "Ec", buckets)
  BY <1>4, <1>5, <1>6
<1>8. ASSUME NEW l, NEW bit \in OnLine(app, l, buckets) PROVE bit \in QueryWhole(app, ids)
  <2> DEFINE groups == {WholeCard(app, bucket) : bucket \in GivenBuckets(buckets)}
  <2>1. ASSUME NEW k \in Kinds, buckets[k] # {} PROVE bit \in WholeCard(app, buckets[k])
    <3>1. PICK id \in buckets[k] : <<l, id, bit>> \in app.index.lines
      BY <1>8, <2>1 DEF OnLine
    <3> DEFINE w == <<id, bit>>
    <3>2. w \in app.index.whole /\ w[1] \in buckets[k] /\ w[2] = bit
      BY <3>1, LineOnWhole
    <3> HIDE DEF w
    <3> QED
      BY <3>2 DEF WholeCard
  <2>2. \A g \in groups : bit \in g
    BY <2>1 DEF GivenBuckets
  <2>3. groups # {}
    BY <1>1 DEF GivenBuckets
  <2>4. QueryWhole(app, ids) = Common(groups)
    BY DEF QueryWhole, buckets
  <2> HIDE DEF groups
  <2> QED
    BY <2>2, <2>3, <2>4 DEF Common
<1> QED
  BY <1>4, <1>7, <1>8 DEF slot, buckets

\* A record has a faction exactly if a card of one of the factions was written there.
LEMMA FactionWritten ==
    ASSUME NEW d, IsDataset(d), NEW app, IsSnapshot(app, d), NEW bit
    PROVE  RecordOf(app, bit).faction # "UN" <=> \E n \in DOMAIN d.cards : d.cards[n].bit = bit /\ d.cards[n].faction \in Factions
<1>1. /\ DOMAIN app.index.records = {d.cards[n].bit : n \in DOMAIN d.cards}
      /\ \A n \in DOMAIN d.cards : app.index.records[d.cards[n].bit] = Compact(d.cards[n])
  BY SnapshotFields DEF Recorded
<1>2. \A m, n \in DOMAIN d.cards : d.cards[m].bit = d.cards[n].bit => m = n
  BY SnapshotFields DEF IsDataset, Tiles
<1>3. "UN" \notin Factions
  BY DEF Factions
<1>4. CASE bit \in DOMAIN app.index.records
  <2>1. PICK n \in DOMAIN d.cards : d.cards[n].bit = bit
    BY <1>1, <1>4
  <2>2. RecordOf(app, bit) = Compact(d.cards[n])
    BY <1>1, <1>4, <2>1 DEF RecordOf
  <2>3. Compact(d.cards[n]).faction = FactionOf(d.cards[n])
    BY CompactReads, CardElements DEF FactionOf
  <2>4. RecordOf(app, bit).faction # "UN" <=> d.cards[n].faction \in Factions
    BY <1>3, <2>2, <2>3 DEF FactionOf
  <2> QED
    BY <1>2, <2>1, <2>4
<1>5. CASE bit \notin DOMAIN app.index.records
  <2>1. RecordOf(app, bit).faction = "UN"
    BY <1>5 DEF RecordOf, ZeroRecord
  <2> QED
    BY <1>1, <1>5, <2>1
<1> QED
  BY <1>4, <1>5

\* In a family with one row, both lookups find a card by its reference, and by no other.
LEMMA RefFinds ==
    ASSUME NEW d, IsDataset(d), NEW app, IsSnapshot(app, d), NEW i \in DOMAIN d.families,
           NEW uid \in 1 .. d.families[i].max + 1, Matching(d.families, Ref(d.families[i], uid)) = {i}
    PROVE  LET ref == Ref(d.families[i], uid)
           IN  /\ \A bit : LooksUp(d.families, ref, bit) <=> Resolves(d.families, ref, bit)
               /\ \A n \in DOMAIN d.cards : LooksUp(d.families, ref, d.cards[n].bit) <=> RefOf(app, d.cards[n]) = ref
<1> DEFINE fs == d.families
           ref == Ref(fs[i], uid)
<1>1. ref.set = fs[i].set /\ ref.family = fs[i].family /\ ref.uid = uid /\ uid \in Nat \ {0}
  BY EntryFields DEF Ref
<1>2. Matching(fs, ref) = {i} /\ i \in Nat /\ i <= i
  <2>1. fs \in Seq(Entries)
    BY DEF IsDataset, Tiles
  <2> QED
    BY <2>1
<1> HIDE DEF ref
<1>3. \A bit : LooksUp(fs, ref, bit) <=> uid <= fs[i].max /\ bit = BitOf(fs[i], uid)
  BY <1>1, <1>2 DEF LooksUp
<1>4. \A bit : Resolves(fs, ref, bit) <=> uid <= fs[i].max /\ bit = BitOf(fs[i], uid)
  BY <1>1, <1>2 DEF Resolves
<1>5. ASSUME NEW n \in DOMAIN d.cards PROVE LooksUp(fs, ref, d.cards[n].bit) <=> RefOf(app, d.cards[n]) = ref
  <2> DEFINE bit == d.cards[n].bit
  <2>1. PICK k \in DOMAIN fs :
            /\ EntryOf(app, d.cards[n]) = fs[k] /\ bit \in SpanOf(fs[k])
            /\ \A j \in DOMAIN fs : bit \in SpanOf(fs[j]) => j = k
    BY CardEntry
  <2>2. RefOf(app, d.cards[n]) = Ref(fs[k], bit - fs[k].start + 1)
    BY <2>1 DEF RefOf
  <2>3. bit \in Nat
    BY CardElements DEF Cards
  <2>4. ASSUME LooksUp(fs, ref, bit) PROVE RefOf(app, d.cards[n]) = ref
    <3>1. uid \in 1 .. fs[i].max /\ bit = BitOf(fs[i], uid)
      BY <1>1, <1>3, <2>4, EntryFields
    <3>2. bit = fs[i].start + uid - 1 /\ bit \in SpanOf(fs[i])
      BY <3>1, BitInSpan
    <3>3. k = i /\ bit - fs[i].start + 1 = uid
      BY <1>1, <2>1, <2>3, <3>2, EntryFields
    <3> QED
      BY <2>2, <3>3 DEF ref
  <2>5. ASSUME RefOf(app, d.cards[n]) = ref PROVE LooksUp(fs, ref, bit)
    <3>1. ref.set = fs[k].set /\ ref.family = fs[k].family /\ ref.uid = bit - fs[k].start + 1
      BY <2>2, <2>5 DEF Ref
    <3>2. k = i
      BY <1>2, <3>1 DEF Matching
    <3>3. uid = bit - fs[i].start + 1
      BY <1>1, <3>1, <3>2
    <3>4. bit >= fs[i].start /\ bit <= fs[i].start + fs[i].max - 1
      BY <2>1, <2>3, <3>2, EntryFields DEF SpanOf
    <3>5. uid \in 1 .. fs[i].max /\ bit = fs[i].start + uid - 1
      BY <1>1, <2>3, <3>3, <3>4, EntryFields
    <3>6. bit = BitOf(fs[i], uid)
      BY <3>5, BitInSpan
    <3> QED
      BY <1>3, <3>5, <3>6
  <2> QED
    BY <2>4, <2>5
<1> QED
  BY <1>3, <1>4, <1>5 DEF ref

LEMMA RefShown ==
    ASSUME NEW d, IsDataset(d), NEW app, IsSnapshot(app, d), NEW i \in DOMAIN d.families,
           NEW uid \in 1 .. d.families[i].max + 1, Matching(d.families, Ref(d.families[i], uid)) = {i}
    PROVE  LET ref  == Ref(d.families[i], uid)
               bits == {c.bit : c \in {x \in ToSet(app.cards) : RefOf(app, x) = ref /\ x.faction \in Factions}}
           IN  CardFound(app, ref) = bits /\ QueryRef(app, ref) = bits
<1> DEFINE ref == Ref(d.families[i], uid)
           bits == {c.bit : c \in {x \in ToSet(app.cards) : RefOf(app, x) = ref /\ x.faction \in Factions}}
           shown == {d.cards[n].bit : n \in {m \in DOMAIN d.cards : RefOf(app, d.cards[m]) = ref /\ d.cards[m].faction \in Factions}}
<1>1. app.families = d.families /\ app.cards = d.cards
  BY SnapshotFields
<1>2. bits = shown
  BY <1>1 DEF ToSet
<1>3. /\ \A bit : LooksUp(d.families, ref, bit) <=> Resolves(d.families, ref, bit)
      /\ \A n \in DOMAIN d.cards : LooksUp(d.families, ref, d.cards[n].bit) <=> RefOf(app, d.cards[n]) = ref
  BY RefFinds
<1>4. \A bit : RecordOf(app, bit).faction # "UN" <=> \E n \in DOMAIN d.cards : d.cards[n].bit = bit /\ d.cards[n].faction \in Factions
  BY FactionWritten
<1>5. \A n \in DOMAIN d.cards : d.cards[n].bit \in AllBits(app)
  BY CardEntry
<1> HIDE DEF ref
<1>6. \A bit : bit \in shown <=> bit \in AllBits(app) /\ LooksUp(d.families, ref, bit) /\ RecordOf(app, bit).faction # "UN"
  BY <1>3, <1>4, <1>5
<1> HIDE DEF shown, bits
<1>7. QueryRef(app, ref) = shown
  BY <1>1, <1>6 DEF QueryRef
<1>8. CardFound(app, ref) = shown
  BY <1>1, <1>3, <1>6 DEF CardFound
<1> QED
  BY <1>2, <1>7, <1>8 DEF bits, ref

\* The command line finds for a list of idGds the positions that the server finds when it is
\* asked for one of each kind as an ability or a support ability, and never a position that is
\* not in the whole-card answer; and a reference in a family with one row finds the one card
\* that has it in both, unless its faction is unknown: for every index.
THEOREM ToolsAgreeHolds == Spec => []ToolsAgree
<1>1. Inv => ToolsAgree
  <2> SUFFICES ASSUME Inv, chat = Quiet, served # NoApp PROVE ToolsAgree
    BY DEF ToolsAgree
  <2>1. PICK d : IsDataset(d) /\ IsSnapshot(served, d)
    BY DatasetsAssumption DEF Inv, Serves
  <2>2. served.families = d.families
    BY <2>1, SnapshotFields
  <2>3. ASSUME NEW ids \in SUBSET DOMAIN served.index.types, ~QueryRefused(served, ids)
        PROVE  LET buckets == BucketsOf(served, ids)
                   found   == QueryPerLine(served, ids)
               IN  /\ found = SlotBits(served, [ids |-> buckets, count |-> 1]) \cup OnLine(served, "Ec", buckets)
                   /\ found \subseteq QueryWhole(served, ids)
    BY <2>1, <2>3, ToolsFindAlike
  <2>4. ASSUME NEW i \in DOMAIN served.families, NEW uid \in 1 .. served.families[i].max + 1,
               Matching(served.families, Ref(served.families[i], uid)) = {i}
        PROVE  LET ref  == Ref(served.families[i], uid)
                   bits == {c.bit : c \in {x \in ToSet(served.cards) : RefOf(served, x) = ref /\ x.faction \in Factions}}
               IN  CardFound(served, ref) = bits /\ QueryRef(served, ref) = bits
    <3>1. i \in DOMAIN d.families /\ uid \in 1 .. d.families[i].max + 1
          /\ Matching(d.families, Ref(d.families[i], uid)) = {i}
      BY <2>2, <2>4
    <3>2. IsDataset(d) /\ IsSnapshot(served, d)
      BY <2>1
    <3>3. LET ref  == Ref(d.families[i], uid)
              bits == {c.bit : c \in {x \in ToSet(served.cards) : RefOf(served, x) = ref /\ x.faction \in Factions}}
          IN  CardFound(served, ref) = bits /\ QueryRef(served, ref) = bits
      BY <3>1, <3>2, RefShown
    <3> QED
      BY <2>2, <3>3
  <2> QED
    BY <2>3, <2>4 DEF ToolsAgree
<1> QED
  BY <1>1, InvHolds, PTL

(***************************************************************************)
(* Families                                                                *)
(***************************************************************************)
\* The positions of a family, whatever its rows
FamilyBits(fs, f) == UNION {SpanOf(fs[i]) : i \in {j \in DOMAIN fs : fs[j].family = f}}

\* Every row is in the group of the last head before it.
LEMMA HeadOfRow ==
    ASSUME NEW d, IsDataset(d), NEW i \in DOMAIN d.families
    PROVE  \E h \in SpanHeads(d.families) : h <= i /\ SpanHeads(d.families) \cap (h + 1) .. i = {}
<1> DEFINE heads == SpanHeads(d.families)
           S == {x \in heads : x <= i}
<1>1. DOMAIN d.families = 1 .. Len(d.families) /\ Len(d.families) \in Nat /\ i \in Nat
  BY EntryFields DEF IsDataset, Tiles
<1>2. heads \subseteq 1 .. Len(d.families) /\ 1 \in heads
  BY <1>1 DEF SpanHeads
<1> HIDE DEF heads
<1>3. S \in SUBSET (1 .. i) /\ S # {}
  <2>1. \A x \in S : x \in 1 .. i
    BY <1>1, <1>2
  <2>2. 1 \in S
    BY <1>1, <1>2
  <2> QED
    BY <2>1, <2>2
<1>4. Max(S) \in S /\ \A x \in S : x <= Max(S)
  <2> HIDE DEF S
  <2> QED
    BY <1>1, <1>3, MaxOf
<1>5. Max(S) \in heads /\ Max(S) <= i /\ Max(S) \in Nat
  <2> DEFINE m == Max(S)
  <2>1. m \in S
    BY <1>4
  <2> HIDE DEF m
  <2>2. m \in heads /\ m <= i /\ m \in Nat
    BY <1>1, <1>2, <2>1
  <2> QED
    BY <2>2 DEF m
<1>6. ASSUME NEW x \in heads \cap (Max(S) + 1) .. i PROVE FALSE
  <2>1. x \in S /\ x \in Nat /\ Max(S) + 1 <= x
    BY <1>1, <1>2, <1>5
  <2> HIDE DEF S
  <2> QED
    BY <1>4, <1>5, <2>1
<1> QED
  BY <1>5, <1>6 DEF heads

LEMMA RowsOfHead ==
    ASSUME NEW d, IsDataset(d), NEW h \in SpanHeads(d.families), NEW i \in DOMAIN d.families,
           h <= i, SpanHeads(d.families) \cap (h + 1) .. i = {}
    PROVE  d.families[i].family = d.families[h].family
<1> DEFINE fs == d.families
           n == i - h
           S == {k \in 0 .. n : fs[h + k].family = fs[h].family}
<1>1. DOMAIN fs = 1 .. Len(fs) /\ Len(fs) \in Nat /\ i \in Nat /\ h \in Nat /\ h \in DOMAIN fs
  BY EntryFields DEF IsDataset, Tiles, SpanHeads
<1>2. n \in Nat /\ h + n = i /\ h + 0 = h
  BY <1>1
<1> HIDE DEF n
<1>3. 0 \in S
  BY <1>2
<1>4. ASSUME NEW k \in 0 .. n - 1, k \in S PROVE k + 1 \in S
  <2>1. h + k + 1 \in (h + 1) .. i /\ h + k + 1 \in DOMAIN fs /\ h + k + 1 - 1 = h + k /\ h + (k + 1) = h + k + 1
    BY <1>1, <1>2
  <2>2. h + k + 1 \notin SpanHeads(fs)
    BY <2>1
  <2>3. fs[h + k + 1].family = fs[h + k].family
    <3>1. PICK x \in DOMAIN fs : x = h + k + 1
      BY <2>1
    <3>0. x - 1 = h + k /\ x \notin SpanHeads(fs)
      <4>1. x \notin SpanHeads(fs)
        BY <2>2, <3>1
      <4>2. h \in Nat /\ k \in Nat
        BY <1>1
      <4>3. x - 1 = h + k
        BY <3>1, <4>2
      <4> QED
        BY <4>1, <4>3
    <3>2. fs[x - 1].family = fs[x].family
      BY <3>0, <3>1 DEF SpanHeads
    <3> QED
      BY <3>0, <3>1, <3>2
  <2>4. k + 1 \in 0 .. n
    BY <1>2
  <2> QED
    BY <1>4, <2>1, <2>3, <2>4
<1>5. n \in S
  <2> HIDE DEF S
  <2>1. n \in 0 .. n
    BY <1>2
  <2> QED
    BY <1>2, <1>3, <1>4, <2>1, StepByStep
<1> QED
  BY <1>2, <1>5

\* If no family has rows in two places, a group is a family.
LEMMA GroupIsFamily ==
    ASSUME NEW d, IsDataset(d), Together(d.families), NEW h \in SpanHeads(d.families)
    PROVE  GroupBits(d.families, h) = FamilyBits(d.families, d.families[h].family)
<1> DEFINE fs == d.families
           heads == SpanHeads(fs)
<1>1. h \in DOMAIN fs /\ heads \subseteq DOMAIN fs
  BY DEF SpanHeads
<1>2. ASSUME NEW j \in DOMAIN fs
      PROVE  (j >= h /\ heads \cap (h + 1) .. j = {}) <=> fs[j].family = fs[h].family
  <2>1. DOMAIN fs = 1 .. Len(fs) /\ Len(fs) \in Nat /\ h \in Nat /\ j \in Nat
    BY <1>1, EntryFields DEF IsDataset, Tiles
  <2>2. ASSUME j >= h, heads \cap (h + 1) .. j = {} PROVE fs[j].family = fs[h].family
    BY <1>2, <2>1, <2>2, RowsOfHead
  <2>3. ASSUME fs[j].family = fs[h].family PROVE j >= h /\ heads \cap (h + 1) .. j = {}
    <3>1. PICK g \in heads : g <= j /\ heads \cap (g + 1) .. j = {}
      BY <1>2, HeadOfRow
    <3>2. fs[g].family = fs[j].family
      BY <1>2, <3>1, RowsOfHead
    <3>3. g = h
      BY <2>3, <3>1, <3>2 DEF Together
    <3> QED
      BY <2>1, <3>1, <3>3
  <2> QED
    BY <2>2, <2>3
<1> QED
  BY <1>2 DEF GroupBits, FamilyBits

\* The groups are the families, each once.
LEMMA GroupsAreFamilies ==
    ASSUME NEW d, IsDataset(d), Together(d.families)
    PROVE  LET groups == FamilyGroups(d.families)
           IN  /\ \E n \in Nat : DOMAIN groups = 1 .. n
               /\ \A k \in DOMAIN groups : groups[k].bits = FamilyBits(d.families, groups[k].family)
               /\ \A j, k \in DOMAIN groups : groups[j].family = groups[k].family => j = k
               /\ \A i \in DOMAIN d.families : \E k \in DOMAIN groups : groups[k].family = d.families[i].family
<1> DEFINE fs == d.families
           heads == SpanHeads(fs)
           order == Sorted(heads)
           groups == FamilyGroups(fs)
           n == Cardinality(heads)
<1>1. DOMAIN fs = 1 .. Len(fs) /\ Len(fs) \in Nat
  BY DEF IsDataset, Tiles
<1>2. heads \in SUBSET Nat /\ heads \subseteq DOMAIN fs /\ IsFiniteSet(heads)
  <2>1. heads \subseteq 1 .. Len(fs)
    BY <1>1 DEF SpanHeads
  <2>2. IsFiniteSet(1 .. Len(fs))
    <3>1. 1 \in Int /\ Len(fs) \in Int
      BY <1>1
    <3> QED
      BY <3>1, FS_Interval
  <2> HIDE DEF heads
  <2>3. IsFiniteSet(heads)
    BY <2>1, <2>2, FS_Subset
  <2> QED
    BY <1>1, <2>1, <2>3
<1>3. /\ order \in Seq(heads) /\ Len(order) = n
      /\ \A k \in 1 .. n : order[k] \in heads /\ Rank(heads, order[k]) = k - 1
      /\ \A x \in heads : order[Rank(heads, x) + 1] = x
  <2> HIDE DEF heads
  <2> QED
    BY <1>2, SortedRanks
<1>4. n \in Nat
  <2> HIDE DEF heads
  <2> QED
    BY <1>2, FS_CardinalityType
<1>5. DOMAIN order = 1 .. n
  <2> HIDE DEF heads, order, n
  <2> QED
    BY <1>3
<1>6. groups = [k \in 1 .. n |-> [family |-> fs[order[k]].family, bits |-> GroupBits(fs, order[k])]]
  BY <1>5 DEF FamilyGroups
<1>7. ASSUME NEW x \in heads PROVE Rank(heads, x) + 1 \in 1 .. n
  <2>1. Rank(heads, x) \in 0 .. n - 1
    <3> HIDE DEF heads
    <3> QED
      BY <1>2, <1>7, RankGrows
  <2> HIDE DEF n
  <2> QED
    BY <1>4, <2>1
<1> HIDE DEF heads, order, groups, n
<1>8. \A k \in 1 .. n : order[k] \in heads /\ groups[k].family = fs[order[k]].family /\ groups[k].bits = GroupBits(fs, order[k])
  BY <1>3, <1>6
<1>9. ASSUME NEW k \in 1 .. n PROVE groups[k].bits = FamilyBits(fs, groups[k].family)
  <2>1. order[k] \in SpanHeads(fs)
    BY <1>8 DEF heads
  <2> QED
    BY <1>8, <2>1, GroupIsFamily
<1>10. ASSUME NEW j \in 1 .. n, NEW k \in 1 .. n, groups[j].family = groups[k].family PROVE j = k
  <2>1. order[j] = order[k]
    BY <1>8, <1>10 DEF Together, heads
  <2>2. j - 1 = k - 1
    BY <1>3, <2>1
  <2> QED
    BY <2>2
<1>11. ASSUME NEW i \in DOMAIN fs PROVE \E k \in 1 .. n : groups[k].family = fs[i].family
  <2>1. PICK h \in heads : h <= i /\ heads \cap (h + 1) .. i = {}
    BY <1>11, HeadOfRow DEF heads
  <2>2. fs[i].family = fs[h].family
    BY <1>11, <2>1, RowsOfHead DEF heads
  <2>3. order[Rank(heads, h) + 1] = h /\ Rank(heads, h) + 1 \in 1 .. n
    BY <1>3, <1>7, <2>1
  <2> QED
    BY <1>8, <2>2, <2>3
<1> QED
  BY <1>4, <1>6, <1>9, <1>10, <1>11 DEF groups

\* families_from_bitmap lists the families that have positions in the bitmap, each once.
LEMMA FamiliesListed ==
    ASSUME NEW d, IsDataset(d), NEW app, IsSnapshot(app, d), Together(d.families), NEW bits
    PROVE  LET fams == FamiliesOf(app, bits)
           IN  /\ \E n \in Nat : DOMAIN fams = 1 .. n
               /\ \A j, k \in DOMAIN fams : fams[j].family = fams[k].family => j = k
               /\ \A k \in DOMAIN fams :
                    /\ bits \cap FamilyBits(d.families, fams[k].family) # {}
                    /\ fams[k].count = Cardinality(bits \cap FamilyBits(d.families, fams[k].family))
                    /\ fams[k].first = Min(bits \cap FamilyBits(d.families, fams[k].family))
               /\ \A i \in DOMAIN d.families : bits \cap FamilyBits(d.families, d.families[i].family) # {} =>
                    \E k \in DOMAIN fams : fams[k].family = d.families[i].family
<1> DEFINE fs == d.families
           of(f) == bits \cap FamilyBits(fs, f)
           groups == FamilyGroups(fs)
           hits == {k \in DOMAIN groups : groups[k].bits \cap bits # {}}
           hit == Sorted(hits)
           m == Cardinality(hits)
           fams == FamiliesOf(app, bits)
<1>1. app.families = fs
  BY SnapshotFields
<1>2. fams = [n \in DOMAIN hit |-> [family |-> groups[hit[n]].family,
                                   count  |-> Cardinality(groups[hit[n]].bits \cap bits),
                                   first  |-> Min(groups[hit[n]].bits \cap bits)]]
  BY <1>1 DEF FamiliesOf
<1>3. /\ \E n \in Nat : DOMAIN groups = 1 .. n
      /\ \A k \in DOMAIN groups : groups[k].bits = FamilyBits(fs, groups[k].family)
      /\ \A j, k \in DOMAIN groups : groups[j].family = groups[k].family => j = k
      /\ \A i \in DOMAIN fs : \E k \in DOMAIN groups : groups[k].family = fs[i].family
  BY GroupsAreFamilies
<1> HIDE DEF groups, fams
<1>4. hits \in SUBSET Nat /\ hits \subseteq DOMAIN groups /\ IsFiniteSet(hits)
  <2>1. PICK n \in Nat : DOMAIN groups = 1 .. n
    BY <1>3
  <2>2. IsFiniteSet(1 .. n)
    <3>1. 1 \in Int /\ n \in Int
      OBVIOUS
    <3> QED
      BY <3>1, FS_Interval
  <2>3. hits \subseteq 1 .. n
    BY <2>1
  <2> HIDE DEF hits
  <2>4. IsFiniteSet(hits)
    BY <2>2, <2>3, FS_Subset
  <2> QED
    BY <2>1, <2>3, <2>4
<1>5. /\ hit \in Seq(hits) /\ Len(hit) = m /\ m \in Nat
      /\ \A k \in 1 .. m : hit[k] \in hits /\ Rank(hits, hit[k]) = k - 1
      /\ \A x \in hits : hit[Rank(hits, x) + 1] = x /\ Rank(hits, x) \in 0 .. m - 1
  <2> HIDE DEF hits
  <2> QED
    BY <1>4, SortedRanks, RankGrows, FS_CardinalityType
<1>6. DOMAIN hit = 1 .. m
  <2> HIDE DEF hits, hit, m
  <2> QED
    BY <1>5
<1>7. DOMAIN fams = 1 .. m
  BY <1>2, <1>6
<1>8. ASSUME NEW k \in 1 .. m
      PROVE  /\ hit[k] \in DOMAIN groups /\ fams[k].family = groups[hit[k]].family
             /\ of(fams[k].family) # {}
             /\ fams[k].count = Cardinality(of(fams[k].family)) /\ fams[k].first = Min(of(fams[k].family))
  <2>1. hit[k] \in hits
    BY <1>5
  <2>2. hit[k] \in DOMAIN groups /\ groups[hit[k]].bits \cap bits # {}
    BY <2>1
  <2> HIDE DEF hit
  <2>3. /\ fams[k].family = groups[hit[k]].family
        /\ fams[k].count = Cardinality(groups[hit[k]].bits \cap bits)
        /\ fams[k].first = Min(groups[hit[k]].bits \cap bits)
    BY <1>2, <1>6
  <2>4. groups[hit[k]].bits = FamilyBits(fs, fams[k].family)
    BY <1>3, <2>2, <2>3
  <2>5. groups[hit[k]].bits \cap bits = of(fams[k].family)
    BY <2>4
  <2> QED
    BY <2>2, <2>3, <2>5
<1>9. ASSUME NEW j \in 1 .. m, NEW k \in 1 .. m, fams[j].family = fams[k].family PROVE j = k
  <2>1. hit[j] = hit[k]
    <3>1. /\ hit[j] \in DOMAIN groups /\ hit[k] \in DOMAIN groups
          /\ groups[hit[j]].family = groups[hit[k]].family
      <4> HIDE DEF hit
      <4> QED
        BY <1>8, <1>9
    <3> HIDE DEF hit
    <3> QED
      BY <1>3, <3>1
  <2>2. j - 1 = k - 1
    <3> HIDE DEF hit, hits
    <3> QED
      BY <1>5, <2>1
  <2> QED
    BY <2>2
<1>10. ASSUME NEW i \in DOMAIN fs, of(fs[i].family) # {} PROVE \E k \in 1 .. m : fams[k].family = fs[i].family
  <2>1. PICK g \in DOMAIN groups : groups[g].family = fs[i].family
    BY <1>3
  <2>2. g \in hits
    BY <1>3, <1>10, <2>1
  <2> HIDE DEF hits, hit, m
  <2>3. hit[Rank(hits, g) + 1] = g /\ Rank(hits, g) + 1 \in 1 .. m
    BY <1>5, <2>2
  <2> QED
    BY <1>8, <2>1, <2>3
<1> HIDE DEF m
<1> QED
  BY <1>5, <1>7, <1>8, <1>9, <1>10 DEF fams

(***************************************************************************)
(* Counts                                                                  *)
(***************************************************************************)
\* The fold that adds the counts up, for every set of positions
CountFold(fams, h) ==
    h = [s \in SUBSET DOMAIN fams |-> IF s = {} THEN 0 ELSE AddCount(h[s \ {Max(s)}], fams[Max(s)])]

LEMMA SumIsFold == ASSUME NEW fams PROVE FoldLeft(AddCount, 0, fams) = (CHOOSE h : CountFold(fams, h))[DOMAIN fams]
BY DEF FoldLeft, MapThenFoldSet, CountFold

LEMMA CountFoldExists ==
    ASSUME NEW fams, NEW n \in Nat, DOMAIN fams = 1 .. n
    PROVE  \E h : CountFold(fams, h)
<1> DEFINE Upto(k, h) == h = [s \in SUBSET (1 .. k) |->
                                IF s = {} THEN 0 ELSE AddCount(h[s \ {Max(s)}], fams[Max(s)])]
           S == {k \in Nat : \E h : Upto(k, h)}
<1>1. 0 \in S
  <2>1. Upto(0, [s \in SUBSET (1 .. 0) |-> 0])
    OBVIOUS
  <2> QED
    BY <2>1
<1>2. ASSUME NEW k \in 0 .. n - 1, k \in S PROVE k + 1 \in S
  <2>1. PICK g : Upto(k, g)
    BY <1>2
  <2> DEFINE h == [s \in SUBSET (1 .. k + 1) |->
                    IF k + 1 \in s THEN AddCount(g[s \ {k + 1}], fams[k + 1]) ELSE g[s]]
  <2>2. ASSUME NEW s \in SUBSET (1 .. k + 1), s # {}
        PROVE  h[s] = AddCount(h[s \ {Max(s)}], fams[Max(s)])
    <3>1. CASE k + 1 \in s
      <4>1. \A y \in s : y <= k + 1
        OBVIOUS
      <4>2. Max(s) = k + 1
        BY <4>1, <3>1, MaxIs, k + 1 \in Nat
      <4>3. h[s] = AddCount(g[s \ {k + 1}], fams[k + 1])
        BY <3>1
      <4>4. h[s \ {k + 1}] = g[s \ {k + 1}]
        OBVIOUS
      <4> QED
        BY <4>2, <4>3, <4>4
    <3>2. CASE k + 1 \notin s
      <4>1. s \in SUBSET (1 .. k)
        BY <3>2
      <4>2. s \ {Max(s)} \in SUBSET (1 .. k)
        BY <4>1
      <4>3. g[s] = AddCount(g[s \ {Max(s)}], fams[Max(s)])
        BY <2>1, <4>1, <2>2
      <4>4. h[s] = g[s] /\ h[s \ {Max(s)}] = g[s \ {Max(s)}]
        BY <4>1, <4>2, <3>2
      <4> QED
        BY <4>3, <4>4
    <3> QED
      BY <3>1, <3>2
  <2>3. h[{}] = 0
    BY <2>1
  <2>4. Upto(k + 1, h)
    BY <2>2, <2>3
  <2>5. k + 1 \in Nat
    OBVIOUS
  <2> QED
    BY <2>4, <2>5
<1>3. n \in S
  <2> HIDE DEF S
  <2>1. n \in 0 .. n
    OBVIOUS
  <2> QED
    BY <1>1, <1>2, <2>1, StepByStep
<1> QED
  BY <1>3 DEF CountFold

\* The counts of sets without common members add up to the count of all their members.
LEMMA CountsAddUp ==
    ASSUME NEW fams, NEW n \in Nat, DOMAIN fams = 1 .. n, NEW part,
           \A k \in 1 .. n : IsFiniteSet(part[k]) /\ fams[k].count = Cardinality(part[k]),
           \A j, k \in 1 .. n : j # k => part[j] \cap part[k] = {}
    PROVE  FoldLeft(AddCount, 0, fams) = Cardinality(UNION {part[k] : k \in 1 .. n})
<1> DEFINE h == CHOOSE g : CountFold(fams, g)
           all(k) == UNION {part[i] : i \in 1 .. k}
           S == {k \in Nat : IsFiniteSet(all(k)) /\ h[1 .. k] = Cardinality(all(k))}
<1>1. CountFold(fams, h)
  BY CountFoldExists, Zenon
<1>2. FoldLeft(AddCount, 0, fams) = h[1 .. n]
  BY SumIsFold
<1> HIDE DEF h
<1>3. 0 \in S
  <2>1. 1 .. 0 = {} /\ all(0) = {}
    OBVIOUS
  <2>2. h[1 .. 0] = 0
    BY <1>1, <2>1 DEF CountFold
  <2> QED
    BY <2>1, <2>2, FS_EmptySet
<1>4. ASSUME NEW k \in 0 .. n - 1, k \in S PROVE k + 1 \in S
  <2>0. k \in Nat /\ k + 1 \in Nat /\ k + 1 \in 1 .. n
    OBVIOUS
  <2>1. 1 .. k + 1 \in SUBSET (1 .. n) /\ 1 .. k + 1 # {} /\ (1 .. k + 1) \ {k + 1} = 1 .. k
    <3>1. \A i \in 1 .. k + 1 : i \in 1 .. n
      OBVIOUS
    <3>2. k + 1 \in 1 .. k + 1
      OBVIOUS
    <3> QED
      BY <3>1, <3>2
  <2>2. Max(1 .. k + 1) = k + 1
    <3> DEFINE top == 1 .. k + 1
    <3>1. top \in SUBSET (1 .. k + 1) /\ k + 1 \in Nat /\ k + 1 \in top /\ \A y \in top : y <= k + 1
      OBVIOUS
    <3> HIDE DEF top
    <3>2. Max(top) = k + 1
      BY <3>1, MaxIs
    <3> QED
      BY <3>2 DEF top
  <2>3. h[1 .. k + 1] = h[1 .. k] + fams[k + 1].count
    <3>1. h[1 .. k + 1] = AddCount(h[1 .. k], fams[k + 1])
      BY <1>1, <2>1, <2>2 DEF CountFold
    <3> QED
      BY <3>1 DEF AddCount
  <2>4. all(k + 1) = all(k) \cup part[k + 1]
    <3>1. 1 .. k + 1 = (1 .. k) \cup {k + 1}
      OBVIOUS
    <3> QED
      BY <3>1
  <2>5. all(k) \cap part[k + 1] = {}
    <3>1. \A i \in 1 .. k : i \in 1 .. n /\ i # k + 1
      OBVIOUS
    <3>2. \A i \in 1 .. k : part[i] \cap part[k + 1] = {}
      BY <2>0, <3>1
    <3> QED
      BY <3>2
  <2>6. IsFiniteSet(all(k)) /\ h[1 .. k] = Cardinality(all(k))
    BY <1>4
  <2>7. IsFiniteSet(part[k + 1]) /\ fams[k + 1].count = Cardinality(part[k + 1])
    BY <2>0
  <2> HIDE DEF all
  <2>8. /\ IsFiniteSet(all(k) \cup part[k + 1])
        /\ Cardinality(all(k) \cup part[k + 1]) = Cardinality(all(k)) + Cardinality(part[k + 1]) - Cardinality(all(k) \cap part[k + 1])
    BY <2>6, <2>7, FS_Union
  <2>9. Cardinality(all(k) \cap part[k + 1]) = 0
    BY <2>5, FS_EmptySet
  <2>10. Cardinality(all(k)) \in Nat /\ Cardinality(part[k + 1]) \in Nat
    BY <2>6, <2>7, FS_CardinalityType
  <2>11. Cardinality(all(k + 1)) = Cardinality(all(k)) + Cardinality(part[k + 1])
    <3> DEFINE a == Cardinality(all(k))
               b == Cardinality(part[k + 1])
    <3>1. a \in Nat /\ b \in Nat /\ Cardinality(all(k + 1)) = a + b - 0
      BY <2>4, <2>8, <2>9, <2>10
    <3> HIDE DEF a, b
    <3>2. Cardinality(all(k + 1)) = a + b
      BY <3>1
    <3> QED
      BY <3>2 DEF a, b
  <2> QED
    BY <2>0, <2>3, <2>4, <2>6, <2>7, <2>8, <2>11
<1>5. n \in S
  <2> HIDE DEF S
  <2>1. n \in 0 .. n
    OBVIOUS
  <2> QED
    BY <1>3, <1>4, <2>1, StepByStep
<1> QED
  BY <1>2, <1>5

\* Of an answer in families, which get_cards_v2 gives at once: every family that has positions in the
\* answer is listed once, with the number of them and the first, and the counts add up to the total,
\* for every catalog in which no family has rows in two places.
THEOREM FamiliesCountAnswerHolds == Spec => []FamiliesCountAnswer
<1>1. Inv => FamiliesCountAnswer
  <2> DEFINE all == Answer(served, chat.p)
             fams == chat.reply.families
             bitsOf(f) == {bit \in all : \E e \in ToSet(served.families) : e.family = f /\ bit \in SpanOf(e)}
  <2> SUFFICES ASSUME Inv, Listing, chat.p.families, Together(served.families)
               PROVE  /\ \A i, j \in DOMAIN fams : fams[i].family = fams[j].family => i = j
                      /\ \A i \in DOMAIN fams : /\ fams[i].count = Cardinality(bitsOf(fams[i].family))
                                                /\ fams[i].first = Min(bitsOf(fams[i].family))
                      /\ \A e \in ToSet(served.families) :
                            bitsOf(e.family) # {} => \E i \in DOMAIN fams : fams[i].family = e.family
                      /\ FoldLeft(AddCount, 0, fams) = chat.reply.total
    BY DEF FamiliesCountAnswer
  <2>1. PICK d : IsDataset(d) /\ IsSnapshot(served, d)
    BY ListingFacts
  <2>2. fams = FamiliesOf(served, all) /\ chat.reply.total = Cardinality(all)
    BY ListingFacts DEF CountedSo
  <2>3. served.families = d.families /\ served.span = d.span
    BY <2>1, SnapshotFields
  <2>4. all \subseteq 0 .. d.span - 1 /\ IsFiniteSet(all)
    BY <2>1, <2>3, AnswerIsFinite DEF Answer, AllBits
  <2> HIDE DEF all, fams
  <2> DEFINE fs == d.families
             of(f) == all \cap FamilyBits(fs, f)
  <2>5. \A f : bitsOf(f) = of(f)
    BY <2>3 DEF FamilyBits, ToSet
  <2>6. /\ \E n \in Nat : DOMAIN fams = 1 .. n
        /\ \A j, k \in DOMAIN fams : fams[j].family = fams[k].family => j = k
        /\ \A k \in DOMAIN fams : /\ of(fams[k].family) # {}
                                  /\ fams[k].count = Cardinality(of(fams[k].family))
                                  /\ fams[k].first = Min(of(fams[k].family))
        /\ \A i \in DOMAIN fs : of(fs[i].family) # {} => \E k \in DOMAIN fams : fams[k].family = fs[i].family
    BY <2>1, <2>2, <2>3, FamiliesListed
  <2>7. PICK n \in Nat : DOMAIN fams = 1 .. n
    BY <2>6
  <2> DEFINE part == [k \in 1 .. n |-> of(fams[k].family)]
  <2>8. \A k \in 1 .. n : IsFiniteSet(part[k]) /\ fams[k].count = Cardinality(part[k])
    <3>1. \A f : IsFiniteSet(of(f))
      BY <2>4, FS_Subset
    <3> HIDE DEF of
    <3> QED
      BY <3>1, <2>6, <2>7
  <2>9. ASSUME NEW j \in 1 .. n, NEW k \in 1 .. n, j # k PROVE part[j] \cap part[k] = {}
    <3>1. fams[j].family # fams[k].family
      BY <2>6, <2>7, <2>9
    <3>2. FamilyBits(fs, fams[j].family) \cap FamilyBits(fs, fams[k].family) = {}
      BY <2>1, <3>1, SpansApart DEF FamilyBits
    <3> QED
      BY <3>2
  <2>10. UNION {part[k] : k \in 1 .. n} = all
    <3>1. ASSUME NEW bit \in all PROVE \E k \in 1 .. n : bit \in part[k]
      <4>1. PICK i \in DOMAIN fs : bit \in SpanOf(fs[i])
        BY <2>1, <2>4 DEF IsDataset, Tiles
      <4>2. bit \in of(fs[i].family)
        BY <4>1 DEF FamilyBits
      <4>3. PICK k \in DOMAIN fams : fams[k].family = fs[i].family
        BY <2>6, <4>2
      <4> QED
        BY <2>7, <4>2, <4>3
    <3> QED
      BY <3>1
  <2>11. FoldLeft(AddCount, 0, fams) = Cardinality(all)
    <3>1. \A j, k \in 1 .. n : j # k => part[j] \cap part[k] = {}
      BY <2>9
    <3> HIDE DEF part
    <3>2. FoldLeft(AddCount, 0, fams) = Cardinality(UNION {part[k] : k \in 1 .. n})
      BY <2>7, <2>8, <3>1, CountsAddUp
    <3> QED
      BY <2>10, <3>2
  <2>12. \A e \in ToSet(served.families) : \E i \in DOMAIN fs : e = fs[i]
    BY <2>3 DEF ToSet
  <2> HIDE DEF of, bitsOf
  <2>13. \A i \in DOMAIN fams : /\ fams[i].count = Cardinality(bitsOf(fams[i].family))
                                /\ fams[i].first = Min(bitsOf(fams[i].family))
    BY <2>5, <2>6
  <2>14. \A e \in ToSet(served.families) : bitsOf(e.family) # {} => \E i \in DOMAIN fams : fams[i].family = e.family
    BY <2>5, <2>6, <2>12
  <2> QED
    BY <2>2, <2>6, <2>11, <2>13, <2>14
<1> QED
  BY <1>1, InvHolds, PTL

(***************************************************************************)
(* The snapshots behind the filter panel                                   *)
(***************************************************************************)
\* The fold that indexes cards, for every set of positions
IndexFold(cards, h) ==
    h = [s \in SUBSET DOMAIN cards |-> IF s = {} THEN EmptyIndex ELSE Indexed(h[s \ {Max(s)}], cards[Max(s)])]

LEMMA IndexIsFold ==
    ASSUME NEW cards PROVE FoldLeft(Indexed, EmptyIndex, cards) = (CHOOSE h : IndexFold(cards, h))[DOMAIN cards]
BY DEF FoldLeft, MapThenFoldSet, IndexFold

LEMMA IndexFoldExists ==
    ASSUME NEW cards, NEW n \in Nat, DOMAIN cards = 1 .. n
    PROVE  \E h : IndexFold(cards, h)
<1> DEFINE Upto(k, h) == h = [s \in SUBSET (1 .. k) |->
                                IF s = {} THEN EmptyIndex ELSE Indexed(h[s \ {Max(s)}], cards[Max(s)])]
           S == {k \in Nat : \E h : Upto(k, h)}
<1>1. 0 \in S
  <2>1. Upto(0, [s \in SUBSET (1 .. 0) |-> EmptyIndex])
    OBVIOUS
  <2> QED
    BY <2>1
<1>2. ASSUME NEW k \in 0 .. n - 1, k \in S PROVE k + 1 \in S
  <2>1. PICK g : Upto(k, g)
    BY <1>2
  <2> DEFINE h == [s \in SUBSET (1 .. k + 1) |->
                    IF k + 1 \in s THEN Indexed(g[s \ {k + 1}], cards[k + 1]) ELSE g[s]]
  <2>2. ASSUME NEW s \in SUBSET (1 .. k + 1), s # {}
        PROVE  h[s] = Indexed(h[s \ {Max(s)}], cards[Max(s)])
    <3>1. CASE k + 1 \in s
      <4>1. \A y \in s : y <= k + 1
        OBVIOUS
      <4>2. Max(s) = k + 1
        BY <4>1, <3>1, MaxIs, k + 1 \in Nat
      <4>3. h[s] = Indexed(g[s \ {k + 1}], cards[k + 1])
        BY <3>1
      <4>4. h[s \ {k + 1}] = g[s \ {k + 1}]
        OBVIOUS
      <4> QED
        BY <4>2, <4>3, <4>4
    <3>2. CASE k + 1 \notin s
      <4>1. s \in SUBSET (1 .. k)
        BY <3>2
      <4>2. s \ {Max(s)} \in SUBSET (1 .. k)
        BY <4>1
      <4>3. g[s] = Indexed(g[s \ {Max(s)}], cards[Max(s)])
        BY <2>1, <4>1, <2>2
      <4>4. h[s] = g[s] /\ h[s \ {Max(s)}] = g[s \ {Max(s)}]
        BY <4>1, <4>2, <3>2
      <4> QED
        BY <4>3, <4>4
    <3> QED
      BY <3>1, <3>2
  <2>3. h[{}] = EmptyIndex
    BY <2>1
  <2>4. Upto(k + 1, h)
    BY <2>2, <2>3
  <2>5. k + 1 \in Nat
    OBVIOUS
  <2> QED
    BY <2>4, <2>5
<1>3. n \in S
  <2> HIDE DEF S
  <2>1. n \in 0 .. n
    OBVIOUS
  <2> QED
    BY <1>1, <1>2, <2>1, StepByStep
<1> QED
  BY <1>3 DEF IndexFold

\* Indexing all cards of a dataset one after the other records them all.
LEMMA FoldRecords ==
    ASSUME NEW d, IsDataset(d)
    PROVE  Recorded(FoldLeft(Indexed, EmptyIndex, d.cards), d.cards, Len(d.cards))
<1> DEFINE cards == d.cards
           len == Len(cards)
<1>1. len \in Nat /\ DOMAIN cards = 1 .. len
  BY DEF IsDataset, Tiles
<1>2. PICK h : h = (CHOOSE g : IndexFold(cards, g))
  OBVIOUS
<1>3. IndexFold(cards, h)
  <2> HIDE DEF cards, len
  <2>1. \E g : IndexFold(cards, g)
    BY <1>1, IndexFoldExists
  <2> QED
    BY <1>2, <2>1
<1>4. FoldLeft(Indexed, EmptyIndex, cards) = h[1 .. len]
  BY <1>1, <1>2, IndexIsFold
<1> DEFINE S == {k \in 0 .. len : Recorded(h[1 .. k], cards, k)}
<1>5. 0 \in S
  <2>1. h[1 .. 0] = EmptyIndex
    BY <1>1, <1>3 DEF IndexFold
  <2> QED
    BY <1>1, <2>1, EmptyRecords
<1>6. ASSUME NEW k \in 0 .. len - 1, k \in S PROVE k + 1 \in S
  <2>1. Max(1 .. k + 1) = k + 1
    <3>1. \A y \in 1 .. k + 1 : y <= k + 1
      OBVIOUS
    <3>2. 1 .. k + 1 \in SUBSET Nat /\ k + 1 \in 1 .. k + 1
      BY <1>1
    <3> QED
      BY <3>1, <3>2, MaxIs
  <2>2. (1 .. k + 1) \ {k + 1} = 1 .. k
    BY <1>1
  <2>3. 1 .. k + 1 \in SUBSET DOMAIN cards /\ 1 .. k + 1 # {}
    BY <1>1
  <2>4. h[1 .. k + 1] = Indexed(h[1 .. k], cards[k + 1])
    BY <1>3, <2>1, <2>2, <2>3 DEF IndexFold
  <2>5. Recorded(h[1 .. k], cards, k)
    BY <1>6
  <2>6. Recorded(Indexed(h[1 .. k], cards[k + 1]), cards, k + 1)
    BY <2>5, IndexedRecords
  <2>7. k + 1 \in 0 .. len
    BY <1>1
  <2> QED
    BY <2>4, <2>6, <2>7
<1>7. len \in S
  <2>1. len \in 0 .. len
    BY <1>1
  <2> HIDE DEF S, len
  <2> QED
    BY <1>1, <1>5, <1>6, <2>1, StepByStep
<1> QED
  BY <1>4, <1>7

\* An idGd that is in an index is a number.
LEMMA IdsAreNumbers ==
    ASSUME NEW d, IsDataset(d), NEW app, IsSnapshot(app, d)
    PROVE  DOMAIN app.index.types \subseteq Nat
<1>1. /\ DOMAIN app.index.types = UNION {IdsOf(AllNodes(d.cards[n])) : n \in 1 .. Len(d.cards)}
      /\ DOMAIN d.cards = 1 .. Len(d.cards)
  BY SnapshotFields DEF Recorded
<1>2. ASSUME NEW n \in DOMAIN d.cards PROVE IdsOf(AllNodes(d.cards[n])) \subseteq Nat
  <2> DEFINE e == d.cards[n].elements
             parts == [i \in DOMAIN e |-> NodesOf(e[i])]
  <2>1. e \in Seq(Elements)
    BY CardElements
  <2>2. AllNodes(d.cards[n]) = FlattenSeq(parts)
    BY DEF AllNodes
  <2> HIDE DEF e
  <2>3. parts \in Seq(Seq(Nodes))
    <3>1. \A i \in DOMAIN e : NodesOf(e[i]) \in Seq(Nodes)
      BY <2>1, ElementNodes
    <3>2. DOMAIN e = 1 .. Len(e) /\ Len(e) \in Nat
      BY <2>1
    <3> QED
      BY <3>1, <3>2
  <2> HIDE DEF parts
  <2>4. FlattenSeq(parts) \in Seq(Nodes)
    BY <2>3, FlattenHas
  <2>5. \A x \in Nodes : x.id \in Nat
    BY DEF Nodes
  <2>6. \A i \in DOMAIN FlattenSeq(parts) : FlattenSeq(parts)[i].id \in Nat
    BY <2>4, <2>5
  <2> QED
    BY <2>2, <2>6 DEF IdsOf
<1> QED
  BY <1>1, <1>2

LEMMA PanelSnapshot ==
    ASSUME NEW n \in DOMAIN Crawled
    PROVE  IsDataset(Crawled[n]) /\ IsSnapshot(Snapshots[n], Crawled[n])
<1>1. IsDataset(Crawled[n])
  BY PanelAssumption
<1>2. Snapshots[n] = SnapshotOf(n, Crawled[n], FoldLeft(Indexed, EmptyIndex, Crawled[n].cards))
  BY DEF Snapshots
<1> QED
  BY <1>1, <1>2, FoldRecords, PublishedSnapshot

(***************************************************************************)
(* The invariant of the filter panel                                       *)
(***************************************************************************)
Tokens == (UNION {ToSet(text) : text \in Typed}) \cup {Blank} \cup Nat
Texts == [Kinds -> Seq(Tokens)]
PanelSlots == [texts : Texts, count : 1 .. 3]
Panels ==
    [ effects : Seq(PanelSlots), mode : {"and", "or"}, support : Texts,
      factions : SUBSET Codes, sets : SUBSET Sets, costs : [Costs -> Seq(Nat \X Nat)],
      words : [DOMAIN Words -> {text \in Seq(STRING) : Len(text) <= 1}],
      limit : Seq(Nat), families : BOOLEAN ]

\* A panel with the catalogs of what has been served, and the focus in a box it has
PanelInv ==
    /\ panel \in Panels
    /\ focus # NoBox => focus \in Boxes(panel)
    /\ catalog.from \in Seq(DOMAIN Crawled)
    /\ edition \in DOMAIN Crawled

LEMMA EditionsAre == DOMAIN Crawled = 1 .. Len(Crawled) /\ Len(Crawled) \in Nat \ {0} /\ DOMAIN Snapshots = DOMAIN Crawled
<1>1. Crawled \in Seq(ToSet(Crawled)) /\ Crawled # <<>>
  BY PanelAssumption DEF IsSequence
<1>2. Len(Crawled) \in Nat /\ DOMAIN Crawled = 1 .. Len(Crawled) /\ Len(Crawled) # 0
  BY <1>1
<1> QED
  BY <1>2 DEF Snapshots

LEMMA DefaultInPanels == DefaultPanel \in Panels
<1>1. EmptyTexts \in Texts
  BY DEF EmptyTexts, Texts
<1>2. EmptySlot \in PanelSlots
  BY <1>1 DEF EmptySlot, PanelSlots
<1>3. <<EmptySlot>> \in Seq(PanelSlots)
  BY <1>2
<1>4. [s \in Costs |-> <<>>] \in [Costs -> Seq(Nat \X Nat)]
  OBVIOUS
<1>5. [f \in DOMAIN Words |-> <<>>] \in [DOMAIN Words -> {text \in Seq(STRING) : Len(text) <= 1}]
  <2>1. <<>> \in Seq(STRING) /\ Len(<<>>) = 0
    OBVIOUS
  <2> QED
    BY <2>1
<1> QED
  BY <1>1, <1>3, <1>4, <1>5 DEF DefaultPanel, Panels

\* What is filled into a box of a panel leaves a panel with the same boxes.
LEMMA FilledIn ==
    ASSUME NEW pan \in Panels, NEW box \in Boxes(pan), NEW text \in Seq(Tokens)
    PROVE  WithText(pan, box, text) \in Panels /\ Boxes(WithText(pan, box, text)) = Boxes(pan)
<1>1. box.kind \in Kinds /\ (box.region # <<>> => box.region[1] \in DOMAIN pan.effects)
  BY DEF Boxes
<1>2. CASE box.region = <<>>
  <2>1. WithText(pan, box, text) = [pan EXCEPT !.support = [@ EXCEPT ![box.kind] = text]]
    BY <1>2 DEF WithText
  <2>2. [pan.support EXCEPT ![box.kind] = text] \in Texts
    BY <1>1 DEF Panels, Texts
  <2> QED
    BY <2>1, <2>2 DEF Panels, Boxes
<1>3. CASE box.region # <<>>
  <2> DEFINE i == box.region[1]
             slot == [pan.effects[i] EXCEPT !.texts = [@ EXCEPT ![box.kind] = text]]
             new == [pan.effects EXCEPT ![i] = slot]
  <2>1. WithText(pan, box, text) = [pan EXCEPT !.effects = new]
    BY <1>3 DEF WithText
  <2>2. pan.effects \in Seq(PanelSlots) /\ i \in DOMAIN pan.effects
    BY <1>1, <1>3 DEF Panels
  <2>3. pan.effects[i] \in PanelSlots
    BY <2>2
  <2>4. [pan.effects[i].texts EXCEPT ![box.kind] = text] \in Texts
    BY <1>1, <2>3 DEF PanelSlots, Texts
  <2>5. slot \in PanelSlots
    BY <2>3, <2>4 DEF PanelSlots
  <2> HIDE DEF slot
  <2>6. new \in Seq(PanelSlots) /\ DOMAIN new = DOMAIN pan.effects
    BY <2>2, <2>5
  <2> HIDE DEF new
  <2>7. [pan EXCEPT !.effects = new] \in Panels /\ [pan EXCEPT !.effects = new].effects = new
    BY <2>6 DEF Panels
  <2> QED
    BY <2>1, <2>6, <2>7 DEF Boxes
<1> QED
  BY <1>2, <1>3

LEMMA TextInBox ==
    ASSUME NEW pan \in Panels, NEW box \in Boxes(pan)
    PROVE  TextOf(pan, box) \in Seq(Tokens)
<1>1. box.kind \in Kinds /\ (box.region # <<>> => box.region[1] \in DOMAIN pan.effects)
  BY DEF Boxes
<1>2. CASE box.region = <<>>
  BY <1>1, <1>2 DEF TextOf, Panels, Texts
<1>3. CASE box.region # <<>>
  <2>1. pan.effects[box.region[1]] \in PanelSlots
    BY <1>1, <1>3 DEF Panels
  <2> QED
    BY <1>1, <1>3, <2>1 DEF TextOf, PanelSlots, Texts
<1> QED
  BY <1>2, <1>3

\* Both ways of putting an id into a text
LEMMA TextWithId ==
    ASSUME NEW text \in Seq(Tokens), NEW id \in Nat
    PROVE  Replaced(text, id) \in Seq(Tokens) /\ Appended(text, id) \in Seq(Tokens)
<1>1. id \in Tokens
  BY DEF Tokens
<1>2. SubSeq(text, 1, Len(text) - 1) \in Seq(Tokens)
  BY SubSeqProperties
<1>3. Replaced(text, id) \in Seq(Tokens)
  BY <1>1, <1>2 DEF Replaced
<1> QED
  BY <1>1, <1>3 DEF Appended

LEMMA PickedText ==
    ASSUME NEW pan \in Panels, NEW box \in Boxes(pan), NEW id \in Nat
    PROVE  Selected(pan, box, id) \in Panels /\ Boxes(Selected(pan, box, id)) = Boxes(pan)
<1>1. PICK text \in Seq(Tokens) : Selected(pan, box, id) = WithText(pan, box, text)
  <2>1. TextOf(pan, box) \in Seq(Tokens)
    BY TextInBox
  <2> QED
    BY <2>1, TextWithId DEF Selected
<1> QED
  BY <1>1, FilledIn

\* What a box lists is of some index that was served.
LEMMA OptionsAreNumbers ==
    ASSUME catalog.from \in Seq(DOMAIN Crawled), NEW box, NEW id \in BoxOptions(box)
    PROVE  id \in Nat
<1>1. PICK n \in ToSet(catalog.from) : id \in CatalogOptions(Snapshots[n], box)
  BY DEF BoxOptions
<1>2. n \in DOMAIN Crawled
  BY DEF ToSet
<1>3. id \in DOMAIN Snapshots[n].index.types
  BY <1>1 DEF CatalogOptions
<1> QED
  BY <1>2, <1>3, PanelSnapshot, IdsAreNumbers

LEMMA PanelInitInv == PanelInit => PanelInv
BY DefaultInPanels, EditionsAre DEF PanelInit, PanelInv

\* Every other control leaves a panel.
LEMMA ControlsKeepPanel ==
    ASSUME NEW pan \in Panels
    PROVE  /\ [pan EXCEPT !.effects = Append(@, EmptySlot)] \in Panels
           /\ \A i \in DOMAIN pan.effects : [pan EXCEPT !.effects = RemoveAt(@, i)] \in Panels
           /\ \A i \in DOMAIN pan.effects, count \in 1 .. 3 : [pan EXCEPT !.effects[i].count = count] \in Panels
           /\ \A mode \in {"and", "or"} : [pan EXCEPT !.mode = mode] \in Panels
           /\ \A s \in Costs, text \in CostTexts : [pan EXCEPT !.costs[s] = text] \in Panels
           /\ \A field \in DOMAIN Words : \A text \in Words[field] : [pan EXCEPT !.words[field] = text] \in Panels
           /\ \A text \in Limits : [pan EXCEPT !.limit = text] \in Panels
           /\ \A f \in Codes : [pan EXCEPT !.factions = Toggled(@, f)] \in Panels
           /\ \A s \in Sets : [pan EXCEPT !.sets = Toggled(@, s)] \in Panels
           /\ [pan EXCEPT !.families = ~@] \in Panels
<1>1. pan.effects \in Seq(PanelSlots)
  BY DEF Panels
<1>2. \A effects \in Seq(PanelSlots) : [pan EXCEPT !.effects = effects] \in Panels
  BY DEF Panels
<1>3. Append(pan.effects, EmptySlot) \in Seq(PanelSlots)
  <2>1. EmptyTexts \in Texts
    BY DEF EmptyTexts, Texts
  <2>2. EmptySlot \in PanelSlots
    BY <2>1 DEF EmptySlot, PanelSlots
  <2> QED
    BY <1>1, <2>2
<1>4. ASSUME NEW i \in DOMAIN pan.effects PROVE RemoveAt(pan.effects, i) \in Seq(PanelSlots)
  <2>1. /\ SubSeq(pan.effects, 1, i - 1) \in Seq(PanelSlots)
        /\ SubSeq(pan.effects, i + 1, Len(pan.effects)) \in Seq(PanelSlots)
    BY <1>1, SubSeqProperties
  <2> QED
    BY <2>1 DEF RemoveAt
<1>5. ASSUME NEW i \in DOMAIN pan.effects, NEW count \in 1 .. 3
      PROVE  [pan.effects EXCEPT ![i] = [@ EXCEPT !.count = count]] \in Seq(PanelSlots)
  <2>1. pan.effects[i] \in PanelSlots
    BY <1>1
  <2>2. [pan.effects[i] EXCEPT !.count = count] \in PanelSlots
    BY <2>1 DEF PanelSlots
  <2> QED
    BY <1>1, <2>2
<1>6. \A i \in DOMAIN pan.effects, count \in 1 .. 3 : [pan EXCEPT !.effects[i].count = count] \in Panels
  BY <1>2, <1>5
<1>7. \A mode \in {"and", "or"} : [pan EXCEPT !.mode = mode] \in Panels
  BY DEF Panels
<1>8. ASSUME NEW s \in Costs, NEW text \in CostTexts PROVE [pan EXCEPT !.costs[s] = text] \in Panels
  <2>1. text \in Seq(Nat \X Nat)
    BY PanelAssumption
  <2>2. [pan.costs EXCEPT ![s] = text] \in [Costs -> Seq(Nat \X Nat)]
    BY <2>1 DEF Panels
  <2> QED
    BY <2>2 DEF Panels
<1>9. ASSUME NEW field \in DOMAIN Words, NEW text \in Words[field] PROVE [pan EXCEPT !.words[field] = text] \in Panels
  <2>1. text \in {t \in Seq(STRING) : Len(t) <= 1}
    BY PanelAssumption
  <2>2. [pan.words EXCEPT ![field] = text] \in [DOMAIN Words -> {t \in Seq(STRING) : Len(t) <= 1}]
    BY <2>1 DEF Panels
  <2> QED
    BY <2>2 DEF Panels
<1>10. ASSUME NEW text \in Limits PROVE [pan EXCEPT !.limit = text] \in Panels
  <2>1. text \in Seq(Nat)
    BY PanelAssumption
  <2> QED
    BY <2>1 DEF Panels
<1>11. \A f \in Codes : [pan EXCEPT !.factions = Toggled(@, f)] \in Panels
  BY DEF Panels, Toggled
<1>12. \A s \in Sets : [pan EXCEPT !.sets = Toggled(@, s)] \in Panels
  BY DEF Panels, Toggled
<1>13. [pan EXCEPT !.families = ~@] \in Panels
  BY DEF Panels
<1> QED
  BY <1>1, <1>2, <1>3, <1>4, <1>6, <1>7, <1>8, <1>9, <1>10, <1>11, <1>12, <1>13

LEMMA PanelNextInv == PanelInv /\ [PanelNext]_panelVars => PanelInv'
<1> SUFFICES ASSUME PanelInv, [PanelNext]_panelVars PROVE PanelInv'
  OBVIOUS
<1>0. /\ panel \in Panels /\ catalog.from \in Seq(DOMAIN Crawled) /\ edition \in DOMAIN Crawled
      /\ focus # NoBox => focus \in Boxes(panel)
  BY DEF PanelInv
<1>1. CASE UNCHANGED panelVars
  BY <1>0, <1>1 DEF panelVars, PanelInv, Boxes
<1>2. ASSUME NEW box \in Boxes(panel), Focus(box) PROVE PanelInv'
  BY <1>0, <1>2 DEF Focus, PanelInv, Boxes
<1>3. CASE Blur
  BY <1>0, <1>3 DEF Blur, PanelInv
<1>4. ASSUME NEW pan, pan \in Panels, Boxes(pan) = Boxes(panel), Edit(pan), focus' \in {focus} \cup Boxes(panel)
      PROVE  PanelInv'
  <2>1. panel' = pan /\ catalog' = catalog /\ edition' = edition
    BY <1>4 DEF Edit
  <2>2. Boxes(panel)' = Boxes(panel)
    BY <1>4, <2>1 DEF Boxes
  <2> QED
    BY <1>0, <1>4, <2>1, <2>2 DEF PanelInv
<1>5. ASSUME NEW pan, pan \in Panels, Change(pan) PROVE PanelInv'
  BY <1>0, <1>5 DEF Change, Edit, PanelInv
<1>6. ASSUME NEW box \in Boxes(panel), ClearValue(box) PROVE PanelInv'
  <2>1. WithText(panel, box, <<>>) \in Panels /\ Boxes(WithText(panel, box, <<>>)) = Boxes(panel)
    <3>1. <<>> \in Seq(Tokens)
      OBVIOUS
    <3> QED
      BY <1>0, <3>1, FilledIn
  <2> QED
    BY <1>4, <1>6, <2>1 DEF ClearValue
<1>7. ASSUME NEW text \in Typed, Type(text) PROVE PanelInv'
  <2>1. text \in Seq(Tokens)
    <3>1. text \in Seq(ToSet(text))
      BY PanelAssumption DEF IsSequence
    <3>2. ToSet(text) \subseteq Tokens
      BY DEF Tokens
    <3> HIDE DEF Tokens
    <3> QED
      BY <3>1, <3>2
  <2>2. focus \in Boxes(panel)
    BY <1>0, <1>7 DEF Type
  <2>3. WithText(panel, focus, text) \in Panels /\ Boxes(WithText(panel, focus, text)) = Boxes(panel)
    BY <1>0, <2>1, <2>2, FilledIn
  <2> QED
    BY <1>4, <1>7, <2>3 DEF Type
<1>8. ASSUME NEW id \in BoxOptions(focus), Pick(id) PROVE PanelInv'
  <2>1. id \in Nat
    BY <1>0, OptionsAreNumbers
  <2>2. focus \in Boxes(panel)
    BY <1>0, <1>8 DEF Pick
  <2>3. Selected(panel, focus, id) \in Panels /\ Boxes(Selected(panel, focus, id)) = Boxes(panel)
    BY <1>0, <2>1, <2>2, PickedText
  <2> QED
    BY <1>4, <1>8, <2>3 DEF Pick
<1>9. CASE AddEffectSlot
  BY <1>0, <1>5, <1>9, ControlsKeepPanel DEF AddEffectSlot
<1>10. ASSUME NEW i \in DOMAIN panel.effects, RemoveEffectSlot(i) PROVE PanelInv'
  BY <1>0, <1>5, <1>10, ControlsKeepPanel DEF RemoveEffectSlot
<1>11. ASSUME NEW i \in DOMAIN panel.effects, NEW count \in 1 .. 3, SetMatchCount(i, count) PROVE PanelInv'
  BY <1>0, <1>5, <1>11, ControlsKeepPanel DEF SetMatchCount
<1>12. ASSUME NEW mode \in {"and", "or"}, SetEffectMode(mode) PROVE PanelInv'
  BY <1>0, <1>5, <1>12, ControlsKeepPanel DEF SetEffectMode
<1>13. ASSUME NEW s \in Costs, NEW text \in CostTexts, SetCost(s, text) PROVE PanelInv'
  BY <1>0, <1>5, <1>13, ControlsKeepPanel DEF SetCost
<1>14. ASSUME NEW field \in DOMAIN Words, NEW text \in Words[field], SetWord(field, text) PROVE PanelInv'
  BY <1>0, <1>5, <1>14, ControlsKeepPanel DEF SetWord
<1>15. ASSUME NEW text \in Limits, SetLimit(text) PROVE PanelInv'
  BY <1>0, <1>5, <1>15, ControlsKeepPanel DEF SetLimit
<1>16. ASSUME NEW f \in Codes, ToggleFaction(f) PROVE PanelInv'
  BY <1>0, <1>5, <1>16, ControlsKeepPanel DEF ToggleFaction
<1>17. ASSUME NEW s \in Sets, ToggleSet(s) PROVE PanelInv'
  BY <1>0, <1>5, <1>17, ControlsKeepPanel DEF ToggleSet
<1>18. CASE ToggleFamilies
  BY <1>0, <1>5, <1>18, ControlsKeepPanel DEF ToggleFamilies
<1>19. CASE ClearFilters
  BY <1>5, <1>19, DefaultInPanels DEF ClearFilters
<1>20. CASE LoadCatalog
  <2>1. panel' = panel /\ focus' = focus /\ edition' = edition /\ catalog'.from \in {<<edition>>, <<>>}
    BY <1>20 DEF LoadCatalog
  <2>2. <<edition>> \in Seq(DOMAIN Crawled) /\ <<>> \in Seq(DOMAIN Crawled)
    BY <1>0
  <2> QED
    BY <1>0, <2>1, <2>2 DEF PanelInv
<1>21. CASE Reload
  <2>1. edition < Len(Snapshots) /\ edition' = edition + 1 /\ UNCHANGED <<panel, focus, catalog>>
    BY <1>21 DEF Reload
  <2>2. Len(Snapshots) = Len(Crawled)
    BY EditionsAre DEF Snapshots
  <2>3. edition + 1 \in DOMAIN Crawled
    BY <1>0, <2>1, <2>2, EditionsAre
  <2> QED
    BY <1>0, <2>1, <2>3 DEF PanelInv
<1> QED
  BY <1>1, <1>2, <1>3, <1>6, <1>7, <1>8, <1>9, <1>10, <1>11, <1>12, <1>13, <1>14, <1>15, <1>16, <1>17,
     <1>18, <1>19, <1>20, <1>21 DEF PanelNext

\* The panel is a panel, the box with the focus is one of it, and its catalog and the index served
\* are whole datasets, whatever the user does and whenever the index is replaced.
THEOREM PanelInvHolds == PanelSpec => []PanelInv
BY PanelInitInv, PanelNextInv, PTL DEF PanelSpec

(***************************************************************************)
(* The query a panel becomes                                               *)
(***************************************************************************)
\* The active slots keep their order and are numbered without the empty ones.
LEMMA SlotsRenumbered ==
    ASSUME NEW effects \in Seq(PanelSlots)
    PROVE  LET slots == ActiveSlots(effects)
               at(i) == CompactedSlotIndex(effects, i)
           IN  /\ Cardinality(slots) \in Nat /\ IsFiniteSet(slots)
               /\ DOMAIN Active(effects) = 1 .. Cardinality(slots) /\ Len(Active(effects)) = Cardinality(slots)
               /\ \A i \in slots : at(i) \in 0 .. Cardinality(slots) - 1 /\ Active(effects)[at(i) + 1] = effects[i]
               /\ \A m \in 0 .. Cardinality(slots) - 1 : \E i \in slots : at(i) = m
               /\ \A i, j \in slots : at(i) = at(j) => i = j
<1> DEFINE slots == ActiveSlots(effects)
           on == Sorted(slots)
<1>1. slots \in SUBSET Nat /\ IsFiniteSet(slots)
  <2>1. DOMAIN effects = 1 .. Len(effects) /\ Len(effects) \in Nat
    OBVIOUS
  <2>2. slots \in SUBSET (1 .. Len(effects))
    BY <2>1 DEF ActiveSlots
  <2>3. IsFiniteSet(1 .. Len(effects))
    <3>1. 1 \in Int /\ Len(effects) \in Int
      BY <2>1
    <3> QED
      BY <3>1, FS_Interval
  <2>4. IsFiniteSet(slots)
    BY <2>2, <2>3, FS_Subset
  <2> QED
    BY <2>1, <2>2, <2>4
<1>2. \A i : CompactedSlotIndex(effects, i) = Rank(slots, i)
  BY DEF CompactedSlotIndex, Rank
<1>3. Active(effects) = [n \in DOMAIN on |-> effects[on[n]]]
  BY DEF Active
<1> HIDE DEF slots
<1>4. Cardinality(slots) \in Nat
  BY <1>1, FS_CardinalityType
<1>5. /\ on \in Seq(slots) /\ Len(on) = Cardinality(slots)
      /\ \A n \in 1 .. Cardinality(slots) : on[n] \in slots /\ Rank(slots, on[n]) = n - 1
      /\ \A x \in slots : on[Rank(slots, x) + 1] = x
  BY <1>1, SortedRanks
<1> HIDE DEF on
<1>6. DOMAIN on = 1 .. Cardinality(slots)
  BY <1>5
<1>7. DOMAIN Active(effects) = 1 .. Cardinality(slots) /\ Len(Active(effects)) = Cardinality(slots)
  BY <1>3, <1>4, <1>6
<1>8. \A i \in slots : Rank(slots, i) \in 0 .. Cardinality(slots) - 1
  BY <1>1, RankGrows
<1>9. ASSUME NEW i \in slots PROVE Active(effects)[Rank(slots, i) + 1] = effects[i]
  <2>1. PICK n \in 1 .. Cardinality(slots) : n = Rank(slots, i) + 1
    BY <1>4, <1>8
  <2> QED
    BY <1>3, <1>5, <1>6, <2>1
<1>10. ASSUME NEW m \in 0 .. Cardinality(slots) - 1 PROVE \E i \in slots : Rank(slots, i) = m
  <2>1. PICK n \in 1 .. Cardinality(slots) : n = m + 1 /\ n - 1 = m
    BY <1>4
  <2> QED
    BY <1>5, <2>1
<1>11. \A i, j \in slots : Rank(slots, i) = Rank(slots, j) => i = j
  BY <1>1, RankTells
<1> QED
  BY <1>1, <1>2, <1>4, <1>7, <1>8, <1>9, <1>10, <1>11 DEF slots

\* The abilities of a query are the active slots.
LEMMA QueryEffects ==
    ASSUME NEW pan \in Panels
    PROVE  LET slots == ActiveSlots(pan.effects)
               at(i) == CompactedSlotIndex(pan.effects, i)
               q == Query(pan)
           IN  /\ \A i \in slots : at(i) \in DOMAIN q.effects /\ q.effects[at(i)] = Sent(pan.effects[i])
               /\ \A m \in DOMAIN q.effects : \E i \in slots : at(i) = m
               /\ \A i, j \in slots : at(i) = at(j) => i = j
               /\ q.mode = IF Cardinality(slots) >= 2 THEN pan.mode ELSE "and"
<1> DEFINE slots == ActiveSlots(pan.effects)
           at(i) == CompactedSlotIndex(pan.effects, i)
           on == Active(pan.effects)
           q == Query(pan)
<1>1. pan.effects \in Seq(PanelSlots)
  BY DEF Panels
<1>2. /\ Cardinality(slots) \in Nat /\ Len(on) = Cardinality(slots)
      /\ \A i \in slots : at(i) \in 0 .. Cardinality(slots) - 1 /\ on[at(i) + 1] = pan.effects[i]
      /\ \A m \in 0 .. Cardinality(slots) - 1 : \E i \in slots : at(i) = m
      /\ \A i, j \in slots : at(i) = at(j) => i = j
  BY <1>1, SlotsRenumbered
<1>3. /\ q.effects = [n \in 0 .. Len(on) - 1 |-> Sent(on[n + 1])]
      /\ q.mode = IF Len(on) >= 2 THEN pan.mode ELSE "and"
  BY DEF Query
<1> HIDE DEF slots, at, on, q
<1>4. DOMAIN q.effects = 0 .. Cardinality(slots) - 1
  BY <1>2, <1>3
<1>5. \A i \in slots : q.effects[at(i)] = Sent(pan.effects[i])
  BY <1>2, <1>3
<1> QED
  BY <1>2, <1>3, <1>4, <1>5 DEF slots, at, q

LEMMA QueryFields ==
    ASSUME NEW pan
    PROVE  LET q == Query(pan)
           IN  /\ q = [field \in RequestFields |-> q[field]]
               /\ q.support = IdsOfTexts(pan.support) /\ q.factions = pan.factions /\ q.sets = pan.sets
               /\ q.costs = CostParams(pan.costs) /\ q.name = pan.words.name /\ q.format = pan.words.format
               /\ q.collection = pan.words.collection /\ q.limit = LimitOf(pan.limit) /\ q.cursor = <<>>
BY DEF Query, RequestFields

LEMMA MaxOfTwo ==
    ASSUME NEW a \in Nat, NEW b \in Nat
    PROVE  Max({a, b}) \in Nat /\ a <= Max({a, b})
<1>1. \E x \in {a, b} : \A y \in {a, b} : x >= y
  <2>1. CASE a <= b
    BY <2>1
  <2>2. CASE ~(a <= b)
    BY <2>2
  <2> QED
    BY <2>1, <2>2
<1>2. Max({a, b}) \in {a, b} /\ \A y \in {a, b} : Max({a, b}) >= y
  BY <1>1, Zenon DEF Max
<1> QED
  BY <1>2

\* The limit that is sent is one the server takes.
LEMMA LimitTaken ==
    ASSUME NEW pan \in Panels
    PROVE  LimitOf(pan.limit) \in 1 .. MaxLimit
<1>1. pan.limit \in Seq(Nat)
  BY DEF Panels
<1>2. MaxLimit \in Nat /\ 200 <= MaxLimit
  BY CostAssumption, PanelAssumption
<1>3. CASE pan.limit = <<>>
  BY <1>2, <1>3 DEF LimitOf
<1>4. CASE pan.limit # <<>>
  <2>1. pan.limit[1] \in Nat
    BY <1>1, <1>4
  <2>2. PICK m \in Nat : m = Max({1, pan.limit[1]}) /\ 1 <= m
    BY <2>1, MaxOfTwo, 1 \in Nat
  <2>3. Min({200, m}) \in 1 .. 200
    <3>1. Min({200, m}) = IF 200 <= m THEN 200 ELSE m
      BY MinOfTwo, 200 \in Nat
    <3> QED
      BY <2>2, <3>1
  <2>4. LimitOf(pan.limit) = Min({200, m})
    BY <1>4, <2>2 DEF LimitOf
  <2> QED
    BY <1>2, <2>3, <2>4
<1> QED
  BY <1>3, <1>4

\* A cost that can be read is sent as one list of values, none past the last bucket.
LEMMA CostSent ==
    ASSUME NEW pan \in Panels, NEW s \in DOMAIN CostParams(pan.costs)
    PROVE  LET cost == CostParams(pan.costs)[s]
           IN  /\ s \in Costs /\ pan.costs[s] # <<>>
               /\ CostValues(pan.costs[s]) \subseteq 0 .. MaxCost
               /\ \E op \in {"exact", "array"} :
                    DOMAIN cost = {op} /\ cost[op] = CostValues(pan.costs[s]) /\ Read(cost) = {op}
               /\ ~BadCost(cost)
<1> DEFINE text == pan.costs[s]
           values == CostValues(text)
           cost == CostParams(pan.costs)[s]
<1>1. s \in Costs /\ text # <<>> /\ CostParses(text)
  BY DEF CostParams
<1>2. text \in Seq(Nat \X Nat)
  BY <1>1 DEF Panels
<1>3. values \subseteq 0 .. MaxCost
  <2>1. ASSUME NEW n \in DOMAIN text PROVE ExpandToken(text[n]) \subseteq 0 .. MaxCost
    <3>1. text[n] \in Nat \X Nat /\ text[n][2] <= MaxCost
      BY <1>1, <1>2 DEF CostParses
    <3>2. text[n][1] \in Nat /\ text[n][2] \in Nat
      BY <3>1
    <3> QED
      BY <3>1, <3>2, CostAssumption DEF ExpandToken
  <2> QED
    BY <2>1 DEF CostValues
<1>4. PICK op \in {"exact", "array"} : cost = [k \in {op} |-> values]
  BY DEF CostParams
<1> HIDE DEF cost, values
<1>5. DOMAIN cost = {op} /\ cost[op] = values
  BY <1>4
<1>6. DOMAIN cost \cap ToSet(Bounds) = {}
  BY <1>5, BoundsAre
<1>7. Read(cost) = {op}
  BY <1>5, <1>6 DEF Read
<1>8. ~Mixed(cost)
  <2>1. (DOMAIN cost \ ToSet(Bounds)) \cup {} = {op}
    BY <1>5, <1>6
  <2>2. Cardinality({op}) = 1
    BY FS_Singleton
  <2> QED
    BY <1>6, <2>1, <2>2 DEF Mixed
<1>9. ~BadCost(cost)
  <2>1. \A v \in values : ~(v > MaxCost)
    BY <1>3, CostAssumption
  <2>2. \A k \in Read(cost) : cost[k] = values
    BY <1>5, <1>7
  <2> QED
    BY <1>8, <2>1, <2>2, Zenon DEF BadCost
<1> QED
  BY <1>1, <1>3, <1>5, <1>7, <1>9 DEF cost, values

\* A query whose ids an index knows is a request.
LEMMA QueryIsRequest ==
    ASSUME NEW d, IsDataset(d), NEW app, IsSnapshot(app, d), NEW pan \in Panels,
           \A i \in ActiveSlots(pan.effects) : ~BadIds(app.index, IdsOfTexts(pan.effects[i].texts)),
           ~BadIds(app.index, IdsOfTexts(pan.support))
    PROVE  IsRequest(Query(pan))
<1> DEFINE q == Query(pan)
<1>1. /\ q = [field \in RequestFields |-> q[field]]
      /\ q.support = IdsOfTexts(pan.support) /\ q.factions = pan.factions /\ q.sets = pan.sets
      /\ q.costs = CostParams(pan.costs) /\ q.name = pan.words.name /\ q.format = pan.words.format
      /\ q.collection = pan.words.collection /\ q.limit = LimitOf(pan.limit) /\ q.cursor = <<>>
  BY QueryFields
<1>2. ASSUME NEW texts, ~BadIds(app.index, IdsOfTexts(texts)) PROVE IdsOfTexts(texts) \in [Kinds -> SUBSET Nat]
  <2>1. DOMAIN app.index.types \subseteq Nat
    BY IdsAreNumbers
  <2>2. \A k \in Kinds : IdsOfTexts(texts)[k] \subseteq DOMAIN app.index.types
    BY <1>2 DEF BadIds
  <2> QED
    BY <2>1, <2>2 DEF IdsOfTexts
<1>3. ASSUME NEW m \in DOMAIN q.effects PROVE q.effects[m] \in [ids : [Kinds -> SUBSET Nat], count : Nat]
  <2>1. PICK i \in ActiveSlots(pan.effects) : q.effects[m] = Sent(pan.effects[i])
    BY QueryEffects
  <2>2. pan.effects[i] \in PanelSlots
    BY DEF ActiveSlots, Panels
  <2>3. IdsOfTexts(pan.effects[i].texts) \in [Kinds -> SUBSET Nat]
    BY <1>2
  <2> QED
    BY <2>1, <2>2, <2>3 DEF Sent, PanelSlots
<1>4. q.limit \in Nat
  BY <1>1, LimitTaken, CostAssumption
<1>5. \A field \in {"name", "format", "collection"} : q[field] \in Seq(STRING) /\ Len(q[field]) <= 1
  <2>1. \A field \in {"name", "format", "collection"} : pan.words[field] \in {text \in Seq(STRING) : Len(text) <= 1}
    BY PanelAssumption DEF Panels
  <2> QED
    BY <1>1, <2>1
<1>6. ASSUME NEW s \in DOMAIN q.costs
      PROVE  /\ s \in Stats
             /\ DOMAIN q.costs[s] # {} /\ DOMAIN q.costs[s] \subseteq ToSet(Bounds) \cup {"exact", "array"}
             /\ \A k \in DOMAIN q.costs[s] : q.costs[s][k] \in SUBSET Nat
  <2> DEFINE cost == CostParams(pan.costs)[s]
  <2>1. /\ s \in Costs /\ CostValues(pan.costs[s]) \subseteq 0 .. MaxCost
        /\ \E op \in {"exact", "array"} : DOMAIN cost = {op} /\ cost[op] = CostValues(pan.costs[s])
    BY <1>1, CostSent
  <2> HIDE DEF cost
  <2>2. PICK op \in {"exact", "array"} : DOMAIN cost = {op} /\ cost[op] = CostValues(pan.costs[s])
    BY <2>1
  <2>3. s \in Stats
    BY <2>1 DEF Costs, Stats
  <2>4. CostValues(pan.costs[s]) \in SUBSET Nat
    BY <2>1, CostAssumption
  <2>5. q.costs[s] = cost
    BY <1>1 DEF cost
  <2> QED
    BY <2>2, <2>3, <2>4, <2>5
<1>7. q.support \in [Kinds -> SUBSET Nat]
  BY <1>1, <1>2
<1> HIDE DEF q
<1>8. IsRequest(q)
  BY <1>1, <1>3, <1>4, <1>5, <1>6, <1>7 DEF IsRequest
<1> QED
  BY <1>8 DEF q

\* The server takes a query exactly if it knows the ids, the sets and the words.
LEMMA QueryTaken ==
    ASSUME NEW app, NEW pan \in Panels
    PROVE  Status(app, Query(pan)) = 200 <=>
                /\ \A i \in ActiveSlots(pan.effects) : ~BadIds(app.index, IdsOfTexts(pan.effects[i].texts))
                /\ ~BadIds(app.index, IdsOfTexts(pan.support))
                /\ pan.sets \subseteq SetCodes(app.families)
                /\ pan.words.format # <<>> =>
                        pan.words.format[1] \in DOMAIN app.formats /\ app.formats[pan.words.format[1]].ready
                /\ pan.words.collection # <<>> => pan.words.collection[1] \in DOMAIN app.collections
<1> DEFINE q == Query(pan)
<1>1. /\ q.support = IdsOfTexts(pan.support) /\ q.factions = pan.factions /\ q.sets = pan.sets
      /\ q.costs = CostParams(pan.costs) /\ q.name = pan.words.name /\ q.format = pan.words.format
      /\ q.collection = pan.words.collection /\ q.limit = LimitOf(pan.limit) /\ q.cursor = <<>>
  BY QueryFields
<1>2. q.limit \in 1 .. MaxLimit
  BY <1>1, LimitTaken
<1>3. (\E m \in DOMAIN q.effects : BadCount(q.effects[m]) \/ BadIds(app.index, q.effects[m].ids))
            <=> \E i \in ActiveSlots(pan.effects) : BadIds(app.index, IdsOfTexts(pan.effects[i].texts))
  <2>1. ASSUME NEW i \in ActiveSlots(pan.effects)
        PROVE  Sent(pan.effects[i]).ids = IdsOfTexts(pan.effects[i].texts) /\ ~BadCount(Sent(pan.effects[i]))
    <3>1. pan.effects[i] \in PanelSlots
      BY DEF ActiveSlots, Panels
    <3>2. pan.effects[i].count \in 1 .. 3
      BY <3>1 DEF PanelSlots
    <3> QED
      BY <3>2 DEF Sent, BadCount
  <2>2. ASSUME NEW m \in DOMAIN q.effects
        PROVE  \E i \in ActiveSlots(pan.effects) : q.effects[m] = Sent(pan.effects[i])
    BY QueryEffects
  <2>3. ASSUME NEW i \in ActiveSlots(pan.effects)
        PROVE  \E m \in DOMAIN q.effects : q.effects[m] = Sent(pan.effects[i])
    BY QueryEffects
  <2> HIDE DEF q
  <2> QED
    BY <2>1, <2>2, <2>3
<1>4. ~BadMode(q)
  <2>1. pan.mode \in {"and", "or"}
    BY DEF Panels
  <2>2. q.mode \in {pan.mode, "and"}
    BY QueryEffects
  <2> QED
    BY <2>1, <2>2 DEF BadMode
<1>5. ~BadFactions(q)
  BY <1>1, PanelAssumption DEF BadFactions, Panels
<1>6. \A s \in DOMAIN q.costs : ~BadCost(q.costs[s])
  BY <1>1, CostSent
<1>7. BadSets(app, q) <=> ~(pan.sets \subseteq SetCodes(app.families))
  BY <1>1 DEF BadSets
<1> HIDE DEF q
<1>8. BadRequest(app, q) <=>
            \/ \E i \in ActiveSlots(pan.effects) : BadIds(app.index, IdsOfTexts(pan.effects[i].texts))
            \/ BadIds(app.index, IdsOfTexts(pan.support))
            \/ ~(pan.sets \subseteq SetCodes(app.families))
            \/ pan.words.format # <<>> /\ pan.words.format[1] \notin DOMAIN app.formats
  BY <1>1, <1>2, <1>3, <1>4, <1>5, <1>6, <1>7 DEF BadRequest
<1>9. Status(app, q) = 200 <=>
            /\ ~BadRequest(app, q)
            /\ ~(q.format # <<>> /\ ~app.formats[q.format[1]].ready)
            /\ ~(q.collection # <<>> /\ q.collection[1] \notin DOMAIN app.collections)
  BY DEF Status
<1> QED
  BY <1>1, <1>8, <1>9 DEF q

LEMMA EmptyAsksNothing == IdsOfTexts(EmptyTexts) = NoFilter
BY DEF IdsOfTexts, EmptyTexts, NoFilter, ToSet

LEMMA PanelAbilities ==
    ASSUME NEW pan \in Panels, NEW card
    PROVE  HasAbilities(card, Query(pan)) <=>
                IF pan.mode = "or" /\ Asked(pan) # {} THEN \E i \in Asked(pan) : SlotAsks(card, pan.effects[i])
                ELSE \A i \in Asked(pan) : SlotAsks(card, pan.effects[i])
<1> DEFINE q == Query(pan)
           asked == Asked(pan)
           slots == ActiveSlots(pan.effects)
           at(i) == CompactedSlotIndex(pan.effects, i)
<1>1. /\ \A i \in slots : at(i) \in DOMAIN q.effects /\ q.effects[at(i)] = Sent(pan.effects[i])
      /\ \A m \in DOMAIN q.effects : \E i \in slots : at(i) = m
      /\ q.mode = IF Cardinality(slots) >= 2 THEN pan.mode ELSE "and"
  BY QueryEffects
<1>2. /\ Cardinality(slots) \in Nat
      /\ \A i \in slots : at(i) \in 0 .. Cardinality(slots) - 1
      /\ \A i, j \in slots : at(i) = at(j) => i = j
  <2>1. pan.effects \in Seq(PanelSlots)
    BY DEF Panels
  <2> QED
    BY <2>1, SlotsRenumbered
<1>3. asked \subseteq slots /\ \A i \in slots : i \in asked <=> Sent(pan.effects[i]).ids # NoFilter
  BY EmptyAsksNothing DEF Asked, ActiveSlots, SlotHasValues, Sent
<1>4. pan.mode \in {"and", "or"}
  BY DEF Panels
<1> HIDE DEF q, asked, slots, at
<1>5. /\ \A i \in asked : at(i) \in Slots(q) /\ q.effects[at(i)] = Sent(pan.effects[i])
      /\ \A m \in Slots(q) : \E i \in asked : at(i) = m
  BY <1>1, <1>3 DEF Slots
<1>6. (\E m \in Slots(q) : HasSlot(card, q.effects[m])) <=> \E i \in asked : SlotAsks(card, pan.effects[i])
  BY <1>5 DEF SlotAsks
<1>7. (\A m \in Slots(q) : HasSlot(card, q.effects[m])) <=> \A i \in asked : SlotAsks(card, pan.effects[i])
  BY <1>5 DEF SlotAsks
<1>8. Slots(q) # {} <=> asked # {}
  BY <1>5
<1>9. CASE Cardinality(slots) >= 2
  <2>1. q.mode = pan.mode
    BY <1>1, <1>9
  <2> QED
    BY <2>1, <1>6, <1>7, <1>8 DEF HasAbilities, q, asked
<1>10. CASE ~(Cardinality(slots) >= 2)
  <2>1. q.mode = "and"
    BY <1>1, <1>10
  <2>2. \A i \in slots : at(i) = 0
    BY <1>2, <1>10
  <2>3. \A i, j \in asked : i = j
    BY <1>2, <1>3, <2>2
  <2>4. asked # {} => ((\E i \in asked : SlotAsks(card, pan.effects[i])) <=> \A i \in asked : SlotAsks(card, pan.effects[i]))
    BY <2>3
  <2>5. HasAbilities(card, q) <=> \A i \in asked : SlotAsks(card, pan.effects[i])
    BY <2>1, <1>7 DEF HasAbilities
  <2> QED
    BY <2>4, <2>5 DEF q, asked
<1> QED
  BY <1>9, <1>10

\* The costs that are sent ask for what the ranges of the panel say.
LEMMA PanelCosts ==
    ASSUME NEW pan \in Panels, Sendable(pan), NEW card, card.elements \in Seq(Elements)
    PROVE  (\A s \in DOMAIN Query(pan).costs : HasCost(card, s, Query(pan).costs[s])) <=>
                \A s \in Costs : pan.costs[s] # <<>> =>
                    \E n \in DOMAIN pan.costs[s] :
                        ValueOf(card, s) >= pan.costs[s][n][1] /\ ValueOf(card, s) <= pan.costs[s][n][2]
<1> DEFINE costs == CostParams(pan.costs)
           InRange(s) == \E n \in DOMAIN pan.costs[s] :
                            ValueOf(card, s) >= pan.costs[s][n][1] /\ ValueOf(card, s) <= pan.costs[s][n][2]
<1>1. Query(pan).costs = costs
  BY QueryFields
<1>2. \A s : s \in DOMAIN costs <=> s \in Costs /\ pan.costs[s] # <<>>
  BY DEF Sendable, CostParams
<1>3. ASSUME NEW s \in DOMAIN costs PROVE HasCost(card, s, costs[s]) <=> InRange(s)
  <2> DEFINE v == ValueOf(card, s)
             text == pan.costs[s]
             cost == costs[s]
  <2>1. /\ s \in Costs /\ CostValues(text) \subseteq 0 .. MaxCost
        /\ \E op \in {"exact", "array"} :
                DOMAIN cost = {op} /\ cost[op] = CostValues(text) /\ Read(cost) = {op}
    BY CostSent
  <2>2. text \in Seq(Nat \X Nat)
    BY <2>1 DEF Panels
  <2>3. v \in Nat
    BY ValueIsNumber
  <2> HIDE DEF v, text, cost
  <2>4. PICK op \in {"exact", "array"} : cost[op] = CostValues(text) /\ Read(cost) = {op}
    BY <2>1
  <2>5. \A c : Compare(op, v, c) <=> v = c
    BY <2>4 DEF Compare
  <2>6. HasCost(card, s, cost) <=> v <= MaxCost /\ v \in CostValues(text)
    BY <2>4, <2>5 DEF HasCost, v
  <2>7. v \in CostValues(text) => v <= MaxCost
    BY <2>1, <2>3, CostAssumption
  <2>8. \A n \in DOMAIN text : text[n][1] \in Nat /\ text[n][2] \in Nat
    <3>1. \A n \in DOMAIN text : text[n] \in Nat \X Nat
      BY <2>2
    <3> QED
      BY <3>1
  <2>9. \A n \in DOMAIN text : v \in ExpandToken(text[n]) <=> v >= text[n][1] /\ v <= text[n][2]
    BY <2>3, <2>8 DEF ExpandToken
  <2>10. v \in CostValues(text) <=> \E n \in DOMAIN text : v \in ExpandToken(text[n])
    BY DEF CostValues
  <2> QED
    BY <2>6, <2>7, <2>9, <2>10 DEF v, text, cost
<1> HIDE DEF costs, InRange
<1>4. (\A s \in DOMAIN costs : HasCost(card, s, costs[s])) <=> \A s \in Costs : pan.costs[s] # <<>> => InRange(s)
  BY <1>2, <1>3
<1> QED
  BY <1>1, <1>4 DEF InRange

\* A query says of a card what the panel says.
LEMMA PanelMatches ==
    ASSUME NEW pan \in Panels, Sendable(pan), pan.words.format = <<>>, pan.words.collection = <<>>,
           NEW card, card.elements \in Seq(Elements)
    PROVE  Matches(App, card, Query(pan)) <=> PanelSelects(pan, card)
<1> DEFINE q == Query(pan)
<1>1. /\ q.support = IdsOfTexts(pan.support) /\ q.factions = pan.factions /\ q.sets = pan.sets
      /\ q.name = pan.words.name /\ q.format = <<>> /\ q.collection = <<>>
  BY QueryFields
<1>2. ToSet(q.format) = {} /\ ToSet(q.collection) = {}
  BY <1>1 DEF ToSet
<1>3. HasAbilities(card, q) <=>
                IF pan.mode = "or" /\ Asked(pan) # {} THEN \E i \in Asked(pan) : SlotAsks(card, pan.effects[i])
                ELSE \A i \in Asked(pan) : SlotAsks(card, pan.effects[i])
  BY PanelAbilities
<1>4. (\A s \in DOMAIN q.costs : HasCost(card, s, q.costs[s])) <=>
                \A s \in Costs : pan.costs[s] # <<>> =>
                    \E n \in DOMAIN pan.costs[s] :
                        ValueOf(card, s) >= pan.costs[s][n][1] /\ ValueOf(card, s) <= pan.costs[s][n][2]
  BY PanelCosts
<1> HIDE DEF q
<1>5. Matches(App, card, q) <=>
            /\ HasAbilities(card, q)
            /\ HasAbility(card, "Ec", IdsOfTexts(pan.support))
            /\ pan.factions # {} => card.faction \in pan.factions
            /\ pan.sets # {} => EntryOf(App, card).set \in pan.sets
            /\ \A s \in DOMAIN q.costs : HasCost(card, s, q.costs[s])
            /\ \A needle \in ToSet(pan.words.name) : needle \in EntryOf(App, card).names
  BY <1>1, <1>2 DEF Matches, HasAbilities
<1> QED
  BY <1>3, <1>4, <1>5 DEF PanelSelects, q

LEMMA KnownIds ==
    ASSUME NEW pan \in Panels, Known(pan)
    PROVE  /\ \A i \in ActiveSlots(pan.effects) : ~BadIds(App.index, IdsOfTexts(pan.effects[i].texts))
           /\ ~BadIds(App.index, IdsOfTexts(pan.support))
<1>1. ASSUME NEW box \in Boxes(pan), NEW id \in ToSet(TextOf(pan, box)) \ {Blank}
      PROVE  id \in DOMAIN App.index.types /\ App.index.types[id] = box.kind
  BY DEF Known
<1>2. ASSUME NEW i \in ActiveSlots(pan.effects) PROVE ~BadIds(App.index, IdsOfTexts(pan.effects[i].texts))
  <2>1. ASSUME NEW k \in Kinds, NEW id \in IdsOfTexts(pan.effects[i].texts)[k]
        PROVE  id \in DOMAIN App.index.types /\ App.index.types[id] = k
    <3> DEFINE box == [region |-> <<i>>, kind |-> k]
    <3>1. i \in DOMAIN pan.effects
      BY DEF ActiveSlots
    <3>2. box \in Boxes(pan)
      BY <3>1 DEF Boxes
    <3>3. TextOf(pan, box) = pan.effects[i].texts[k]
      BY DEF TextOf
    <3>4. id \in ToSet(TextOf(pan, box)) \ {Blank}
      BY <3>3 DEF IdsOfTexts
    <3>5. box.kind = k
      OBVIOUS
    <3> HIDE DEF box
    <3> QED
      BY <1>1, <3>2, <3>4, <3>5
  <2> QED
    BY <2>1 DEF BadIds
<1>3. ~BadIds(App.index, IdsOfTexts(pan.support))
  <2>1. ASSUME NEW k \in Kinds, NEW id \in IdsOfTexts(pan.support)[k]
        PROVE  id \in DOMAIN App.index.types /\ App.index.types[id] = k
    <3> DEFINE box == [region |-> <<>>, kind |-> k]
    <3>1. box \in Boxes(pan)
      BY DEF Boxes
    <3>2. TextOf(pan, box) = pan.support[k]
      BY DEF TextOf
    <3>3. id \in ToSet(TextOf(pan, box)) \ {Blank}
      BY <3>2 DEF IdsOfTexts
    <3>4. box.kind = k
      OBVIOUS
    <3> HIDE DEF box
    <3> QED
      BY <1>1, <3>1, <3>3, <3>4
  <2> QED
    BY <2>1 DEF BadIds
<1> QED
  BY <1>2, <1>3

\* A panel whose costs can be read, which names only ids and sets of the index served and neither
\* format nor collection, is answered with the cards it describes: for every index, panel and
\* history of edits, whatever slots are empty in between.
THEOREM AnswerIsPanelHolds == PanelSpec => []AnswerIsPanel
<1>1. PanelInv => AnswerIsPanel
  <2> SUFFICES ASSUME PanelInv, Sendable(panel), Known(panel), panel.words.format = <<>>, panel.words.collection = <<>>
               PROVE  /\ Status(App, Query(panel)) = 200
                      /\ Answer(App, Query(panel)) \cap CardBits(App)
                            = {card.bit : card \in {c \in ToSet(App.cards) : PanelSelects(panel, c)}}
    BY DEF AnswerIsPanel
  <2> DEFINE d == Crawled[edition]
             q == Query(panel)
  <2>1. panel \in Panels /\ IsDataset(d) /\ IsSnapshot(App, d)
    BY PanelSnapshot DEF PanelInv, App
  <2>2. /\ \A i \in ActiveSlots(panel.effects) : ~BadIds(App.index, IdsOfTexts(panel.effects[i].texts))
        /\ ~BadIds(App.index, IdsOfTexts(panel.support))
    BY <2>1, KnownIds
  <2>3. Status(App, q) = 200
    BY <2>1, <2>2, QueryTaken DEF Known
  <2> HIDE DEF d
  <2>4. IsRequest(q)
    BY <2>1, <2>2, QueryIsRequest
  <2>5. \A c \in ToSet(App.cards) : Matches(App, c, q) <=> PanelSelects(panel, c)
    <3> SUFFICES ASSUME NEW c \in ToSet(App.cards) PROVE Matches(App, c, q) <=> PanelSelects(panel, c)
      OBVIOUS
    <3>1. PICK n \in DOMAIN d.cards : c = d.cards[n]
      BY <2>1, SnapshotFields DEF ToSet
    <3>2. c.elements \in Seq(Elements)
      BY <2>1, <3>1, CardElements
    <3> QED
      BY <2>1, <3>2, PanelMatches
  <2> HIDE DEF q
  <2>6. Answer(App, q) \cap CardBits(App) = MatchingBits(App, q)
    BY <2>1, <2>3, <2>4, AnswerReads
  <2>7. MatchingBits(App, q) = {card.bit : card \in {c \in ToSet(App.cards) : PanelSelects(panel, c)}}
    BY <2>5 DEF MatchingBits
  <2> QED
    BY <2>3, <2>6, <2>7 DEF q
<1> QED
  BY <1>1, PanelInvHolds, PTL

(***************************************************************************)
(* Picking a suggestion                                                    *)
(***************************************************************************)
\* The texts beside a box, its own with them
BoxTexts(pan, box) == IF box.region = <<>> THEN pan.support ELSE pan.effects[box.region[1]].texts

LEMMA BoxIs ==
    ASSUME NEW pan \in Panels, NEW box \in Boxes(pan)
    PROVE  /\ box.kind \in Kinds /\ BoxTexts(pan, box) \in Texts
           /\ TextOf(pan, box) = BoxTexts(pan, box)[box.kind]
           /\ box.region # <<>> => /\ box.region[1] \in DOMAIN pan.effects
                                   /\ pan.effects[box.region[1]] \in PanelSlots
<1>1. box.kind \in Kinds /\ (box.region # <<>> => box.region[1] \in DOMAIN pan.effects)
  BY DEF Boxes
<1>2. box.region # <<>> => pan.effects[box.region[1]] \in PanelSlots
  BY <1>1 DEF Panels
<1>3. BoxTexts(pan, box) \in Texts
  BY <1>2 DEF BoxTexts, Panels, PanelSlots
<1> QED
  BY <1>1, <1>2, <1>3 DEF BoxTexts, TextOf

\* What a text in a box changes of a panel, and what not
LEMMA FilledBox ==
    ASSUME NEW pan \in Panels, NEW box \in Boxes(pan), NEW text \in Seq(Tokens)
    PROVE  LET new == WithText(pan, box, text)
               i == box.region[1]
           IN  /\ BoxTexts(new, box) = [BoxTexts(pan, box) EXCEPT ![box.kind] = text]
               /\ new.mode = pan.mode /\ new.factions = pan.factions /\ new.sets = pan.sets
               /\ new.costs = pan.costs /\ new.words = pan.words /\ new.limit = pan.limit
               /\ box.region = <<>> => new.effects = pan.effects
               /\ box.region # <<>> =>
                    /\ new.support = pan.support /\ DOMAIN new.effects = DOMAIN pan.effects
                    /\ \A j \in DOMAIN pan.effects \ {i} : new.effects[j] = pan.effects[j]
                    /\ new.effects[i].count = pan.effects[i].count
<1> DEFINE new == WithText(pan, box, text)
           i == box.region[1]
           texts == [BoxTexts(pan, box) EXCEPT ![box.kind] = text]
<1>1. CASE box.region = <<>>
  <2>1. new = [pan EXCEPT !.support = texts]
    BY <1>1 DEF WithText, BoxTexts
  <2>2. new.support = texts
    BY <2>1 DEF Panels
  <2>3. BoxTexts(new, box) = texts
    BY <1>1, <2>2 DEF BoxTexts
  <2> QED
    BY <1>1, <2>1, <2>3 DEF Panels
<1>2. CASE box.region # <<>>
  <2>1. i \in DOMAIN pan.effects /\ pan.effects[i] \in PanelSlots
    BY <1>2, BoxIs
  <2> DEFINE slot == [pan.effects[i] EXCEPT !.texts = [@ EXCEPT ![box.kind] = text]]
             effects == [pan.effects EXCEPT ![i] = slot]
  <2>2. new = [pan EXCEPT !.effects = effects]
    BY <1>2 DEF WithText
  <2>3. slot = [pan.effects[i] EXCEPT !.texts = texts]
    BY <1>2 DEF BoxTexts
  <2> HIDE DEF texts, slot, effects
  <2>9. new.effects = effects
    BY <2>2 DEF Panels
  <2>4. /\ DOMAIN new.effects = DOMAIN pan.effects
        /\ \A j \in DOMAIN pan.effects \ {i} : new.effects[j] = pan.effects[j]
        /\ new.effects[i] = [pan.effects[i] EXCEPT !.texts = texts]
    BY <2>1, <2>3, <2>9 DEF effects
  <2>5. new.effects[i].texts = texts /\ new.effects[i].count = pan.effects[i].count
    BY <2>1, <2>4 DEF PanelSlots
  <2>6. BoxTexts(new, box) = texts
    BY <1>2, <2>5 DEF BoxTexts
  <2>7. /\ new.mode = pan.mode /\ new.factions = pan.factions /\ new.sets = pan.sets
        /\ new.costs = pan.costs /\ new.words = pan.words /\ new.limit = pan.limit /\ new.support = pan.support
    BY <2>2 DEF Panels
  <2> QED
    BY <1>2, <2>4, <2>5, <2>6, <2>7 DEF texts
<1> QED
  BY <1>1, <1>2

\* Either way of putting an id into a text adds it and nothing else.
LEMMA TextIds ==
    ASSUME NEW text \in Seq(Tokens), NEW id \in Nat, NEW new \in {Replaced(text, id), Appended(text, id)}
    PROVE  /\ id \in ToSet(new) /\ ToSet(new) \subseteq ToSet(text) \cup {id}
           /\ text = <<>> => ToSet(new) = {id}
<1> DEFINE begin == SubSeq(text, 1, Len(text) - 1)
<1>1. \A s \in Seq(Tokens) : id \in ToSet(Append(s, id)) /\ ToSet(Append(s, id)) \subseteq ToSet(s) \cup {id}
  <2> SUFFICES ASSUME NEW s \in Seq(Tokens)
               PROVE  id \in ToSet(Append(s, id)) /\ ToSet(Append(s, id)) \subseteq ToSet(s) \cup {id}
    OBVIOUS
  <2>1. /\ Len(s) \in Nat /\ DOMAIN s = 1 .. Len(s) /\ DOMAIN Append(s, id) = 1 .. Len(s) + 1
        /\ Append(s, id)[Len(s) + 1] = id /\ \A n \in 1 .. Len(s) : Append(s, id)[n] = s[n]
    OBVIOUS
  <2>2. \A n \in 1 .. Len(s) + 1 : n \in 1 .. Len(s) \/ n = Len(s) + 1
    BY <2>1
  <2>3. Len(s) + 1 \in 1 .. Len(s) + 1
    BY <2>1
  <2> QED
    BY <2>1, <2>2, <2>3 DEF ToSet
<1>2. begin \in Seq(Tokens) /\ ToSet(begin) \subseteq ToSet(text) /\ (text = <<>> => begin = <<>>)
  <2>1. Len(text) \in Nat /\ DOMAIN text = 1 .. Len(text)
    OBVIOUS
  <2>2. /\ begin \in Seq(Tokens)
        /\ \A n \in DOMAIN begin : n \in DOMAIN text /\ begin[n] = text[n]
    BY <2>1, SubSeqProperties
  <2>3. text = <<>> => begin = <<>>
    BY SubSeqProperties
  <2> QED
    BY <2>2, <2>3 DEF ToSet
<1>3. ToSet(<<>>) = {}
  BY DEF ToSet
<1>4. new \in {Append(begin, id), Append(text, id)}
  BY DEF Replaced, Appended
<1> HIDE DEF begin
<1> QED
  BY <1>1, <1>2, <1>3, <1>4

\* The ability bitmaps of a query, and of slots of a panel
QuerySlots(app, q) == {SlotBits(app, q.effects[m]) : m \in Slots(q)}
PanelBits(app, pan, slots) == {SlotBits(app, Sent(pan.effects[i])) : i \in slots}

LEMMA GroupsOfPanel ==
    ASSUME NEW app, NEW pan \in Panels
    PROVE  QuerySlots(app, Query(pan)) = PanelBits(app, pan, Asked(pan))
<1> DEFINE q == Query(pan)
           slots == ActiveSlots(pan.effects)
           at(i) == CompactedSlotIndex(pan.effects, i)
<1>1. /\ \A i \in slots : at(i) \in DOMAIN q.effects /\ q.effects[at(i)] = Sent(pan.effects[i])
      /\ \A m \in DOMAIN q.effects : \E i \in slots : at(i) = m
  BY QueryEffects
<1>2. Asked(pan) \subseteq slots /\ \A i \in slots : i \in Asked(pan) <=> Sent(pan.effects[i]).ids # NoFilter
  BY EmptyAsksNothing DEF Asked, ActiveSlots, SlotHasValues, Sent
<1> HIDE DEF q, slots, at
<1>3. /\ \A i \in Asked(pan) : at(i) \in Slots(q) /\ q.effects[at(i)] = Sent(pan.effects[i])
      /\ \A m \in Slots(q) : \E i \in Asked(pan) : at(i) = m
  BY <1>1, <1>2 DEF Slots
<1>4. {SlotBits(app, q.effects[m]) : m \in Slots(q)} = {SlotBits(app, Sent(pan.effects[i])) : i \in Asked(pan)}
  BY <1>3
<1> QED
  BY <1>4 DEF q, QuerySlots, PanelBits

\* The slot being edited is told as itself, or as a new one after all others.
LEMMA EditedAbility ==
    ASSUME NEW pan \in Panels, NEW box \in Boxes(pan), box.region # <<>>, ~EditsAnother(pan, box)
    PROVE  LET slots == ActiveSlots(pan.effects)
               i == box.region[1]
               at == CompactedSlotIndex(pan.effects, i)
               q == Query(pan)
           IN  /\ Editing(pan, box) = <<at>>
               /\ i \in slots => at \in DOMAIN q.effects /\ q.effects[at] = Sent(pan.effects[i])
               /\ i \notin slots => at \notin DOMAIN q.effects
<1> DEFINE slots == ActiveSlots(pan.effects)
           i == box.region[1]
           at(j) == CompactedSlotIndex(pan.effects, j)
           q == Query(pan)
<1>1. i \in DOMAIN pan.effects
  BY BoxIs
<1>2. Editing(pan, box) = <<at(i)>>
  BY DEF Editing
<1>3. /\ \A j \in slots : at(j) \in DOMAIN q.effects /\ q.effects[at(j)] = Sent(pan.effects[j])
      /\ \A m \in DOMAIN q.effects : \E j \in slots : at(j) = m
  BY QueryEffects
<1>4. Cardinality(slots) \in Nat /\ \A j \in slots : at(j) \in 0 .. Cardinality(slots) - 1
  <2>1. pan.effects \in Seq(PanelSlots)
    BY DEF Panels
  <2> QED
    BY <2>1, SlotsRenumbered
<1>5. ASSUME i \notin slots PROVE at(i) = Cardinality(slots)
  <2>1. ~SlotHasValues(pan.effects[i])
    BY <1>1, <1>5 DEF ActiveSlots
  <2>2. \A j \in slots : ~(j > i)
    BY <2>1 DEF EditsAnother
  <2>3. \A j \in slots : j \in Nat
    <3>1. pan.effects \in Seq(PanelSlots)
      BY DEF Panels
    <3> QED
      BY <3>1 DEF ActiveSlots
  <2>4. i \in Nat
    <3>1. pan.effects \in Seq(PanelSlots)
      BY DEF Panels
    <3> QED
      BY <1>1, <3>1
  <2> HIDE DEF slots, i
  <2>5. \A j \in slots : j < i
    BY <1>5, <2>2, <2>3, <2>4
  <2>6. {j \in slots : j < i} = slots
    BY <2>5
  <2> QED
    BY <2>6 DEF CompactedSlotIndex, slots
<1> HIDE DEF slots, at, q
<1>6. i \notin slots => at(i) \notin DOMAIN q.effects
  BY <1>3, <1>4, <1>5
<1> QED
  BY <1>2, <1>3, <1>6 DEF slots, at, q

\* So what the server leaves out and narrows by is what the box shows.
LEMMA EditedIds ==
    ASSUME NEW pan \in Panels, NEW box \in Boxes(pan), ~EditsAnother(pan, box)
    PROVE  IdsIn(Query(pan), Editing(pan, box)) = IdsOfTexts(BoxTexts(pan, box))
           /\ (Editing(pan, box) = <<>> <=> box.region = <<>>)
<1>1. CASE box.region = <<>>
  <2>1. Editing(pan, box) = <<>>
    BY <1>1 DEF Editing
  <2>2. Query(pan).support = IdsOfTexts(pan.support)
    BY QueryFields
  <2> QED
    BY <1>1, <2>1, <2>2 DEF IdsIn, BoxTexts
<1>2. CASE box.region # <<>>
  <2> DEFINE slots == ActiveSlots(pan.effects)
             i == box.region[1]
             at == CompactedSlotIndex(pan.effects, i)
             q == Query(pan)
  <2>1. /\ Editing(pan, box) = <<at>>
        /\ i \in slots => at \in DOMAIN q.effects /\ q.effects[at] = Sent(pan.effects[i])
        /\ i \notin slots => at \notin DOMAIN q.effects
    BY <1>2, EditedAbility
  <2>2. i \in DOMAIN pan.effects
    BY <1>2, BoxIs
  <2>3. BoxTexts(pan, box) = pan.effects[i].texts
    BY <1>2 DEF BoxTexts
  <2>4. i \notin slots => IdsOfTexts(pan.effects[i].texts) = NoFilter
    BY <2>2, EmptyAsksNothing DEF ActiveSlots, SlotHasValues
  <2>5. i \in slots => Sent(pan.effects[i]).ids = IdsOfTexts(pan.effects[i].texts)
    BY DEF Sent
  <2> HIDE DEF slots, i, at, q
  <2>6. <<at>> # <<>> /\ <<at>>[1] = at
    OBVIOUS
  <2>7. IdsIn(q, <<at>>) = IF at \in DOMAIN q.effects THEN q.effects[at].ids ELSE NoFilter
    BY <2>6 DEF IdsIn
  <2>8. IdsIn(q, <<at>>) = IdsOfTexts(BoxTexts(pan, box))
    BY <2>1, <2>3, <2>4, <2>5, <2>7
  <2> QED
    BY <1>2, <2>1, <2>6, <2>8 DEF q
<1> QED
  BY <1>1, <1>2

LEMMA OthersOfPanel ==
    ASSUME NEW app, NEW pan \in Panels, NEW box \in Boxes(pan), box.region # <<>>, ~EditsAnother(pan, box)
    PROVE  LET q == Query(pan)
               w == Without(q, Editing(pan, box))
           IN  /\ QuerySlots(app, w) = PanelBits(app, pan, Asked(pan) \ {box.region[1]})
               /\ w.mode = q.mode /\ w.support = q.support /\ w.factions = q.factions /\ w.sets = q.sets
               /\ w.costs = q.costs /\ w.name = q.name /\ w.format = q.format /\ w.collection = q.collection
<1> DEFINE q == Query(pan)
           w == Without(q, Editing(pan, box))
           slots == ActiveSlots(pan.effects)
           at(j) == CompactedSlotIndex(pan.effects, j)
           i == box.region[1]
           less == Restrict(q.effects, DOMAIN q.effects \ {at(i)})
<1>1. /\ Editing(pan, box) = <<at(i)>>
      /\ i \in slots => at(i) \in DOMAIN q.effects /\ q.effects[at(i)] = Sent(pan.effects[i])
      /\ i \notin slots => at(i) \notin DOMAIN q.effects
  BY EditedAbility
<1>2. /\ \A j \in slots : at(j) \in DOMAIN q.effects /\ q.effects[at(j)] = Sent(pan.effects[j])
      /\ \A m \in DOMAIN q.effects : \E j \in slots : at(j) = m
      /\ \A j, k \in slots : at(j) = at(k) => j = k
  BY QueryEffects
<1>3. Asked(pan) \subseteq slots /\ \A j \in slots : j \in Asked(pan) <=> Sent(pan.effects[j]).ids # NoFilter
  BY EmptyAsksNothing DEF Asked, ActiveSlots, SlotHasValues, Sent
<1>4. q = [field \in RequestFields |-> q[field]]
  BY QueryFields
<1>5. w = [q EXCEPT !.effects = less]
  <2>1. <<at(i)>> # <<>> /\ <<at(i)>>[1] = at(i)
    OBVIOUS
  <2> QED
    BY <1>1, <2>1 DEF Without
<1> HIDE DEF q, w, slots, at, i
<1>6. DOMAIN less = DOMAIN q.effects \ {at(i)} /\ \A m \in DOMAIN less : less[m] = q.effects[m]
  BY DEF Restrict
<1> HIDE DEF less
<1>7. /\ w.effects = less
      /\ w.mode = q.mode /\ w.support = q.support /\ w.factions = q.factions /\ w.sets = q.sets
      /\ w.costs = q.costs /\ w.name = q.name /\ w.format = q.format /\ w.collection = q.collection
  BY <1>4, <1>5 DEF RequestFields
<1>8. ASSUME NEW j \in Asked(pan) \ {i}
      PROVE  at(j) \in Slots(w) /\ w.effects[at(j)] = Sent(pan.effects[j])
  <2>1. at(j) # at(i)
    BY <1>1, <1>2, <1>3
  <2>2. at(j) \in DOMAIN less /\ less[at(j)] = Sent(pan.effects[j])
    BY <1>2, <1>3, <1>6, <2>1
  <2> QED
    BY <1>3, <1>7, <2>2 DEF Slots
<1>9. ASSUME NEW m \in Slots(w)
      PROVE  \E j \in Asked(pan) \ {i} : w.effects[m] = Sent(pan.effects[j])
  <2>1. m \in DOMAIN less /\ less[m].ids # NoFilter
    BY <1>7 DEF Slots
  <2>2. PICK j \in slots : at(j) = m
    BY <1>2, <1>6, <2>1
  <2>3. less[m] = Sent(pan.effects[j]) /\ j # i
    BY <1>2, <1>6, <2>1, <2>2
  <2>4. j \in Asked(pan)
    BY <1>3, <2>1, <2>3
  <2> QED
    BY <1>7, <2>3, <2>4
<1>10. {SlotBits(app, w.effects[m]) : m \in Slots(w)} = {SlotBits(app, Sent(pan.effects[j])) : j \in Asked(pan) \ {i}}
  BY <1>8, <1>9
<1> QED
  BY <1>7, <1>10 DEF q, w, i, QuerySlots, PanelBits

\* A text in the box of an ability: what is left without the ability, and is on the line asked for,
\* is found, and where abilities are combined by "and" nothing else is.
LEMMA FilledAbility ==
    ASSUME NEW app, NEW pan \in Panels, NEW box \in Boxes(pan), box.region # <<>>, ~EditsAnother(pan, box),
           NEW text \in Seq(Tokens), NEW id \in Nat, id \in ToSet(text)
    PROVE  LET new == WithText(pan, box, text)
               base == Answer(app, Without(Query(pan), Editing(pan, box)))
               group == SlotBits(app, Sent(new.effects[box.region[1]]))
           IN  /\ base \cap group \subseteq Answer(app, Query(new))
               /\ pan.mode = "and" => Answer(app, Query(new)) \subseteq base \cap group
<1> DEFINE new == WithText(pan, box, text)
           i == box.region[1]
           q == Query(pan)
           q2 == Query(new)
           w == Without(q, Editing(pan, box))
           group == SlotBits(app, Sent(new.effects[i]))
           others == PanelBits(app, pan, Asked(pan) \ {i})
<1>1. new \in Panels
  BY FilledIn
<1>2. /\ BoxTexts(new, box) = [BoxTexts(pan, box) EXCEPT ![box.kind] = text]
      /\ new.mode = pan.mode /\ new.factions = pan.factions /\ new.sets = pan.sets
      /\ new.costs = pan.costs /\ new.words = pan.words
      /\ new.support = pan.support /\ DOMAIN new.effects = DOMAIN pan.effects
      /\ \A j \in DOMAIN pan.effects \ {i} : new.effects[j] = pan.effects[j]
  BY FilledBox
<1>3. i \in DOMAIN pan.effects /\ box.kind \in Kinds /\ BoxTexts(pan, box) \in Texts
  BY BoxIs
<1>4. IdsOfTexts(new.effects[i].texts) # NoFilter
  <2>1. new.effects[i].texts[box.kind] = text
    BY <1>2, <1>3 DEF BoxTexts, Texts
  <2>2. id \in IdsOfTexts(new.effects[i].texts)[box.kind]
    BY <1>3, <2>1, PanelAssumption DEF IdsOfTexts
  <2> QED
    BY <1>3, <2>2 DEF NoFilter
<1>5. Asked(new) = (Asked(pan) \ {i}) \cup {i}
  <2> HIDE DEF new, i
  <2> QED
    BY <1>2, <1>3, <1>4 DEF Asked
<1>6. QuerySlots(app, q2) = others \cup {group}
  <2>1. QuerySlots(app, q2) = PanelBits(app, new, Asked(new))
    <3> HIDE DEF new
    <3> QED
      BY <1>1, GroupsOfPanel
  <2>2. \A j \in Asked(pan) \ {i} : new.effects[j] = pan.effects[j]
    BY <1>2 DEF Asked
  <2> HIDE DEF new, i, q2
  <2> QED
    BY <1>5, <2>1, <2>2 DEF group, others, PanelBits
<1>7. /\ QuerySlots(app, w) = others
      /\ w.mode = q.mode /\ w.support = q.support /\ w.factions = q.factions /\ w.sets = q.sets
      /\ w.costs = q.costs /\ w.name = q.name /\ w.format = q.format /\ w.collection = q.collection
  BY OthersOfPanel
<1>8. /\ q.mode = IF Cardinality(ActiveSlots(pan.effects)) >= 2 THEN pan.mode ELSE "and"
      /\ q2.mode = IF Cardinality(ActiveSlots(new.effects)) >= 2 THEN new.mode ELSE "and"
  BY <1>1, QueryEffects
<1>9. Cardinality(ActiveSlots(pan.effects)) <= Cardinality(ActiveSlots(new.effects))
  <2>1. new.effects \in Seq(PanelSlots)
    BY <1>1 DEF Panels
  <2>2. new.effects[i].texts # EmptyTexts
    BY <1>4, EmptyAsksNothing
  <2>3. ActiveSlots(pan.effects) \subseteq ActiveSlots(new.effects)
    <3> HIDE DEF new, i
    <3> QED
      BY <1>2, <1>3, <2>2 DEF ActiveSlots, SlotHasValues
  <2>4. IsFiniteSet(ActiveSlots(new.effects))
    BY <2>1, SlotsRenumbered
  <2> HIDE DEF new
  <2> QED
    BY <2>3, <2>4, FS_Subset
<1>10. (q.mode = "or" => q2.mode = "or") /\ (pan.mode = "and" => q2.mode = "and" /\ q.mode = "and")
  <2>1. Cardinality(ActiveSlots(pan.effects)) \in Nat /\ Cardinality(ActiveSlots(new.effects)) \in Nat
    <3>1. pan.effects \in Seq(PanelSlots) /\ new.effects \in Seq(PanelSlots)
      BY <1>1 DEF Panels
    <3> QED
      BY <3>1, SlotsRenumbered
  <2> HIDE DEF new, q, q2
  <2> QED
    BY <1>2, <1>8, <1>9, <2>1
<1>11. /\ q2.support = q.support /\ q2.factions = q.factions /\ q2.sets = q.sets
       /\ q2.costs = q.costs /\ q2.name = q.name /\ q2.format = q.format /\ q2.collection = q.collection
  <2> HIDE DEF new
  <2> QED
    BY <1>1, <1>2 DEF Query
<1> HIDE DEF new, i, q, q2, w, group, others
<1>12. OtherGroups(app, q2) = OtherGroups(app, w) /\ SupportGroups(app, q2) = SupportGroups(app, w)
  BY <1>7, <1>11, OthersAlike DEF SupportGroups
<1>13. AbilityGroups(app, q2) = Combined(q2.mode, others \cup {group}) /\ AbilityGroups(app, w) = Combined(q.mode, others)
  BY <1>6, <1>7 DEF AbilityGroups, QuerySlots
<1>14. Format(app, q2, TRUE) = Format(app, w, TRUE)
  BY <1>7, <1>11 DEF Format
<1>15. ASSUME NEW bit \in group, \A g \in AbilityGroups(app, w) : bit \in g, NEW g \in AbilityGroups(app, q2)
       PROVE  bit \in g
  <2>1. CASE q2.mode = "or"
    <3>1. AbilityGroups(app, q2) = {UNION (others \cup {group})}
      BY <1>13, <2>1 DEF Combined
    <3> QED
      BY <3>1, <1>15
  <2>2. CASE q2.mode # "or"
    <3>1. AbilityGroups(app, q2) = others \cup {group} /\ AbilityGroups(app, w) = others
      BY <1>10, <1>13, <2>2 DEF Combined
    <3> QED
      BY <3>1, <1>15
  <2> QED
    BY <2>1, <2>2
<1>16. Answer(app, w) \cap group \subseteq Answer(app, q2)
  <2> SUFFICES ASSUME NEW bit \in Answer(app, w) \cap group PROVE bit \in Answer(app, q2)
    OBVIOUS
  <2>1. bit \in AllBits(app) /\ (\A g \in Groups(app, w) : bit \in g) /\ bit \notin UNION Format(app, w, TRUE)
    BY DEF Answer
  <2>2. \A g \in AbilityGroups(app, q2) : bit \in g
    BY <1>15, <2>1, GroupParts
  <2>3. \A g \in Groups(app, q2) : bit \in g
    BY <1>12, <2>1, <2>2, GroupParts
  <2> QED
    BY <1>14, <2>1, <2>3 DEF Answer
<1>17. ASSUME pan.mode = "and" PROVE Answer(app, q2) = Answer(app, w) \cap group
  <2>1. AbilityGroups(app, q2) = others \cup {group} /\ AbilityGroups(app, w) = others
    BY <1>10, <1>13, <1>17 DEF Combined
  <2>2. Groups(app, q2) = Groups(app, w) \cup {group}
    BY <1>12, <2>1, GroupParts
  <2> QED
    BY <1>7, <1>11, <2>2, OneGroupMore
<1> QED
  BY <1>16, <1>17 DEF new, i, q, q2, w, group

LEMMA FilledSupport ==
    ASSUME NEW app, NEW pan \in Panels, NEW box \in Boxes(pan), box.region = <<>>,
           NEW text \in Seq(Tokens), NEW id \in Nat, id \in ToSet(text)
    PROVE  LET new == WithText(pan, box, text)
               base == Answer(app, Without(Query(pan), Editing(pan, box)))
               group == OnLine(app, "Ec", IdsOfTexts(new.support))
           IN  Answer(app, Query(new)) = base \cap group
<1> DEFINE new == WithText(pan, box, text)
           q == Query(pan)
           q2 == Query(new)
           w == Without(q, Editing(pan, box))
           ids == IdsOfTexts(new.support)
<1>0. new \in Panels
  BY FilledIn
<1>1. /\ BoxTexts(new, box) = [BoxTexts(pan, box) EXCEPT ![box.kind] = text]
      /\ new.mode = pan.mode /\ new.factions = pan.factions /\ new.sets = pan.sets
      /\ new.costs = pan.costs /\ new.words = pan.words /\ new.effects = pan.effects
  BY FilledBox
<1>2. box.kind \in Kinds /\ BoxTexts(pan, box) \in Texts
  BY BoxIs
<1>3. ids # NoFilter
  <2>1. new.support[box.kind] = text
    BY <1>1, <1>2 DEF BoxTexts, Texts
  <2>2. id \in ids[box.kind]
    BY <1>2, <2>1, PanelAssumption DEF IdsOfTexts
  <2> QED
    BY <1>2, <2>2 DEF NoFilter
<1>4. q = [field \in RequestFields |-> q[field]]
  BY QueryFields
<1>5. w = [q EXCEPT !.support = NoFilter]
  <2>1. Editing(pan, box) = <<>>
    BY DEF Editing
  <2> QED
    BY <2>1 DEF Without
<1>6. /\ q2.factions = q.factions /\ q2.sets = q.sets /\ q2.costs = q.costs /\ q2.name = q.name
      /\ q2.format = q.format /\ q2.collection = q.collection /\ q2.support = ids
  <2> HIDE DEF new
  <2> QED
    BY <1>1 DEF Query
<1>7. q2.effects = q.effects /\ q2.mode = q.mode
  <2> HIDE DEF new
  <2> QED
    BY <1>1 DEF Query
<1> HIDE DEF q, q2, w, ids
<1>8. /\ w.support = NoFilter /\ w.effects = q.effects /\ w.mode = q.mode /\ w.factions = q.factions /\ w.sets = q.sets
      /\ w.costs = q.costs /\ w.name = q.name /\ w.format = q.format /\ w.collection = q.collection
  BY <1>4, <1>5 DEF RequestFields
<1>9. AbilityGroups(app, q2) = AbilityGroups(app, w)
  BY <1>7, <1>8 DEF Slots, AbilityGroups
<1>10. OtherGroups(app, q2) = OtherGroups(app, w)
  BY <1>6, <1>8, OthersAlike
<1>11. SupportGroups(app, q2) = {OnLine(app, "Ec", ids)} /\ SupportGroups(app, w) = {}
  BY <1>3, <1>6, <1>8 DEF SupportGroups
<1>12. Groups(app, q2) = Groups(app, w) \cup {OnLine(app, "Ec", ids)}
  BY <1>9, <1>10, <1>11, GroupParts
<1>13. Answer(app, q2) = Answer(app, w) \cap OnLine(app, "Ec", ids)
  BY <1>6, <1>8, <1>12, OneGroupMore
<1> QED
  BY <1>13 DEF q, q2, w, ids

\* What is on one of the lines a box is about, as its texts then are, is found, and so on.
LEMMA FilledAnswer ==
    ASSUME NEW app, NEW pan \in Panels, NEW box \in Boxes(pan), ~EditsAnother(pan, box),
           box.region # <<>> => pan.effects[box.region[1]].count = 1,
           NEW text \in Seq(Tokens), NEW id \in Nat, id \in ToSet(text)
    PROVE  LET new == WithText(pan, box, text)
               base == Answer(app, Without(Query(pan), Editing(pan, box)))
               ids == IdsOfTexts(BoxTexts(new, box))
               found == Answer(app, Query(new))
           IN  /\ \A bit \in base : (\E l \in LinesOf(box.region) : bit \in OnLine(app, l, ids)) => bit \in found
               /\ pan.mode = "and" =>
                    \A bit \in found : bit \in base /\ \E l \in LinesOf(box.region) : bit \in OnLine(app, l, ids)
<1> DEFINE new == WithText(pan, box, text)
           base == Answer(app, Without(Query(pan), Editing(pan, box)))
           ids == IdsOfTexts(BoxTexts(new, box))
           found == Answer(app, Query(new))
<1>1. CASE box.region = <<>>
  <2>1. ids = IdsOfTexts(new.support)
    BY <1>1 DEF BoxTexts
  <2>2. found = base \cap OnLine(app, "Ec", IdsOfTexts(new.support))
    BY <1>1, FilledSupport
  <2>3. LinesOf(box.region) = {"Ec"}
    BY <1>1 DEF LinesOf
  <2> HIDE DEF new, base, ids, found
  <2>4. found = base \cap OnLine(app, "Ec", ids)
    BY <2>1, <2>2
  <2>5. /\ \A bit \in base : (\E l \in LinesOf(box.region) : bit \in OnLine(app, l, ids)) => bit \in found
        /\ \A bit \in found : bit \in base /\ \E l \in LinesOf(box.region) : bit \in OnLine(app, l, ids)
    BY <2>3, <2>4
  <2> QED
    BY <2>5 DEF new, base, ids, found
<1>2. CASE box.region # <<>>
  <2> DEFINE slot == Sent(new.effects[box.region[1]])
  <2>1. slot.count = 1 /\ slot.ids = ids
    <3>1. new.effects[box.region[1]].count = 1
      BY <1>2, FilledBox
    <3>2. BoxTexts(new, box) = new.effects[box.region[1]].texts
      BY <1>2 DEF BoxTexts
    <3> QED
      BY <3>1, <3>2 DEF Sent
  <2>2. base \cap SlotBits(app, slot) \subseteq found /\ (pan.mode = "and" => found \subseteq base \cap SlotBits(app, slot))
    BY <1>2, FilledAbility
  <2> HIDE DEF new, base, ids, found, slot
  <2>3. LinesOf(box.region) = ToSet(MainLines)
    BY <1>2 DEF LinesOf
  <2>4. \A bit : bit \in SlotBits(app, slot) <=> \E l \in LinesOf(box.region) : bit \in OnLine(app, l, ids)
    BY <2>1, <2>3, SlotOnce
  <2>5. /\ \A bit \in base : (\E l \in LinesOf(box.region) : bit \in OnLine(app, l, ids)) => bit \in found
        /\ pan.mode = "and" =>
             \A bit \in found : bit \in base /\ \E l \in LinesOf(box.region) : bit \in OnLine(app, l, ids)
    BY <2>2, <2>4
  <2> QED
    BY <2>5 DEF new, base, ids, found
<1> QED
  BY <1>1, <1>2

LEMMA FilledIds ==
    ASSUME NEW pan \in Panels, NEW box \in Boxes(pan), NEW text \in Seq(Tokens)
    PROVE  LET ids == IdsOfTexts(BoxTexts(pan, box))
               new == IdsOfTexts(BoxTexts(WithText(pan, box, text), box))
           IN  /\ DOMAIN ids = Kinds /\ box.kind \in Kinds
               /\ \A k \in Kinds \ {box.kind} : new[k] = ids[k]
               /\ new[box.kind] = ToSet(text) \ {Blank}
               /\ ids[box.kind] = ToSet(TextOf(pan, box)) \ {Blank}
<1>1. /\ box.kind \in Kinds /\ BoxTexts(pan, box) \in Texts
      /\ TextOf(pan, box) = BoxTexts(pan, box)[box.kind]
  BY BoxIs
<1>2. BoxTexts(WithText(pan, box, text), box) = [BoxTexts(pan, box) EXCEPT ![box.kind] = text]
  BY FilledBox
<1> QED
  BY <1>1, <1>2 DEF IdsOfTexts, Texts

\* An option more among the ids
OneMore(kind, ids, id, new) ==
    /\ kind \in Kinds /\ DOMAIN ids = Kinds
    /\ id \in new[kind] /\ \A k \in Kinds \ {kind} : new[k] = ids[k]

Beside(app, line, kind, ids, id) ==
    {bit \in OnLine(app, line, [ids EXCEPT ![kind] = {}]) : <<line, id, bit>> \in app.index.lines}

\* The ids beside an option, and with it
LEMMA OnLineOfOption ==
    ASSUME NEW app, NEW line, NEW kind, NEW ids, NEW id, NEW new, OneMore(kind, ids, id, new)
    PROVE  /\ Beside(app, line, kind, ids, id) \subseteq OnLine(app, line, new)
           /\ new[kind] = {id} => OnLine(app, line, new) \subseteq Beside(app, line, kind, ids, id)
<1> DEFINE none == [ids EXCEPT ![kind] = {}]
<1>0. /\ kind \in Kinds /\ DOMAIN ids = Kinds
      /\ id \in new[kind] /\ \A k \in Kinds \ {kind} : new[k] = ids[k]
  BY DEF OneMore
<1>1. none[kind] = {} /\ \A k \in Kinds \ {kind} : none[k] = new[k]
  BY <1>0
<1> HIDE DEF none
<1>2. \A bit : bit \in OnLine(app, line, none) /\ <<line, id, bit>> \in app.index.lines
                    => bit \in OnLine(app, line, new)
  BY <1>0, <1>1 DEF OnLine
<1>3. new[kind] = {id} =>
        \A bit : bit \in OnLine(app, line, new)
                    => bit \in OnLine(app, line, none) /\ <<line, id, bit>> \in app.index.lines
  BY <1>0, <1>1 DEF OnLine
<1> QED
  BY <1>2, <1>3 DEF none, Beside

\* A query that is taken still is with a known id more.
LEMMA FilledTaken ==
    ASSUME NEW app, NEW pan \in Panels, NEW box \in Boxes(pan), Status(app, Query(pan)) = 200,
           NEW text \in Seq(Tokens), NEW id \in DOMAIN app.index.types, app.index.types[id] = box.kind,
           ToSet(text) \subseteq ToSet(TextOf(pan, box)) \cup {id}
    PROVE  Status(app, Query(WithText(pan, box, text))) = 200
<1> DEFINE new == WithText(pan, box, text)
           ids == IdsOfTexts(BoxTexts(pan, box))
           ids2 == IdsOfTexts(BoxTexts(new, box))
           i == box.region[1]
<1>1. new \in Panels
  BY FilledIn
<1>2. /\ \A j \in ActiveSlots(pan.effects) : ~BadIds(app.index, IdsOfTexts(pan.effects[j].texts))
      /\ ~BadIds(app.index, IdsOfTexts(pan.support))
      /\ pan.sets \subseteq SetCodes(app.families)
      /\ pan.words.format # <<>> =>
              pan.words.format[1] \in DOMAIN app.formats /\ app.formats[pan.words.format[1]].ready
      /\ pan.words.collection # <<>> => pan.words.collection[1] \in DOMAIN app.collections
  BY QueryTaken
<1>3. ~BadIds(app.index, NoFilter)
  BY DEF BadIds, NoFilter
<1>4. ~BadIds(app.index, ids)
  <2>1. CASE box.region = <<>>
    BY <1>2, <2>1 DEF BoxTexts
  <2>2. CASE box.region # <<>>
    <3>1. i \in DOMAIN pan.effects
      BY <2>2, BoxIs
    <3>2. ids = IdsOfTexts(pan.effects[i].texts)
      BY <2>2 DEF BoxTexts
    <3>3. i \notin ActiveSlots(pan.effects) => ids = NoFilter
      BY <3>1, <3>2, EmptyAsksNothing DEF ActiveSlots, SlotHasValues
    <3> QED
      BY <1>2, <1>3, <3>2, <3>3
  <2> QED
    BY <2>1, <2>2
<1>5. /\ \A k \in Kinds \ {box.kind} : ids2[k] = ids[k]
      /\ ids2[box.kind] \subseteq ids[box.kind] \cup {id}
  BY FilledIds
<1> HIDE DEF ids2, ids
<1>6. ~BadIds(app.index, ids2)
  BY <1>4, <1>5 DEF BadIds
<1>7. /\ new.sets = pan.sets /\ new.words = pan.words
      /\ box.region = <<>> => new.effects = pan.effects
      /\ box.region # <<>> =>
            /\ new.support = pan.support /\ DOMAIN new.effects = DOMAIN pan.effects
            /\ \A j \in DOMAIN pan.effects \ {i} : new.effects[j] = pan.effects[j]
  BY FilledBox
<1>8. /\ box.region = <<>> => ids2 = IdsOfTexts(new.support)
      /\ box.region # <<>> => ids2 = IdsOfTexts(new.effects[i].texts)
  BY DEF ids2, BoxTexts
<1> HIDE DEF new, i
<1>9. ASSUME NEW j \in ActiveSlots(new.effects) PROVE ~BadIds(app.index, IdsOfTexts(new.effects[j].texts))
  <2>1. CASE box.region # <<>> /\ j = i
    BY <1>6, <1>8, <2>1
  <2>2. CASE box.region = <<>>
    BY <1>2, <1>7, <2>2
  <2>3. CASE box.region # <<>> /\ j # i
    <3>1. j \in ActiveSlots(pan.effects) /\ new.effects[j] = pan.effects[j]
      BY <1>7, <2>3 DEF ActiveSlots, SlotHasValues
    <3> QED
      BY <1>2, <3>1
  <2> QED
    BY <2>1, <2>2, <2>3
<1>10. ~BadIds(app.index, IdsOfTexts(new.support))
  BY <1>2, <1>6, <1>7, <1>8
<1>11. Status(app, Query(new)) = 200
  BY <1>1, <1>2, <1>7, <1>9, <1>10, QueryTaken
<1> QED
  BY <1>11 DEF new

OfKind(app, id, kind) == id \in DOMAIN app.index.types /\ app.index.types[id] = kind

\* A query that is taken knows its ids, those in a box too.
LEMMA TakenKnows ==
    ASSUME NEW app, NEW pan \in Panels, NEW box \in Boxes(pan), NEW text \in Seq(Tokens), NEW id \in Nat,
           id \in ToSet(text), Status(app, Query(WithText(pan, box, text))) = 200
    PROVE  OfKind(app, id, box.kind)
<1> DEFINE new == WithText(pan, box, text)
           ids2 == IdsOfTexts(BoxTexts(new, box))
           i == box.region[1]
<1>1. new \in Panels
  BY FilledIn
<1>2. box.kind \in Kinds /\ id \in ids2[box.kind]
  <2>1. ids2[box.kind] = ToSet(text) \ {Blank} /\ box.kind \in Kinds
    BY FilledIds
  <2> HIDE DEF ids2
  <2> QED
    BY <2>1, PanelAssumption
<1>3. /\ \A j \in ActiveSlots(new.effects) : ~BadIds(app.index, IdsOfTexts(new.effects[j].texts))
      /\ ~BadIds(app.index, IdsOfTexts(new.support))
  <2> HIDE DEF new
  <2>1. Status(app, Query(new)) = 200
    BY DEF new
  <2> QED
    BY <1>1, <2>1, QueryTaken
<1>4. box.region # <<>> => i \in DOMAIN new.effects
  BY BoxIs, FilledBox
<1>5. /\ box.region = <<>> => ids2 = IdsOfTexts(new.support)
      /\ box.region # <<>> => ids2 = IdsOfTexts(new.effects[i].texts)
  BY DEF BoxTexts
<1> HIDE DEF new, ids2, i
<1>6. ~BadIds(app.index, ids2)
  <2>1. CASE box.region = <<>>
    BY <1>3, <1>5, <2>1
  <2>2. CASE box.region # <<>>
    <3>1. ids2 # NoFilter
      BY <1>2 DEF NoFilter
    <3>2. i \in ActiveSlots(new.effects)
      BY <1>4, <1>5, <2>2, <3>1, EmptyAsksNothing DEF ActiveSlots, SlotHasValues
    <3> QED
      BY <1>3, <1>5, <2>2, <3>2
  <2> QED
    BY <2>1, <2>2
<1> QED
  BY <1>2, <1>6 DEF BadIds, OfKind

\* The text a picked suggestion leaves in its box
LEMMA SelectedText ==
    ASSUME NEW pan \in Panels, NEW box \in Boxes(pan), NEW id \in Nat
    PROVE  \E text \in Seq(Tokens) :
                /\ Selected(pan, box, id) = WithText(pan, box, text)
                /\ id \in ToSet(text) /\ ToSet(text) \subseteq ToSet(TextOf(pan, box)) \cup {id}
                /\ TextOf(pan, box) = <<>> => ToSet(text) = {id}
<1> DEFINE old == TextOf(pan, box)
           text == IF typing THEN Replaced(old, id) ELSE Appended(old, id)
<1>1. old \in Seq(Tokens)
  BY TextInBox
<1>2. Selected(pan, box, id) = WithText(pan, box, text)
  BY DEF Selected
<1>3. text \in {Replaced(old, id), Appended(old, id)}
  OBVIOUS
<1> HIDE DEF old, text
<1>4. text \in Seq(Tokens)
  BY <1>1, <1>3, TextWithId
<1>5. /\ id \in ToSet(text) /\ ToSet(text) \subseteq ToSet(old) \cup {id}
      /\ old = <<>> => ToSet(text) = {id}
  BY <1>1, <1>3, TextIds
<1> QED
  BY <1>2, <1>4, <1>5 DEF old

\* What is offered for a box is what is on one of its lines beside the other ids of the box.
OfferedBeside(app, pan, box, id) ==
    /\ id \in DOMAIN app.index.types /\ app.index.types[id] = box.kind
    /\ \E l \in LinesOf(box.region) :
         \E bit \in Answer(app, Without(Query(pan), Editing(pan, box))) :
            /\ bit \in OnLine(app, l, [IdsOfTexts(BoxTexts(pan, box)) EXCEPT ![box.kind] = {}])
            /\ <<l, id, bit>> \in app.index.lines

LEMMA OfferedFor ==
    ASSUME NEW app, NEW pan \in Panels, NEW box \in Boxes(pan), ~EditsAnother(pan, box), NEW id
    PROVE  id \in Offered(app, Query(pan), box.kind, Editing(pan, box)) <=> OfferedBeside(app, pan, box, id)
<1>1. IdsIn(Query(pan), Editing(pan, box)) = IdsOfTexts(BoxTexts(pan, box))
      /\ (Editing(pan, box) = <<>> <=> box.region = <<>>)
  BY EditedIds
<1>2. LinesOf(Editing(pan, box)) = LinesOf(box.region)
  BY <1>1 DEF LinesOf
<1> QED
  BY <1>1, <1>2 DEF Offered, OfferedBeside

\* A picked suggestion leads to a card, and with all asked for an option that is none does not.
LEMMA PickedLeads ==
    ASSUME NEW pan \in Panels, NEW box \in Boxes(pan), NEW id \in Nat,
           Status(App, Query(pan)) = 200, ~EditsAnother(pan, box),
           box.region # <<>> => pan.effects[box.region[1]].count = 1
    PROVE  LET offered == Offered(App, Query(pan), box.kind, Editing(pan, box))
           IN  /\ id \in offered => SearchLeads(Selected(pan, box, id))
               /\ id \notin offered /\ pan.mode = "and" /\ TextOf(pan, box) = <<>> /\ Sendable(pan)
                        => ~SearchLeads(Selected(pan, box, id))
<1>1. PICK text \in Seq(Tokens) :
            /\ Selected(pan, box, id) = WithText(pan, box, text)
            /\ id \in ToSet(text) /\ ToSet(text) \subseteq ToSet(TextOf(pan, box)) \cup {id}
            /\ TextOf(pan, box) = <<>> => ToSet(text) = {id}
  BY SelectedText
<1>0. id \in Offered(App, Query(pan), box.kind, Editing(pan, box)) <=> OfferedBeside(App, pan, box, id)
  BY OfferedFor
<1> DEFINE offered == Offered(App, Query(pan), box.kind, Editing(pan, box))
           base == Answer(App, Without(Query(pan), Editing(pan, box)))
           lines == LinesOf(box.region)
           ids == IdsOfTexts(BoxTexts(pan, box))
           none == [ids EXCEPT ![box.kind] = {}]
           new == WithText(pan, box, text)
           ids2 == IdsOfTexts(BoxTexts(new, box))
           found == Answer(App, Query(new))
<1>2. id \in offered <=> /\ id \in DOMAIN App.index.types /\ App.index.types[id] = box.kind
                         /\ \E l \in lines : \E bit \in base :
                                bit \in OnLine(App, l, none) /\ <<l, id, bit>> \in App.index.lines
  BY <1>0 DEF OfferedBeside
<1>3. /\ \A bit \in base : (\E l \in lines : bit \in OnLine(App, l, ids2)) => bit \in found
      /\ pan.mode = "and" => \A bit \in found : bit \in base /\ \E l \in lines : bit \in OnLine(App, l, ids2)
  BY <1>1, FilledAnswer
<1>4. /\ DOMAIN ids = Kinds /\ box.kind \in Kinds
      /\ \A k \in Kinds \ {box.kind} : ids2[k] = ids[k]
      /\ ids2[box.kind] = ToSet(text) \ {Blank}
  BY FilledIds
<1>5. id \in ids2[box.kind] /\ (TextOf(pan, box) = <<>> => ids2[box.kind] = {id})
  BY <1>1, <1>4, PanelAssumption
<1>6. Sendable(new) <=> Sendable(pan)
  BY FilledBox DEF Sendable
<1> HIDE DEF offered, base, lines, ids, ids2, found, new
<1>7. \A l, bit :
        /\ bit \in OnLine(App, l, none) /\ <<l, id, bit>> \in App.index.lines => bit \in OnLine(App, l, ids2)
        /\ ids2[box.kind] = {id} /\ bit \in OnLine(App, l, ids2)
               => bit \in OnLine(App, l, none) /\ <<l, id, bit>> \in App.index.lines
  <2> SUFFICES ASSUME NEW l
               PROVE  \A bit :
                        /\ bit \in OnLine(App, l, none) /\ <<l, id, bit>> \in App.index.lines
                                => bit \in OnLine(App, l, ids2)
                        /\ ids2[box.kind] = {id} /\ bit \in OnLine(App, l, ids2)
                                => bit \in OnLine(App, l, none) /\ <<l, id, bit>> \in App.index.lines
    OBVIOUS
  <2> DEFINE beside == Beside(App, l, box.kind, ids, id)
  <2>1. OneMore(box.kind, ids, id, ids2)
    BY <1>4, <1>5 DEF OneMore
  <2>2. /\ beside \subseteq OnLine(App, l, ids2)
        /\ ids2[box.kind] = {id} => OnLine(App, l, ids2) \subseteq beside
    BY <2>1, OnLineOfOption
  <2> QED
    BY <2>2 DEF Beside, none
<1> HIDE DEF none
<1>8. ASSUME id \in offered PROVE SearchLeads(new)
  <2>1. Status(App, Query(new)) = 200
    BY <1>1, <1>2, <1>8, FilledTaken DEF new
  <2>2. PICK l \in lines, bit \in base : bit \in OnLine(App, l, none) /\ <<l, id, bit>> \in App.index.lines
    BY <1>2, <1>8
  <2>3. bit \in found
    BY <1>3, <1>7, <2>2
  <2> QED
    BY <2>1, <2>3 DEF SearchLeads, found
<1>9. ASSUME id \notin offered, pan.mode = "and", TextOf(pan, box) = <<>>, Sendable(pan), SearchLeads(new)
      PROVE  FALSE
  <2>1. Status(App, Query(new)) = 200 /\ found # {}
    BY <1>6, <1>9 DEF SearchLeads, found
  <2>2. id \in DOMAIN App.index.types /\ App.index.types[id] = box.kind
    <3>1. Status(App, Query(WithText(pan, box, text))) = 200
      BY <2>1 DEF new
    <3>2. id \in ToSet(text)
      BY <1>1
    <3>3. OfKind(App, id, box.kind)
      BY <3>1, <3>2, TakenKnows
    <3> QED
      BY <3>3 DEF OfKind
  <2>3. PICK bit \in found : TRUE
    BY <2>1
  <2>4. PICK l \in lines : bit \in base /\ bit \in OnLine(App, l, ids2)
    BY <1>3, <1>9, <2>3
  <2> QED
    BY <1>2, <1>5, <1>7, <1>9, <2>2, <2>4
<1> QED
  BY <1>1, <1>8, <1>9 DEF new, offered

(***************************************************************************)
(* The end of a full list                                                  *)
(***************************************************************************)
\* The first m members
FirstOf(S, m) == ToSet(SubSeq(Sorted(S), 1, Min({m, Len(Sorted(S))})))

\* What the first m members leave out comes after m of them.
LEMMA FirstMembers ==
    ASSUME NEW S \in SUBSET Nat, IsFiniteSet(S), NEW m \in Nat
    PROVE  /\ FirstOf(S, m) \subseteq S
           /\ \A x \in S \ FirstOf(S, m) :
                 Cardinality(FirstOf(S, m)) = m /\ \A y \in FirstOf(S, m) : y < x
<1> DEFINE all == Sorted(S)
           len == Cardinality(S)
           k == Min({m, len})
           first == FirstOf(S, m)
<1>1. /\ all \in Seq(S) /\ Len(all) = len
      /\ \A n \in 1 .. len : all[n] \in S /\ Rank(S, all[n]) = n - 1
      /\ \A x \in S : all[Rank(S, x) + 1] = x
  BY SortedRanks
<1>2. len \in Nat
  BY FS_CardinalityType
<1>3. k = IF m <= len THEN m ELSE len
  <2> HIDE DEF len
  <2> QED
    BY <1>2, MinOfTwo
<1>4. k \in 0 .. len /\ k <= m
  BY <1>2, <1>3
<1>5. first = ToSet(SubSeq(all, 1, k))
  BY <1>1, Zenon DEF FirstOf
<1> HIDE DEF all, len, k, first
<1>6. first = {all[n] : n \in 1 .. k}
  <2>1. Len(SubSeq(all, 1, k)) = k /\ \A n \in 1 .. k : SubSeq(all, 1, k)[n] = all[n]
    BY <1>1, <1>2, <1>4
  <2>2. DOMAIN SubSeq(all, 1, k) = 1 .. k
    BY <1>1, <1>2, <1>4
  <2> QED
    BY <1>5, <2>1, <2>2 DEF ToSet
<1>7. \A n \in 1 .. k : n \in 1 .. len
  BY <1>2, <1>4
<1>8. first \subseteq S
  BY <1>1, <1>6, <1>7
<1>9. Cardinality(first) = k
  <2> DEFINE f == [n \in 1 .. k |-> all[n]]
  <2>1. f \in Surjection(1 .. k, first)
    BY <1>6 DEF Surjection
  <2>2. f \in Injection(1 .. k, first)
    <3>1. ASSUME NEW a \in 1 .. k, NEW b \in 1 .. k, all[a] = all[b] PROVE a = b
      <4>1. a - 1 = b - 1
        BY <1>1, <1>7, <3>1
      <4> QED
        BY <1>4, <4>1
    <3> QED
      BY <1>6, <3>1 DEF Injection, IsInjective
  <2>3. ExistsBijection(1 .. k, first)
    BY <2>1, <2>2 DEF ExistsBijection, Bijection
  <2>4. IsFiniteSet(1 .. k) /\ Cardinality(1 .. k) = k
    BY <1>2, <1>4, FS_Interval
  <2> QED
    BY <2>3, <2>4, FS_Bijection
<1>10. ASSUME NEW x \in S, x \notin first
       PROVE  Cardinality(first) = m /\ \A y \in first : y < x
  <2>1. Rank(S, x) \in 0 .. len - 1 /\ \A y \in S : x < y => Rank(S, x) < Rank(S, y)
    BY RankGrows DEF len
  <2>2. Rank(S, x) + 1 \notin 1 .. k
    BY <1>1, <1>6, <1>10
  <2>3. Rank(S, x) >= k
    BY <1>2, <1>4, <2>1, <2>2
  <2>4. k = m
    BY <1>2, <1>3, <2>1, <2>3
  <2>5. ASSUME NEW y \in first PROVE y < x
    <3>1. PICK n \in 1 .. k : y = all[n]
      BY <1>6
    <3>2. y \in S /\ Rank(S, y) = n - 1
      BY <1>1, <1>7, <3>1
    <3>3. Rank(S, y) < Rank(S, x)
      BY <1>4, <2>1, <2>3, <3>2
    <3>4. ~(x < y) /\ x # y
      BY <2>1, <3>2, <3>3
    <3>5. x \in Nat /\ y \in Nat
      BY <3>2
    <3> QED
      BY <3>4, <3>5
  <2> QED
    BY <1>9, <2>4, <2>5
<1> QED
  BY <1>8, <1>10 DEF first

\* An index has finitely many ids.
LEMMA IdsAreFinite ==
    ASSUME NEW d, IsDataset(d), NEW app, IsSnapshot(app, d)
    PROVE  IsFiniteSet(DOMAIN app.index.types)
<1> DEFINE len == Len(d.cards)
           ids(n) == IdsOf(AllNodes(d.cards[n]))
           all == {ids(n) : n \in 1 .. len}
<1>1. DOMAIN app.index.types = UNION all /\ DOMAIN d.cards = 1 .. len
  BY SnapshotFields DEF Recorded
<1>2. len \in Nat
  BY DEF IsDataset, Tiles
<1>3. ASSUME NEW n \in 1 .. len PROVE IsFiniteSet(ids(n))
  <2> DEFINE nodes == AllNodes(d.cards[n])
             f == [i \in DOMAIN nodes |-> nodes[i].id]
  <2>1. nodes \in Seq(Nodes)
    <3> DEFINE e == d.cards[n].elements
               parts == [i \in DOMAIN e |-> NodesOf(e[i])]
    <3>1. e \in Seq(Elements)
      BY <1>1, CardElements
    <3>2. nodes = FlattenSeq(parts)
      BY DEF AllNodes
    <3> HIDE DEF e, nodes
    <3>3. parts \in Seq(Seq(Nodes))
      <4>1. \A i \in DOMAIN e : NodesOf(e[i]) \in Seq(Nodes)
        BY <3>1, ElementNodes
      <4>2. DOMAIN e = 1 .. Len(e) /\ Len(e) \in Nat
        BY <3>1
      <4> QED
        BY <4>1, <4>2
    <3> HIDE DEF parts
    <3> QED
      BY <3>2, <3>3, FlattenHas
  <2> HIDE DEF nodes
  <2>2. DOMAIN nodes = 1 .. Len(nodes) /\ Len(nodes) \in Nat
    BY <2>1
  <2>3. IsFiniteSet(DOMAIN nodes)
    BY <2>2, FS_Interval
  <2>4. f \in Surjection(DOMAIN nodes, IdsOf(nodes))
    BY DEF Surjection, IdsOf
  <2>5. IsFiniteSet(IdsOf(nodes))
    BY <2>3, <2>4, FS_Surjection
  <2> QED
    BY <2>5 DEF nodes
<1> HIDE DEF ids, len
<1>4. IsFiniteSet(all)
  <2> DEFINE g == [n \in 1 .. len |-> ids(n)]
  <2>1. g \in Surjection(1 .. len, all)
    BY DEF Surjection
  <2>2. IsFiniteSet(1 .. len)
    BY <1>2, FS_Interval
  <2> HIDE DEF g, all
  <2> QED
    BY <2>1, <2>2, FS_Surjection
<1>5. \A T \in all : IsFiniteSet(T)
  BY <1>3
<1> HIDE DEF all
<1> QED
  BY <1>1, <1>4, <1>5, FS_UNION

\* A box has finitely many options.
LEMMA OptionsAreFinite ==
    ASSUME catalog.from \in Seq(DOMAIN Crawled), NEW box
    PROVE  IsFiniteSet(BoxOptions(box))
<1> DEFINE from == ToSet(catalog.from)
           options(n) == CatalogOptions(Snapshots[n], box)
           all == {options(n) : n \in from}
<1>1. BoxOptions(box) = UNION all
  BY DEF BoxOptions
<1>2. ASSUME NEW n \in from PROVE IsFiniteSet(options(n))
  <2>1. n \in DOMAIN Crawled
    BY DEF ToSet
  <2>2. IsFiniteSet(DOMAIN Snapshots[n].index.types)
    BY <2>1, PanelSnapshot, IdsAreFinite
  <2>3. options(n) \subseteq DOMAIN Snapshots[n].index.types
    BY DEF CatalogOptions
  <2> HIDE DEF options
  <2> QED
    BY <2>2, <2>3, FS_Subset
<1> HIDE DEF options
<1>3. IsFiniteSet(from)
  <2>1. DOMAIN catalog.from = 1 .. Len(catalog.from) /\ Len(catalog.from) \in Nat
    OBVIOUS
  <2>2. IsFiniteSet(DOMAIN catalog.from)
    BY <2>1, FS_Interval
  <2> DEFINE f == [i \in DOMAIN catalog.from |-> catalog.from[i]]
  <2>3. f \in Surjection(DOMAIN catalog.from, from)
    BY DEF Surjection, ToSet
  <2> HIDE DEF f, from
  <2> QED
    BY <2>2, <2>3, FS_Surjection
<1> HIDE DEF from
<1>4. IsFiniteSet(all)
  <2> DEFINE g == [n \in from |-> options(n)]
  <2>1. g \in Surjection(from, all)
    BY DEF Surjection
  <2> HIDE DEF g, all
  <2> QED
    BY <1>3, <2>1, FS_Surjection
<1>5. \A T \in all : IsFiniteSet(T)
  BY <1>2
<1> HIDE DEF all
<1> QED
  BY <1>1, <1>4, <1>5, FS_UNION

\* What a box lists is of its options; for an empty text it is all of them, or the first of them.
LEMMA ListedOptions ==
    ASSUME NEW options \in SUBSET Nat, IsFiniteSet(options), NEW text
    PROVE  /\ Listed(text, options) \subseteq options
           /\ text = <<>> => \A id \in options \ Listed(text, options) : LeavesOut(id, Listed(text, options))
<1>1. CASE ~typing
  BY <1>1 DEF Listed
<1>2. CASE typing
  <2> DEFINE matching == {id \in options : MatchesOption(id, ActiveToken(text))}
  <2>1. Listed(text, options) = FirstOf(matching, MaxFiltered)
    BY <1>2, Zenon DEF Listed, FirstOf
  <2>2. matching \in SUBSET options
    OBVIOUS
  <2>3. text = <<>> => matching = options
    BY DEF MatchesOption, ActiveToken
  <2> HIDE DEF matching
  <2>4. matching \in SUBSET Nat /\ IsFiniteSet(matching)
    BY <2>2, FS_Subset
  <2>5. /\ FirstOf(matching, MaxFiltered) \subseteq matching
        /\ \A id \in matching \ FirstOf(matching, MaxFiltered) :
              /\ Cardinality(FirstOf(matching, MaxFiltered)) = MaxFiltered
              /\ \A y \in FirstOf(matching, MaxFiltered) : y < id
    BY <2>4, FirstMembers, PanelAssumption
  <2> QED
    BY <1>2, <2>1, <2>2, <2>3, <2>5 DEF LeavesOut
<1> QED
  BY <1>1, <1>2

\* Suggestions that have been narrowed lead to cards when they are picked, and with all abilities
\* asked for an empty box leaves out only what leads to none, or is past the end of a full list:
\* for every index, panel and history, whatever is typed, and whichever of the two ways the id
\* gets into the text.
THEOREM PickLeadsHolds == PanelSpec => []PickLeads
<1>1. PanelInv => PickLeads
  <2> SUFFICES ASSUME PanelInv, focus # NoBox, Status(App, Query(panel)) = 200, ~EditsAnother(panel, focus),
                      focus.region # <<>> => panel.effects[focus.region[1]].count = 1
               PROVE  /\ \A id \in Suggestions(panel, focus) : SearchLeads(Selected(panel, focus, id))
                      /\ panel.mode = "and" /\ TextOf(panel, focus) = <<>> /\ Sendable(panel) =>
                            \A id \in BoxOptions(focus) \ Suggestions(panel, focus) :
                                SearchLeads(Selected(panel, focus, id))
                                    => LeavesOut(id, Suggestions(panel, focus))
    BY DEF PickLeads
  <2> DEFINE offered == Offered(App, Query(panel), focus.kind, Editing(panel, focus))
             options == BoxOptions(focus) \cap offered
             text == TextOf(panel, focus)
  <2>1. Suggestions(panel, focus) = Listed(text, options)
    BY DEF Suggestions
  <2>2. panel \in Panels /\ focus \in Boxes(panel) /\ BoxOptions(focus) \in SUBSET Nat
    BY OptionsAreNumbers DEF PanelInv
  <2>3. ASSUME NEW id \in BoxOptions(focus)
        PROVE  /\ id \in offered => SearchLeads(Selected(panel, focus, id))
               /\ id \notin offered /\ panel.mode = "and" /\ text = <<>> /\ Sendable(panel)
                        => ~SearchLeads(Selected(panel, focus, id))
    BY <2>2, PickedLeads
  <2>4. /\ Listed(text, options) \subseteq options
        /\ text = <<>> => \A id \in options \ Listed(text, options) : LeavesOut(id, Listed(text, options))
    <3>1. options \in SUBSET Nat /\ options \in SUBSET BoxOptions(focus)
      BY <2>2
    <3>2. IsFiniteSet(BoxOptions(focus))
      BY OptionsAreFinite DEF PanelInv
    <3> HIDE DEF options, text
    <3>3. IsFiniteSet(options)
      BY <3>1, <3>2, FS_Subset
    <3> QED
      BY <3>1, <3>3, ListedOptions
  <2> HIDE DEF offered, text
  <2> QED
    BY <2>1, <2>3, <2>4 DEF text
<1> QED
  BY <1>1, PanelInvHolds, PTL
==============================================================================
