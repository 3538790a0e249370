---------------------------- MODULE CatalogProofs ----------------------------
(***************************************************************************)
(* Proofs about Catalog.  The inductive invariant says who owns a card:    *)
(* the open family or a closed entry.  Entries are disjoint and in order,  *)
(* so two cards with one owner and one bit have one UniqueID, and the sort *)
(* makes the UniqueIDs of one run of a family strictly increase.           *)
(***************************************************************************)
EXTENDS Catalog, TLAPS

Open == current # Closed

\* Entries do not overlap, in the order they were pushed, and end below next.
Ordered ==
    /\ \A i, j \in DOMAIN families : i < j => families[i].start + families[i].max <= families[j].start
    /\ \A i \in DOMAIN families : families[i].start + families[i].max <= next

OwnedByOpen(c) ==
    /\ Open
    /\ c.path.family = current.family
    /\ c.path.uid <= current.max
    /\ c.bit = BitOf(current, c.path.uid)

OwnedByEntry(c, i) ==
    /\ c.path.family = families[i].family
    /\ c.path.uid <= families[i].max
    /\ c.bit = families[i].start + c.path.uid - 1

Owned == \A c \in cards : OwnedByOpen(c) \/ \E i \in DOMAIN families : OwnedByEntry(c, i)

\* The open family starts at next, and its last card has its largest UniqueID.
OpenFamily ==
    Open => /\ current.start = next
            /\ current.last = current.max
            /\ \E c \in cards : c.path.family = current.family /\ c.path.uid = current.last

\* Cards come in the order of sort_key.
Sorted == \A p \in pending, c \in cards : ~Before(p, c.path)

\* While the open family fits in the bit space no two cards have one bit.
Separate == NextStart <= MaxBit => \A c, d \in cards : c.bit = d.bit => c = d

CatalogInv ==
    /\ TypeOK
    /\ Ordered
    /\ Owned
    /\ OpenFamily
    /\ Sorted
    /\ Separate
    /\ pc = "written" => current = Closed

\* Families are opened in the order of their ranks, and one with a number of its own once.
RankedInv ==
    /\ \A i, j \in DOMAIN families :
            i < j => /\ Rank[families[i].family] <= Rank[families[j].family]
                     /\ OwnNumber(families[i].family) => families[i].family # families[j].family
    /\ Open => \A i \in DOMAIN families :
                    /\ Rank[families[i].family] <= Rank[current.family]
                    /\ OwnNumber(current.family) => families[i].family # current.family
    /\ pc = "indexing" /\ ~Open => families = <<>>

(***************************************************************************)
(* Facts about one family                                                  *)
(***************************************************************************)
\* The type of the open family.
LEMMA OpenType ==
    ASSUME TypeOK, Open
    PROVE  /\ current.family \in Families /\ current.family # NoFamily
           /\ current.start \in 0 .. MaxBit /\ current.count \in Nat
           /\ current.max \in Uids /\ current.last \in Uids
           /\ current.max \in 1 .. MaxBit
           /\ NextStart = next + current.max /\ next \in 0 .. MaxBit
<1>1. current \in [family : Families, start : 0 .. MaxBit, max : Uids, count : Nat, last : Uids]
  BY DEF TypeOK, Open
<1> QED
  BY <1>1, CatalogAssumption DEF TypeOK, NextStart

\* Within the bit space the sum does not wrap, and wrapped or not it is a u32.
LEMMA BitOfFits ==
    ASSUME NEW e, e.start \in 0 .. MaxBit, NEW uid \in 1 .. MaxBit
    PROVE  /\ BitOf(e, uid) \in 0 .. MaxBit
           /\ e.start + uid - 1 <= MaxBit => BitOf(e, uid) = e.start + uid - 1
BY MaxBitAssumption DEF BitOf, U32

\* finalize_current pushes at most one entry, the open family's, after the others.
LEMMA FinalizedFacts ==
    ASSUME TypeOK
    PROVE  /\ Finalized \in Seq(Entry)
           /\ ~Open => Finalized = families
           /\ Open => /\ DOMAIN Finalized = DOMAIN families \cup {Len(families) + 1}
                      /\ \A i \in DOMAIN families : Finalized[i] = families[i] /\ i < Len(families) + 1
                      /\ Finalized[Len(families) + 1] =
                            [set |-> Set, family |-> current.family, start |-> current.start,
                             max |-> current.max, count |-> current.count]
<1>1. CASE ~Open
  BY <1>1 DEF Finalized, Open, TypeOK
<1>2. CASE Open
  <2> DEFINE e == [set |-> Set, family |-> current.family, start |-> current.start,
                   max |-> current.max, count |-> current.count]
  <2>1. e \in Entry
    BY <1>2, OpenType DEF Entry
  <2>2. families \in Seq(Entry) /\ Finalized = Append(families, e)
    BY <1>2 DEF Finalized, Open, TypeOK
  <2> HIDE DEF e
  <2>3. Finalized \in Seq(Entry) /\ Len(Finalized) = Len(families) + 1 /\ Len(families) \in Nat
    BY <2>1, <2>2
  <2>4. DOMAIN families = 1 .. Len(families) /\ DOMAIN Finalized = 1 .. Len(families) + 1
    BY <2>2, <2>3
  <2>5. \A i \in DOMAIN families : Finalized[i] = families[i] /\ i < Len(families) + 1
    BY <2>1, <2>2, <2>3, <2>4
  <2>6. Finalized[Len(families) + 1] = e
    BY <2>1, <2>2, <2>3
  <2> QED
    BY <1>2, <2>3, <2>4, <2>5, <2>6 DEF e
<1> QED
  BY <1>1, <1>2

\* Types of the entries.
LEMMA EntryType ==
    ASSUME TypeOK, NEW i \in DOMAIN families
    PROVE  /\ families[i].set = Set /\ families[i].family \in Families
           /\ families[i].start \in 0 .. MaxBit /\ families[i].max \in 1 .. MaxBit
           /\ i \in Nat
<1>1. families[i] \in Entry /\ i \in Nat
  BY DEF TypeOK
<1> QED
  BY <1>1, CatalogAssumption DEF Entry

\* Closing the open family leaves the entries in order and every card in an entry, below
\* the next start.
LEMMA Closing ==
    ASSUME CatalogInv, NextStart <= MaxBit, families' = Finalized, next' = NextStart
    PROVE  /\ Ordered'
           /\ families' \in Seq(Entry) /\ next' \in 0 .. MaxBit
           /\ \A c \in cards : \E i \in DOMAIN families' :
                /\ c.path.family = families'[i].family
                /\ c.path.uid <= families'[i].max
                /\ c.bit = families'[i].start + c.path.uid - 1
           /\ \A c \in cards : c.bit < next'
           /\ \A c, d \in cards : c.bit = d.bit => c = d
<1> USE DEF CatalogInv
<1>1. families \in Seq(Entry) /\ cards \subseteq [bit : 0 .. MaxBit, path : Path] /\ next \in 0 .. MaxBit
  BY DEF TypeOK
<1>2. \A c \in cards : c.path.uid \in 1 .. MaxBit /\ c.bit \in 0 .. MaxBit
  BY <1>1, CatalogAssumption DEF Path
<1>3. \A c, d \in cards : c.bit = d.bit => c = d
  BY DEF Separate
<1>4. CASE ~Open
  <2>1. families' = families /\ NextStart = next
    BY <1>4, <1>1, FinalizedFacts DEF Open, NextStart, Closed
  <2>2. Ordered'
    BY <2>1 DEF Ordered
  <2>3. \A c \in cards : \E i \in DOMAIN families : OwnedByEntry(c, i)
    BY <1>4 DEF Owned, OwnedByOpen
  <2>4. \A c \in cards : c.bit < next
    <3> TAKE c \in cards
    <3>1. PICK i \in DOMAIN families : OwnedByEntry(c, i)
      BY <2>3
    <3> QED
      BY <3>1, <1>1, <1>2, EntryType DEF OwnedByEntry, Ordered
  <2> QED
    BY <1>1, <1>3, <2>1, <2>2, <2>3, <2>4 DEF OwnedByEntry
<1>5. CASE Open
  <2> DEFINE n == Len(families) + 1
  <2>1. /\ current.max \in 1 .. MaxBit /\ next' = next + current.max /\ current.start = next
        /\ next' \in 0 .. MaxBit
    BY <1>5, <1>1, OpenType DEF OpenFamily
  <2>2. /\ families' \in Seq(Entry) /\ DOMAIN families' = DOMAIN families \cup {n}
        /\ \A i \in DOMAIN families : families'[i] = families[i] /\ i < n
        /\ families'[n].start = next /\ families'[n].max = current.max
        /\ families'[n].family = current.family
    BY <1>5, <2>1, FinalizedFacts
  <2>3. \A i \in DOMAIN families : families[i].start \in Nat /\ families[i].max \in Nat /\ i \in Nat
    BY EntryType
  <2>4. n \in Nat
    BY <1>1
  <2> HIDE DEF n
  <2>5. Ordered'
    BY <1>1, <2>1, <2>2, <2>3, <2>4 DEF Ordered
  <2>6. \A c \in cards : /\ c.bit < next'
                         /\ \E i \in DOMAIN families' :
                                /\ c.path.family = families'[i].family
                                /\ c.path.uid <= families'[i].max
                                /\ c.bit = families'[i].start + c.path.uid - 1
    <3> TAKE c \in cards
    <3>1. CASE OwnedByOpen(c)
      <4>1. BitOf(current, c.path.uid) = next + c.path.uid - 1
        <5>1. current.start \in 0 .. MaxBit /\ c.path.uid \in 1 .. MaxBit
          BY <1>1, <1>2, <2>1
        <5>2. current.start + c.path.uid - 1 <= MaxBit
          BY <3>1, <1>1, <1>2, <2>1, MaxBitAssumption DEF OwnedByOpen
        <5> QED
          BY <5>1, <5>2, <2>1, BitOfFits
      <4> QED
        BY <3>1, <4>1, <1>1, <1>2, <2>1, <2>2 DEF OwnedByOpen
    <3>2. CASE \E i \in DOMAIN families : OwnedByEntry(c, i)
      <4>1. PICK i \in DOMAIN families : OwnedByEntry(c, i)
        BY <3>2
      <4>2. families[i].start + families[i].max <= next
        BY DEF Ordered
      <4>3. families'[i] = families[i] /\ i \in DOMAIN families'
        BY <2>2
      <4>4. c.bit < next'
        BY <4>1, <4>2, <1>1, <1>2, <2>1, <2>3 DEF OwnedByEntry
      <4>5. \E j \in DOMAIN families' : /\ c.path.family = families'[j].family
                                        /\ c.path.uid <= families'[j].max
                                        /\ c.bit = families'[j].start + c.path.uid - 1
        BY <4>1, <4>3 DEF OwnedByEntry
      <4> QED
        BY <4>4, <4>5
    <3> QED
      BY <3>1, <3>2 DEF Owned
  <2> QED
    BY <1>3, <2>1, <2>2, <2>5, <2>6
<1> QED
  BY <1>4, <1>5

(***************************************************************************)
(* One step                                                                *)
(***************************************************************************)
LEMMA InitInv == Init => CatalogInv
<1> SUFFICES ASSUME Init PROVE CatalogInv
  OBVIOUS
<1>1. /\ pending \subseteq Path /\ current = Closed /\ next = 0 /\ families = <<>>
      /\ cards = {} /\ pc = "indexing"
  BY DEF Init, Crawled
<1>2. TypeOK
  BY <1>1, MaxBitAssumption DEF TypeOK
<1>3. Ordered /\ Owned /\ OpenFamily /\ Sorted /\ Separate
  BY <1>1 DEF Ordered, Owned, OpenFamily, Sorted, Separate, Open
<1> QED
  BY <1>1, <1>2, <1>3 DEF CatalogInv

\* The next card of the open family has a UniqueID above all of them.
LEMMA NextUid ==
    ASSUME CatalogInv, NEW p \in pending, IndexCard(p), current.family = p.family
    PROVE  /\ Open /\ current.max < p.uid /\ current' = [family |-> p.family, start |-> current.start, count |-> current.count + 1,
                          max |-> p.uid, last |-> p.uid]
           /\ families' = families /\ next' = next
           /\ cards' = cards \cup {RecordOf(current, p)}
<1> USE DEF CatalogInv
<1>1. p \in Path /\ p.family \in Families /\ p.uid \in 1 .. MaxBit
  BY CatalogAssumption DEF TypeOK, Path
<1>2. Open
  BY <1>1, CatalogAssumption DEF Open, Closed
<1>3. current.last = current.max /\ current.max \in 1 .. MaxBit
  BY <1>2, OpenType DEF OpenFamily
<1>4. PICK c \in cards : c.path.family = current.family /\ c.path.uid = current.last
  BY <1>2 DEF OpenFamily
<1>5. ~Before(p, c.path)
  BY DEF Sorted
<1>6. ~(p.uid < current.last)
  BY <1>4, <1>5 DEF Before
<1>7. current.last # p.uid /\ families' = families /\ next' = next
      /\ cards' = cards \cup {RecordOf(current, p)}
      /\ current' = [family |-> p.family, start |-> current.start, count |-> current.count + 1,
                     max |-> IF p.uid > current.max THEN p.uid ELSE current.max, last |-> p.uid]
  BY DEF IndexCard
<1>8. current.max < p.uid
  BY <1>1, <1>3, <1>6, <1>7
<1>9. current' = [family |-> p.family, start |-> current.start, count |-> current.count + 1,
                     max |-> p.uid, last |-> p.uid]
  BY <1>1, <1>3, <1>7, <1>8
<1> QED
  BY <1>2, <1>7, <1>8, <1>9

\* The files keep coming in order.
LEMMA SortedStep ==
    ASSUME CatalogInv, NEW p \in pending, IndexCard(p)
    PROVE  Sorted'
<1>1. PICK b : cards' = cards \cup {[bit |-> b, path |-> p]}
  BY DEF IndexCard, RecordOf
<1>2. pending' = pending \ {p} /\ \A q \in pending : ~Before(q, p)
  BY DEF IndexCard
<1>3. \A q \in pending, c \in cards : ~Before(q, c.path)
  BY DEF CatalogInv, Sorted
<1>4. \A q \in pending', c \in cards' : ~Before(q, c.path)
  BY <1>1, <1>2, <1>3
<1>5. \A q, d : Before(q, d)' <=> Before(q, d)
  BY DEF Before
<1> QED
  BY <1>4 DEF Sorted, Before

\* A card of the open family.
LEMMA SameFamily ==
    ASSUME CatalogInv, NEW p \in pending, IndexCard(p), current.family = p.family
    PROVE  CatalogInv'
<1> USE DEF CatalogInv
<1>1. /\ Open /\ current.max < p.uid
      /\ current' = [family |-> p.family, start |-> current.start, count |-> current.count + 1,
                     max |-> p.uid, last |-> p.uid]
      /\ families' = families /\ next' = next /\ cards' = cards \cup {RecordOf(current, p)}
  BY NextUid
<1>2. /\ p \in Path /\ p.uid \in Uids /\ p.uid \in 1 .. MaxBit /\ p.family \in Families
      /\ cards \subseteq [bit : 0 .. MaxBit, path : Path] /\ next \in 0 .. MaxBit
      /\ families \in Seq(Entry)
  BY CatalogAssumption DEF TypeOK, Path
<1>3. /\ current \in [family : Families, start : 0 .. MaxBit, max : Uids, count : Nat, last : Uids]
      /\ current.start = next /\ current.max \in 1 .. MaxBit
  BY <1>1, OpenType DEF OpenFamily, TypeOK, Open
<1>4. pending' = pending \ {p} /\ pc = "indexing" /\ pc' = pc
  BY DEF IndexCard
<1>5. /\ current' \in [family : Families, start : 0 .. MaxBit, max : Uids, count : Nat, last : Uids]
      /\ current'.family = p.family /\ current'.start = next /\ current'.max = p.uid /\ current'.last = p.uid
  <2>1. current.count + 1 \in Nat
    BY <1>3
  <2> QED
    BY <1>1, <1>2, <1>3, <2>1
<1> DEFINE r == RecordOf(current, p)
<1>6. r.bit = BitOf(current, p.uid) /\ r.path = p /\ r \in [bit : 0 .. MaxBit, path : Path]
  BY <1>2, <1>3, BitOfFits DEF RecordOf
<1> HIDE DEF r
<1>7. TypeOK'
  BY <1>1, <1>2, <1>4, <1>5, <1>6 DEF TypeOK, r
<1>8. Ordered'
  BY <1>1 DEF Ordered
<1>9. Open'
  BY <1>5, <1>2, CatalogAssumption DEF Open, Closed
<1>10. \A uid : BitOf(current', uid) = BitOf(current, uid)
  BY <1>3, <1>5 DEF BitOf
<1>11. \A c \in cards : c.path.uid \in 1 .. MaxBit /\ c.bit \in 0 .. MaxBit
  BY <1>2, CatalogAssumption DEF Path
<1>12. Owned'
  <2> SUFFICES ASSUME NEW c \in cards'
               PROVE  OwnedByOpen(c)' \/ \E i \in DOMAIN families' : OwnedByEntry(c, i)'
    BY DEF Owned
  <2>1. CASE c \in cards /\ OwnedByOpen(c)
    BY <2>1, <1>1, <1>2, <1>3, <1>5, <1>9, <1>10, <1>11 DEF OwnedByOpen
  <2>2. CASE c \in cards /\ \E i \in DOMAIN families : OwnedByEntry(c, i)
    BY <2>2, <1>1 DEF OwnedByEntry
  <2>3. CASE c = r
    BY <2>3, <1>2, <1>5, <1>6, <1>9, <1>10 DEF OwnedByOpen
  <2> QED
    BY <2>1, <2>2, <2>3, <1>1 DEF Owned, r
<1>13. OpenFamily'
  BY <1>1, <1>5, <1>6 DEF OpenFamily, r
<1>14. Sorted'
  BY SortedStep
<1>15. Separate'
  <2> SUFFICES ASSUME NextStart' <= MaxBit PROVE \A c, d \in cards' : c.bit = d.bit => c = d
    BY DEF Separate
  <2>1. next + p.uid <= MaxBit /\ NextStart <= MaxBit
    BY <1>1, <1>2, <1>3, <1>5, MaxBitAssumption DEF NextStart
  <2>2. \A c, d \in cards : c.bit = d.bit => c = d
    BY <2>1 DEF Separate
  <2>3. r.bit = next + p.uid - 1
    <3>1. current.start \in 0 .. MaxBit /\ current.start + p.uid - 1 <= MaxBit
      BY <1>2, <1>3, <2>1, MaxBitAssumption
    <3> QED
      BY <3>1, <1>2, <1>3, <1>6, BitOfFits
  <2>4. \A c \in cards : c.bit < r.bit
    <3> TAKE c \in cards
    <3>1. CASE OwnedByOpen(c)
      <4>1. c.path.uid <= current.max /\ c.bit = BitOf(current, c.path.uid)
        BY <3>1 DEF OwnedByOpen
      <4>2. current.start + c.path.uid - 1 <= MaxBit /\ current.start \in 0 .. MaxBit
        BY <4>1, <1>1, <1>2, <1>3, <1>11, <2>1, MaxBitAssumption
      <4>3. c.bit = current.start + c.path.uid - 1
        BY <4>1, <4>2, <1>11, BitOfFits
      <4> QED
        BY <4>1, <4>3, <1>1, <1>2, <1>3, <1>11, <2>3
    <3>2. CASE \E i \in DOMAIN families : OwnedByEntry(c, i)
      <4>1. PICK i \in DOMAIN families : OwnedByEntry(c, i)
        BY <3>2
      <4> QED
        BY <4>1, <1>2, <1>11, <2>3, EntryType DEF OwnedByEntry, Ordered
    <3> QED
      BY <3>1, <3>2 DEF Owned
  <2>5. r.bit \in Nat /\ \A c \in cards : c.bit \in Nat
    BY <1>6, <1>11
  <2> QED
    BY <2>2, <2>4, <2>5, <1>1 DEF r
<1>16. pc' # "written"
  BY <1>4
<1> QED
  BY <1>7, <1>8, <1>12, <1>13, <1>14, <1>15, <1>16

\* The first card of a family closes the one before it.
LEMMA NewFamily ==
    ASSUME CatalogInv, NEW p \in pending, IndexCard(p), current.family # p.family
    PROVE  CatalogInv'
<1> USE DEF CatalogInv
<1>1. /\ families' = Finalized /\ next' = NextStart /\ NextStart <= MaxBit
      /\ cards' = cards \cup {RecordOf(Opened(p.family), p)}
      /\ pending' = pending \ {p} /\ pc = "indexing" /\ pc' = pc
      /\ current' = [family |-> p.family, start |-> Opened(p.family).start,
                     count |-> Opened(p.family).count + 1,
                     max |-> IF p.uid > Opened(p.family).max THEN p.uid ELSE Opened(p.family).max,
                     last |-> p.uid]
  BY DEF IndexCard
<1>2. /\ p \in Path /\ p.uid \in Uids /\ p.uid \in 1 .. MaxBit /\ p.family \in Families
      /\ cards \subseteq [bit : 0 .. MaxBit, path : Path]
  BY CatalogAssumption DEF TypeOK, Path
<1>3. /\ Ordered' /\ families' \in Seq(Entry) /\ next' \in 0 .. MaxBit
      /\ \A c \in cards : c.bit < next'
      /\ \A c, d \in cards : c.bit = d.bit => c = d
  BY <1>1, Closing
<1>4. \A c \in cards : \E i \in DOMAIN families' : OwnedByEntry(c, i)'
  BY <1>1, Closing DEF OwnedByEntry
<1>5. /\ current' = [family |-> p.family, start |-> next', count |-> 1, max |-> p.uid, last |-> p.uid]
      /\ Opened(p.family).start = next'
  <2>1. Opened(p.family).start = next' /\ Opened(p.family).max = 0 /\ Opened(p.family).count = 0
    BY <1>1 DEF Opened
  <2> QED
    BY <1>1, <1>2, <2>1
<1> DEFINE r == RecordOf(Opened(p.family), p)
<1>6. r.bit = BitOf(current', p.uid) /\ r.path = p /\ r \in [bit : 0 .. MaxBit, path : Path]
  BY <1>2, <1>3, <1>5, BitOfFits DEF RecordOf, BitOf
<1>6a. cards' = cards \cup {r}
  BY <1>1
<1> HIDE DEF r
<1>7. TypeOK'
  BY <1>1, <1>2, <1>3, <1>5, <1>6, <1>6a DEF TypeOK
<1>8. Open'
  BY <1>2, <1>5, CatalogAssumption DEF Open, Closed
<1>9. Owned'
  BY <1>2, <1>4, <1>5, <1>6, <1>8, <1>6a DEF Owned, OwnedByOpen
<1>10. OpenFamily'
  BY <1>5, <1>6, <1>6a DEF OpenFamily
<1>11. Sorted'
  BY SortedStep
<1>12. Separate'
  <2> SUFFICES ASSUME NextStart' <= MaxBit PROVE \A c, d \in cards' : c.bit = d.bit => c = d
    BY DEF Separate
  <2>1. next' + p.uid <= MaxBit
    BY <1>5 DEF NextStart
  <2>2. current'.start \in 0 .. MaxBit /\ current'.start + p.uid - 1 <= MaxBit
    BY <2>1, <1>2, <1>3, <1>5, MaxBitAssumption
  <2>3. r.bit = next' + p.uid - 1
    BY <1>2, <1>5, <1>6, <2>2, BitOfFits
  <2>4. \A c \in cards : c.bit < r.bit /\ c.bit \in Nat /\ r.bit \in Nat
    BY <1>2, <1>3, <1>6, <2>3
  <2> QED
    BY <2>4, <1>3, <1>6a
<1>13. pc' # "written"
  BY <1>1
<1> QED
  BY <1>3, <1>7, <1>9, <1>10, <1>11, <1>12, <1>13

\* Every step of the build.
LEMMA StepInv == CatalogInv /\ [Next]_vars => CatalogInv'
<1> SUFFICES ASSUME CatalogInv, [Next]_vars PROVE CatalogInv'
  OBVIOUS
<1> USE DEF CatalogInv
<1>1. ASSUME NEW p \in pending, IndexCard(p) PROVE CatalogInv'
  BY <1>1, SameFamily, NewFamily
<1>2. CASE Abort \/ UNCHANGED vars
  <2>1. UNCHANGED <<pending, current, next, families, cards>>
        /\ (pc' = "failed" \/ (pc' = pc))
    BY <1>2 DEF Abort, vars
  <2>2. TypeOK' /\ Ordered' /\ OpenFamily' /\ Sorted' /\ Separate'
    BY <2>1 DEF TypeOK, Ordered, OpenFamily, Open, Sorted, Separate, NextStart, Path, Before
  <2>3. Owned'
    BY <2>1 DEF Owned, OwnedByOpen, OwnedByEntry, Open, BitOf
  <2> QED
    BY <2>1, <2>2, <2>3
<1>3. CASE Write
  <2>1. CASE NextStart > MaxBit
    <3>1. UNCHANGED <<pending, current, next, families, cards>> /\ pc' = "failed"
      BY <1>3, <2>1 DEF Write
    <3>2. TypeOK' /\ Ordered' /\ OpenFamily' /\ Sorted' /\ Separate'
      BY <3>1 DEF TypeOK, Ordered, OpenFamily, Open, Sorted, Separate, NextStart, Path, Before
    <3>3. Owned'
      BY <3>1 DEF Owned, OwnedByOpen, OwnedByEntry, Open, BitOf
    <3> QED
      BY <3>1, <3>2, <3>3
  <2>2. CASE ~(NextStart > MaxBit)
    <3>1. /\ families' = Finalized /\ next' = NextStart /\ current' = Closed /\ pc' = "written"
          /\ pending' = pending /\ cards' = cards
      BY <1>3, <2>2 DEF Write
    <3>2. NextStart <= MaxBit
      <4>1. NextStart \in Int
        <5>1. next \in 0 .. MaxBit /\ (~Open => current.max = 0)
          BY DEF TypeOK, Open, Closed
        <5> QED
          BY <5>1, OpenType, MaxBitAssumption DEF NextStart
      <4> QED
        BY <4>1, <2>2, MaxBitAssumption
    <3>3. /\ Ordered' /\ families' \in Seq(Entry) /\ next' \in 0 .. MaxBit
          /\ \A c, d \in cards : c.bit = d.bit => c = d
      BY <3>1, <3>2, Closing
    <3>4. \A c \in cards : \E i \in DOMAIN families' : OwnedByEntry(c, i)'
      BY <3>1, <3>2, Closing DEF OwnedByEntry
    <3>5. TypeOK' /\ Sorted' /\ Separate' /\ OpenFamily'
      BY <3>1, <3>3 DEF TypeOK, Sorted, Separate, OpenFamily, Open, Before
    <3>6. Owned'
      BY <3>1, <3>4 DEF Owned
    <3> QED
      BY <3>1, <3>3, <3>5, <3>6
  <2> QED
    BY <2>1, <2>2
<1> QED
  BY <1>1, <1>2, <1>3 DEF Next

(***************************************************************************)
(* What a written index guarantees                                         *)
(***************************************************************************)
\* CatalogInv holds of every state of a build: entries are disjoint and in order, and every
\* card indexed so far is owned by one of them or by the open family.
THEOREM CatalogInvariant == Spec => []CatalogInv
BY InitInv, StepInv, PTL DEF Spec

\* Once written, every card is owned by an entry and lies below the total span.
LEMMA WrittenOwned ==
    ASSUME CatalogInv, pc = "written"
    PROVE  /\ \A c \in cards : /\ c.bit \in 0 .. (next - 1)
                              /\ \E i \in DOMAIN families : OwnedByEntry(c, i)
           /\ \A c, d \in cards : c.bit = d.bit => c = d
           /\ next \in 0 .. MaxBit /\ Ordered
<1> USE DEF CatalogInv
<1>1. current = Closed /\ next \in 0 .. MaxBit /\ cards \subseteq [bit : 0 .. MaxBit, path : Path]
  BY DEF TypeOK
<1>2. NextStart = next
  BY <1>1 DEF NextStart, Closed
<1>3. \A c \in cards : \E i \in DOMAIN families : OwnedByEntry(c, i)
  BY <1>1 DEF Owned, OwnedByOpen, Open
<1>4. \A c \in cards : c.bit \in 0 .. (next - 1)
  <2> TAKE c \in cards
  <2>1. PICK i \in DOMAIN families : OwnedByEntry(c, i)
    BY <1>3
  <2>2. families[i].start + families[i].max <= next
    BY DEF Ordered
  <2>3. c.path.uid \in 1 .. MaxBit
    BY <1>1, CatalogAssumption DEF Path
  <2> QED
    BY <1>1, <2>1, <2>2, <2>3, EntryType DEF OwnedByEntry
<1> QED
  BY <1>1, <1>2, <1>3, <1>4 DEF Separate

\* A bit inside the span of an entry decodes to that entry.
LEMMA SpanDecodes ==
    ASSUME TypeOK, Ordered, NEW i \in DOMAIN families, NEW uid \in 1 .. families[i].max
    PROVE  Decodes(families, families[i].start + uid - 1, Ref(families[i], uid))
<1> DEFINE bit == families[i].start + uid - 1
<1>1. /\ families[i].start \in Nat /\ families[i].max \in Nat /\ i \in Nat /\ uid \in Nat
      /\ families[i].start <= bit /\ bit - families[i].start + 1 = uid
      /\ bit < families[i].start + families[i].max
  BY EntryType
<1>2. \A j \in DOMAIN families : families[j].start <= bit => j <= i
  <2> SUFFICES ASSUME NEW j \in DOMAIN families, families[j].start <= bit, ~(j <= i) PROVE FALSE
    OBVIOUS
  <2>1. j \in Nat /\ families[j].start \in Nat
    BY EntryType
  <2>2. families[i].start + families[i].max <= families[j].start
    BY <1>1, <2>1 DEF Ordered
  <2> QED
    BY <1>1, <2>1, <2>2
<1> QED
  BY <1>1, <1>2 DEF Decodes

\* No two cards of a written index share a slot of cards.bin, and all lie within it.
THEOREM SlotsAreDistinct == Spec => []SlotsDistinct
<1>1. CatalogInv => SlotsDistinct
  BY WrittenOwned DEF SlotsDistinct
<1> QED
  BY <1>1, CatalogInvariant, PTL

\* Every card's bit decodes to the reference of that card.
THEOREM EveryCardDecodes == Spec => []CardsDecode
<1>1. CatalogInv => CardsDecode
  <2> SUFFICES ASSUME CatalogInv, pc = "written", NEW c \in cards
               PROVE  Decodes(families, c.bit, RefOf(c.path))
    BY DEF CardsDecode
  <2>1. TypeOK /\ Ordered
    BY DEF CatalogInv
  <2>2. PICK i \in DOMAIN families : OwnedByEntry(c, i)
    BY WrittenOwned
  <2>3. c.path.uid \in 1 .. families[i].max
    <3>1. c.path.uid \in 1 .. MaxBit /\ families[i].max \in 1 .. MaxBit
      BY <2>1, EntryType, CatalogAssumption DEF TypeOK, Path
    <3>2. c.path.uid <= families[i].max
      BY <2>2 DEF OwnedByEntry
    <3> QED
      BY <3>1, <3>2
  <2>4. Ref(families[i], c.path.uid) = RefOf(c.path)
    BY <2>1, <2>2, EntryType DEF Ref, RefOf, OwnedByEntry
  <2> QED
    BY <2>1, <2>2, <2>3, <2>4, SpanDecodes DEF OwnedByEntry
<1> QED
  BY <1>1, CatalogInvariant, PTL

\* With UniqueIDs from 1, a reference the server resolves is the reference its bit decodes to.
THEOREM ResolutionFaithful ==
    ASSUME 0 \notin RefUids
    PROVE  Spec => []ResolvedFaithful
<1>1. CatalogInv => ResolvedFaithful
  <2> SUFFICES ASSUME CatalogInv, pc = "written", NEW f \in Families, NEW uid \in RefUids,
                      NEW bit \in 0 .. (next - 1),
                      Resolves(families, [set |-> Set, family |-> f, uid |-> uid], bit)
               PROVE  Decodes(families, bit, [set |-> Set, family |-> f, uid |-> uid])
    BY DEF ResolvedFaithful
  <2>1. TypeOK /\ Ordered /\ next \in 0 .. MaxBit
    BY WrittenOwned DEF CatalogInv
  <2>2. PICK i \in DOMAIN families : /\ families[i].family = f /\ families[i].set = Set
                                     /\ uid <= families[i].max /\ bit = BitOf(families[i], uid)
    BY DEF Resolves, Matching
  <2>3. uid \in Nat /\ uid # 0
    BY CatalogAssumption
  <2>4. families[i].start \in 0 .. MaxBit /\ families[i].max \in 1 .. MaxBit
        /\ families[i].start + families[i].max <= next
    BY <2>1, EntryType DEF Ordered
  <2>5. uid \in 1 .. families[i].max /\ uid \in 1 .. MaxBit
    BY <2>2, <2>3, <2>4, MaxBitAssumption
  <2>6. families[i].start + uid - 1 <= MaxBit
    BY <2>1, <2>4, <2>5, MaxBitAssumption
  <2>7. bit = families[i].start + uid - 1
    BY <2>2, <2>4, <2>5, <2>6, BitOfFits
  <2>8. Ref(families[i], uid) = [set |-> Set, family |-> f, uid |-> uid]
    BY <2>2 DEF Ref
  <2> QED
    BY <2>1, <2>5, <2>7, <2>8, SpanDecodes
<1> QED
  BY <1>1, CatalogInvariant, PTL

(***************************************************************************)
(* Families with a number of their own                                     *)
(***************************************************************************)
\* Closing the open family keeps the entries in the order of their ranks.
LEMMA RankedClosing ==
    ASSUME CatalogInv, RankedInv, families' = Finalized
    PROVE  /\ \A i, j \in DOMAIN families' :
                i < j => /\ Rank[families'[i].family] <= Rank[families'[j].family]
                         /\ OwnNumber(families'[i].family) => families'[i].family # families'[j].family
           /\ \A i \in DOMAIN families' :
                \/ Open /\ families'[i].family = current.family
                \/ i \in DOMAIN families /\ families'[i].family = families[i].family
<1>1. TypeOK
  BY DEF CatalogInv
<1>2. CASE ~Open
  BY <1>1, <1>2, FinalizedFacts DEF RankedInv
<1>3. CASE Open
  <2>1. Len(families) \in Nat
    BY <1>1 DEF TypeOK
  <2>2. \A i \in DOMAIN families : i \in Nat
    BY <1>1, EntryType
  <2>3. /\ DOMAIN families' = DOMAIN families \cup {Len(families) + 1}
        /\ \A i \in DOMAIN families : families'[i] = families[i] /\ i < Len(families) + 1
        /\ families'[Len(families) + 1].family = current.family
    BY <1>1, <1>3, FinalizedFacts
  <2>4. \A i \in DOMAIN families : /\ Rank[families[i].family] <= Rank[current.family]
                                   /\ OwnNumber(current.family) => families[i].family # current.family
    BY <1>3 DEF RankedInv
  <2> QED
    BY <1>3, <2>1, <2>2, <2>3, <2>4 DEF RankedInv
<1> QED
  BY <1>2, <1>3

\* A family is opened only when none of larger rank has been; one with a number of its own
\* is never opened again.
LEMMA RankedStep ==
    ASSUME CatalogInv, RankedInv, [Next]_vars
    PROVE  RankedInv'
<1>1. TypeOK
  BY DEF CatalogInv
<1>2. ASSUME NEW p \in pending, IndexCard(p), current.family # p.family PROVE RankedInv'
  <2>1. /\ families' = Finalized /\ current'.family = p.family /\ p.family \in Families
    BY <1>1, <1>2 DEF IndexCard, TypeOK, Path
  <2>2. Open => /\ Rank[current.family] <= Rank[p.family]
                /\ current.family \in Families /\ Rank[current.family] \in Nat /\ Rank[p.family] \in Nat
    <3> SUFFICES ASSUME Open
                 PROVE  /\ Rank[current.family] <= Rank[p.family] /\ current.family \in Families
                        /\ Rank[current.family] \in Nat /\ Rank[p.family] \in Nat
      OBVIOUS
    <3>1. PICK c \in cards : c.path.family = current.family
      BY DEF CatalogInv, OpenFamily
    <3>2. ~(Rank[p.family] < Rank[current.family])
      BY <3>1 DEF CatalogInv, Sorted, Before
    <3>3. current.family \in Families /\ Rank[current.family] \in Nat /\ Rank[p.family] \in Nat
      BY <1>1, <2>1, OpenType, CatalogAssumption
    <3> QED
      BY <3>2, <3>3
  <2>3. \A i \in DOMAIN families : /\ Rank[families[i].family] <= Rank[p.family]
                                   /\ OwnNumber(p.family) => families[i].family # p.family
    <3> TAKE i \in DOMAIN families
    <3>1. CASE Open
      <4>1. /\ Rank[families[i].family] \in Nat /\ families[i].family \in Families
            /\ Rank[families[i].family] <= Rank[current.family]
        BY <1>1, <3>1, EntryType, CatalogAssumption DEF RankedInv
      <4>2. Rank[families[i].family] <= Rank[p.family]
        BY <2>2, <3>1, <4>1
      <4>3. ASSUME OwnNumber(p.family), families[i].family = p.family PROVE FALSE
        <5>1. Rank[current.family] = Rank[p.family]
          BY <2>2, <3>1, <4>1, <4>3
        <5> QED
          BY <1>2, <2>2, <3>1, <4>3, <5>1 DEF OwnNumber
      <4> QED
        BY <4>2, <4>3
    <3>2. CASE ~Open
      <4>1. families = <<>>
        BY <1>2, <3>2 DEF RankedInv, IndexCard
      <4> QED
        BY <4>1
    <3> QED
      BY <3>1, <3>2
  <2>4. Open'
    BY <2>1, CatalogAssumption DEF Open, Closed
  <2>5. \A i \in DOMAIN families' : /\ Rank[families'[i].family] <= Rank[p.family]
                                    /\ OwnNumber(p.family) => families'[i].family # p.family
    BY <1>2, <2>1, <2>2, <2>3, RankedClosing
  <2> QED
    BY <2>1, <2>4, <2>5, RankedClosing DEF RankedInv, OwnNumber
<1>3. ASSUME NEW p \in pending, IndexCard(p), current.family = p.family PROVE RankedInv'
  <2>1. Open /\ families' = families /\ current'.family = current.family
    BY <1>3, NextUid
  <2>2. Open'
    BY <1>1, <2>1, OpenType DEF Open, Closed
  <2> QED
    BY <2>1, <2>2 DEF RankedInv, OwnNumber
<1>4. CASE Abort \/ UNCHANGED vars
  <2>1. UNCHANGED <<current, families>> /\ (pc' = "failed" \/ pc' = pc)
    BY <1>4 DEF Abort, vars
  <2> QED
    BY <2>1 DEF RankedInv, Open, OwnNumber
<1>5. CASE Write
  <2>1. \/ UNCHANGED <<current, families>> /\ pc' = "failed"
        \/ families' = Finalized /\ current' = Closed /\ pc' = "written"
    BY <1>5 DEF Write
  <2> QED
    BY <2>1, RankedClosing DEF RankedInv, Open, OwnNumber
<1> QED
  BY <1>2, <1>3, <1>4, <1>5 DEF Next

\* Both invariants together.
LEMMA RankedInvariant == Spec => [](CatalogInv /\ RankedInv)
<1>1. Init => RankedInv
  BY DEF Init, RankedInv, Open
<1>2. CatalogInv /\ RankedInv /\ [Next]_vars => CatalogInv' /\ RankedInv'
  BY StepInv, RankedStep
<1> QED
  BY <1>1, <1>2, InitInv, PTL DEF Spec

\* The entry of a family with a number of its own is the only one with that family.
LEMMA OneEntry ==
    ASSUME CatalogInv, RankedInv, NEW i \in DOMAIN families, NEW uid, OwnNumber(families[i].family)
    PROVE  Matching(families, [set |-> Set, family |-> families[i].family, uid |-> uid]) = {i}
<1>1. TypeOK
  BY DEF CatalogInv
<1>2. \A j \in DOMAIN families : j \in Nat /\ families[j].set = Set
  BY <1>1, EntryType
<1>3. \A j \in DOMAIN families : families[j].family = families[i].family => j = i
  BY <1>2 DEF RankedInv
<1> QED
  BY <1>2, <1>3 DEF Matching

\* Both lookups find every card of a family with a number of its own, at its bit.
THEOREM EveryCardResolves == Spec => []CardsResolve
<1>1. CatalogInv /\ RankedInv => CardsResolve
  <2> SUFFICES ASSUME CatalogInv, RankedInv, pc = "written", NEW c \in cards, OwnNumber(c.path.family)
               PROVE  /\ LooksUp(families, RefOf(c.path), c.bit)
                      /\ Resolves(families, RefOf(c.path), c.bit)
    BY DEF CardsResolve
  <2>1. TypeOK /\ Ordered /\ next \in 0 .. MaxBit
    BY WrittenOwned DEF CatalogInv
  <2>2. PICK i \in DOMAIN families : OwnedByEntry(c, i)
    BY WrittenOwned
  <2>3. Matching(families, RefOf(c.path)) = {i}
    BY <2>2, OneEntry DEF OwnedByEntry, RefOf
  <2>4. /\ c.path.uid \in 1 .. MaxBit /\ i \in Nat
        /\ families[i].start \in 0 .. MaxBit /\ families[i].max \in 1 .. MaxBit
        /\ families[i].start + families[i].max <= next
    BY <2>1, EntryType, CatalogAssumption DEF TypeOK, Path, Ordered
  <2>5. RefOf(c.path).uid = c.path.uid /\ c.path.uid <= families[i].max
        /\ c.bit = families[i].start + c.path.uid - 1
    BY <2>2 DEF RefOf, OwnedByEntry
  <2>6. families[i].start + c.path.uid - 1 <= MaxBit
    BY <2>1, <2>4, <2>5, MaxBitAssumption
  <2>7. c.bit = BitOf(families[i], c.path.uid)
    BY <2>4, <2>5, <2>6, BitOfFits
  <2> QED
    BY <2>3, <2>4, <2>5, <2>7 DEF LooksUp, Resolves
<1> QED
  BY <1>1, RankedInvariant, PTL

\* Every card of a written index is found by its bit, and by its reference where that is unambiguous.
THEOREM EveryCardFound == Spec => []CardsFound
<1>1. CardsDecode /\ CardsResolve => CardsFound
  BY DEF CardsFound
<1> QED
  BY <1>1, EveryCardDecodes, EveryCardResolves, PTL

\* No reference of a family with a number of its own is indexed twice.
THEOREM NoDuplicateReference == Spec => []DuplicatesRejected
<1>1. CatalogInv /\ RankedInv => DuplicatesRejected
  <2> SUFFICES ASSUME CatalogInv, RankedInv, pc = "written", NEW c \in cards, NEW d \in cards,
                      OwnNumber(c.path.family), RefOf(c.path) = RefOf(d.path)
               PROVE  c = d
    BY DEF DuplicatesRejected
  <2>1. PICK i \in DOMAIN families : OwnedByEntry(c, i)
    BY WrittenOwned
  <2>2. PICK j \in DOMAIN families : OwnedByEntry(d, j)
    BY WrittenOwned
  <2>3. c.path.family = d.path.family /\ c.path.uid = d.path.uid
    BY DEF RefOf
  <2>4. TypeOK
    BY DEF CatalogInv
  <2>5. families[j].set = Set /\ families[i].family = families[j].family
    BY <2>1, <2>2, <2>3, <2>4, EntryType DEF OwnedByEntry
  <2>6. j \in Matching(families, [set |-> Set, family |-> families[i].family, uid |-> 1])
    BY <2>5 DEF Matching
  <2>7. i = j
    BY <2>1, <2>6, OneEntry DEF OwnedByEntry
  <2>8. c.bit = d.bit
    BY <2>1, <2>2, <2>3, <2>7 DEF OwnedByEntry
  <2> QED
    BY <2>8, WrittenOwned
<1> QED
  BY <1>1, RankedInvariant, PTL

(***************************************************************************)
(* What the readers of a catalog take for granted                          *)
(***************************************************************************)
\* Families that are closed leave no bit below next to no family.
Filled == \A bit \in 0 .. next - 1 : \E i \in DOMAIN families : bit \in SpanOf(families[i])

\* Closing the open family keeps it so: its entry begins at next.
LEMMA FilledClosing ==
    ASSUME CatalogInv, Filled, families' = Finalized, next' = NextStart
    PROVE  Filled'
<1>1. TypeOK /\ OpenFamily
  BY DEF CatalogInv
<1>2. CASE ~Open
  <2>1. next' = next /\ families' = families
    <3>1. current.max = 0 /\ next \in Nat
      BY <1>1, <1>2 DEF TypeOK, Open, Closed
    <3> QED
      BY <1>1, <1>2, <3>1, FinalizedFacts DEF NextStart
  <2> QED
    BY <2>1 DEF Filled
<1>3. CASE Open
  <2> DEFINE k == Len(families) + 1
  <2>1. /\ DOMAIN families' = DOMAIN families \cup {k}
        /\ \A i \in DOMAIN families : families'[i] = families[i]
        /\ families'[k].start = current.start /\ families'[k].max = current.max
    BY <1>1, <1>3, FinalizedFacts
  <2>2. /\ current.start = next /\ next' = next + current.max
        /\ next \in Nat /\ current.max \in Nat
    BY <1>1, <1>3, OpenType DEF OpenFamily
  <2> HIDE DEF k
  <2>3. SpanOf(families'[k]) = next .. next + current.max - 1
    BY <2>1, <2>2 DEF SpanOf
  <2> SUFFICES ASSUME NEW bit \in 0 .. next' - 1 PROVE \E i \in DOMAIN families' : bit \in SpanOf(families'[i])
    BY DEF Filled
  <2>4. CASE bit \in 0 .. next - 1
    BY <2>1, <2>4 DEF Filled
  <2>5. CASE bit \notin 0 .. next - 1
    <3>1. bit \in next .. next + current.max - 1
      BY <2>2, <2>5
    <3> QED
      BY <2>1, <2>3, <3>1
  <2> QED
    BY <2>4, <2>5
<1> QED
  BY <1>2, <1>3

LEMMA FilledStep ==
    ASSUME CatalogInv, Filled, [Next]_vars
    PROVE  Filled'
<1>1. CASE families' = families /\ next' = next
  BY <1>1 DEF Filled
<1>2. CASE families' = Finalized /\ next' = NextStart
  BY <1>2, FilledClosing
<1>3. ASSUME NEW p \in pending, IndexCard(p) PROVE Filled'
  BY <1>1, <1>2, <1>3 DEF IndexCard
<1>4. CASE Abort \/ Write \/ UNCHANGED vars
  BY <1>1, <1>2, <1>4 DEF Abort, Write, vars
<1> QED
  BY <1>3, <1>4 DEF Next

\* A catalog that is written fills its span, family after family, and every card is of a family:
\* what the readers of an index, and the queries over it, take for granted.
THEOREM CatalogTiles ==
    Spec => [](pc = "written" =>
                 /\ Tiles(families, next) /\ next \in 0 .. MaxBit
                 /\ \A c \in cards : \E i \in DOMAIN families : c.bit \in SpanOf(families[i])
                 /\ \A c, d \in cards : c.bit = d.bit => c = d)
<1> DEFINE Promised ==
               pc = "written" =>
                 /\ Tiles(families, next) /\ next \in 0 .. MaxBit
                 /\ \A c \in cards : \E i \in DOMAIN families : c.bit \in SpanOf(families[i])
                 /\ \A c, d \in cards : c.bit = d.bit => c = d
<1>1. Init => Filled
  BY DEF Init, Filled
<1>2. CatalogInv /\ Filled /\ [Next]_vars => Filled'
  BY FilledStep
<1>3. CatalogInv /\ Filled => Promised
  <2> SUFFICES ASSUME CatalogInv, Filled, pc = "written"
               PROVE  /\ Tiles(families, next) /\ next \in 0 .. MaxBit
                      /\ \A c \in cards : \E i \in DOMAIN families : c.bit \in SpanOf(families[i])
                      /\ \A c, d \in cards : c.bit = d.bit => c = d
    OBVIOUS
  <2>1. /\ \A c \in cards : c.bit \in 0 .. (next - 1)
        /\ \A c, d \in cards : c.bit = d.bit => c = d
        /\ next \in 0 .. MaxBit /\ Ordered
    BY WrittenOwned
  <2>2. Tiles(families, next)
    BY <2>1 DEF Tiles, Ordered, Filled
  <2> QED
    BY <2>1, <2>2 DEF Filled
<1> QED
  BY <1>1, <1>2, <1>3, CatalogInvariant, PTL DEF Spec
=============================================================================
