------------------------------- MODULE Catalog -------------------------------
(***************************************************************************)
(* The build of one set's index: the card files found by the crawl, taken  *)
(* in the order of sort_key, are given their bit positions one after the   *)
(* other by CatalogBuilder, which opens and closes families as they come.  *)
(*                                                                         *)
(* sort_key compares the numeric value of the family number, so families   *)
(* like 04 and 4 have one Rank and their files come interleaved; files that *)
(* compare equal come in any order.  A UniqueID may be on disk twice (5 and *)
(* 05 name different files).                                               *)
(***************************************************************************)
EXTENDS CatalogEntries, FiniteSets

CONSTANTS
    Set,        \* the set built
    Families,   \* family ids on disk
    Rank,       \* Rank[f]: (faction_rank, family_number) of sort_key, as one number
    Uids,       \* UniqueIDs of card files; they are numbered from 1
    Copies,     \* distinguishes files of the same card
    MaxFiles,   \* bound: files found by the crawl
    NoFamily,   \* CatalogBuilder.current is None
    RefUids     \* UniqueIDs clients ask for

ASSUME CatalogAssumption ==
    /\ Rank \in [Families -> Nat]
    /\ Uids \subseteq 1 .. MaxBit
    /\ RefUids \subseteq Nat
    /\ NoFamily \notin Families

VARIABLES
    pending,    \* discovered files not indexed yet
    current,    \* CatalogBuilder.current
    next,       \* CatalogBuilder.next_start_bit
    families,   \* CatalogBuilder.families, then Catalog.families
    cards,      \* compact_cards: what each file was indexed as
    pc

vars == <<pending, current, next, families, cards, pc>>

Path == [family : Families, uid : Uids, copy : Copies]

Closed == [family |-> NoFamily, start |-> 0, max |-> 0, count |-> 0, last |-> 0]

\* discover_card_files, with its limit: files of other shapes are passed over.
Crawled == {ps \in SUBSET Path : Cardinality(ps) <= MaxFiles}

Init ==
    /\ pending \in Crawled
    /\ current = Closed
    /\ next = 0
    /\ families = <<>>
    /\ cards = {}
    /\ pc = "indexing"

\* Mutant: the files of a family come in the order the directory lists them.
BeforeByFamily(p, q) == Rank[p.family] < Rank[q.family]

\* discover_card_files sorts by faction rank, family number and UniqueID.
Before(p, q) ==
    \/ Rank[p.family] < Rank[q.family]
    \/ Rank[p.family] = Rank[q.family] /\ p.uid < q.uid

(***************************************************************************)
(* CatalogBuilder                                                          *)
(***************************************************************************)

\* finalize_current moves next_start_bit by max_unique_id, 0 for no family ...
NextStart == next + current.max

\* ... and pushes the family's entry.
Finalized ==
    IF current = Closed THEN families
    ELSE Append(families, [set |-> Set, family |-> current.family, start |-> current.start,
                           max |-> current.max, count |-> current.count])

\* start_family
Opened(f) == [family |-> f, start |-> NextStart, max |-> 0, count |-> 0, last |-> 0]

\* apply_card_index
RecordOf(c, p) == [bit |-> BitOf(c, p.uid), path |-> p]

\* on_card, and the record pushed for the card.  The first UniqueID of a
\* family is never a duplicate (last is 0 for None).
IndexCard(p) ==
    /\ pc = "indexing"
    /\ p \in pending /\ \A q \in pending : ~Before(q, p)
    /\ LET same == current.family = p.family
           c    == IF same THEN current ELSE Opened(p.family)
       IN  /\ ~same => NextStart <= MaxBit
           /\ c.last # p.uid
           /\ families' = IF same THEN families ELSE Finalized
           /\ next' = IF same THEN next ELSE NextStart
           /\ current' = [family |-> p.family, start |-> c.start, count |-> c.count + 1,
                          max |-> IF p.uid > c.max THEN p.uid ELSE c.max, last |-> p.uid]
           /\ cards' = cards \cup {RecordOf(c, p)}
    /\ pending' = pending \ {p}
    /\ UNCHANGED pc

\* A duplicate, an overflow or a file that does not parse ends the build; nothing has been
\* written yet.
Abort ==
    /\ pc = "indexing" /\ pending # {}
    /\ pc' = "failed"
    /\ UNCHANGED <<pending, current, next, families, cards>>

\* Mutant: the last family is not closed before the catalog is taken.
WriteWithoutFinalize ==
    /\ pc = "indexing" /\ pending = {}
    /\ pc' = "written"
    /\ UNCHANGED <<pending, current, next, families, cards>>

\* finalize_last, into_catalog (total_bit_span is next) and write_index_outputs.
Write ==
    /\ pc = "indexing" /\ pending = {}
    /\ IF NextStart > MaxBit
       THEN /\ pc' = "failed"
            /\ UNCHANGED <<current, next, families>>
       ELSE /\ pc' = "written"
            /\ families' = Finalized
            /\ next' = NextStart
            /\ current' = Closed
    /\ UNCHANGED <<pending, cards>>

Next == (\E p \in pending : IndexCard(p)) \/ Abort \/ Write

Spec == Init /\ [][Next]_vars

(***************************************************************************)
(* Properties                                                              *)
(***************************************************************************)
Entry   == [set : {Set}, family : Families, start : 0 .. MaxBit, max : Uids, count : Nat]
RefOf(p) == [set |-> Set, family |-> p.family, uid |-> p.uid]

TypeOK ==
    /\ pending \subseteq Path
    /\ \/ current = Closed
       \/ current \in [family : Families, start : 0 .. MaxBit, max : Uids, count : Nat, last : Uids]
    /\ next \in 0 .. MaxBit
    /\ families \in Seq(Entry)
    /\ cards \subseteq [bit : 0 .. MaxBit, path : Path]
    /\ pc \in {"indexing", "written", "failed"}

\* Every card of a written index has a slot of cards.bin of its own, whatever gaps its
\* family has and however the files were interleaved.
SlotsDistinct ==
    pc = "written" =>
        /\ \A c \in cards : c.bit \in 0 .. (next - 1)
        /\ \A c, d \in cards : c.bit = d.bit => c = d

\* ... and that bit decodes to the reference of that card.
CardsDecode ==
    pc = "written" => \A c \in cards : Decodes(families, c.bit, RefOf(c.path))

\* The number of a family, compared as a number, is its own.
OwnNumber(f) == \A g \in Families : Rank[g] = Rank[f] => g = f

\* Both lookups find every card of a family with a number of its own.
CardsResolve ==
    pc = "written" =>
        \A c \in cards : OwnNumber(c.path.family) =>
            LooksUp(families, RefOf(c.path), c.bit) /\ Resolves(families, RefOf(c.path), c.bit)

\* Cards are found both ways: by their bit, and those with a number of their own by reference.
CardsFound == CardsDecode /\ CardsResolve

\* "UniqueIDs are unique within a familyId: duplicate paths are an error at crawl time",
\* although only the previous file is compared.
DuplicatesRejected ==
    pc = "written" =>
        \A c, d \in cards : OwnNumber(c.path.family) /\ RefOf(c.path) = RefOf(d.path) => c = d

\* A reference the server resolves is answered with the card of that reference, not with
\* a neighbour's.
ResolvedFaithful ==
    pc = "written" =>
        \A f \in Families, uid \in RefUids :
            LET ref == [set |-> Set, family |-> f, uid |-> uid]
            IN  \A bit \in 0 .. (next - 1) :
                    Resolves(families, ref, bit) => Decodes(families, bit, ref)
==============================================================================
