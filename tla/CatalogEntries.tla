---------------------------- MODULE CatalogEntries ----------------------------
(***************************************************************************)
(* catalog.json as its readers use it: a sequence of family entries, each  *)
(* owning the bit positions start .. start + max - 1 for UniqueIDs 1 .. max.*)
(* Built by index-core (Catalog, and the merge), read by the decoding and   *)
(* by both lookups.  Readers may fail, so they are relations: an input     *)
(* related to nothing is answered with an error.                           *)
(***************************************************************************)
EXTENDS Integers, Sequences

CONSTANT MaxBit  \* u32::MAX

ASSUME MaxBitAssumption == MaxBit \in Nat

\* The u32 sum of two u32 values, less one, as a release build computes it.
U32(n) == IF n < 0 THEN n + MaxBit + 1 ELSE IF n > MaxBit THEN n - (MaxBit + 1) ELSE n

\* card_index of a UniqueID in a family
BitOf(e, uid) == U32(e.start + uid - 1)

Ref(e, uid) == [set |-> e.set, family |-> e.family, uid |-> uid]

\* Catalog::family_for_bit and decode_bit: the last entry that starts at or below the bit,
\* unless the bit is past its end.
Decodes(fs, bit, ref) ==
    \E i \in DOMAIN fs :
        /\ fs[i].start <= bit
        /\ \A j \in DOMAIN fs : fs[j].start <= bit => j <= i
        /\ bit - fs[i].start + 1 <= fs[i].max
        /\ ref = Ref(fs[i], bit - fs[i].start + 1)

SpanOf(entry) == entry.start .. entry.start + entry.max - 1

\* Entries one after the other, which leave no bit of the span to no family
Tiles(fs, span) ==
    /\ \A i, j \in DOMAIN fs : i < j => fs[i].start + fs[i].max <= fs[j].start
    /\ \A i \in DOMAIN fs : fs[i].start + fs[i].max <= span
    /\ \A bit \in 0 .. span - 1 : \E i \in DOMAIN fs : bit \in SpanOf(fs[i])

Matching(fs, ref) == {i \in DOMAIN fs : fs[i].family = ref.family /\ fs[i].set = ref.set}

\* Catalog::lookup_bit (offline): an ambiguous family is an error.
LooksUp(fs, ref, bit) ==
    \E i \in DOMAIN fs :
        /\ Matching(fs, ref) = {i}
        /\ ref.uid <= fs[i].max
        /\ bit = BitOf(fs[i], ref.uid)

\* Mutant: the check against the family's span is dropped.
ResolvesUnbounded(fs, ref, bit) ==
    \E i \in Matching(fs, ref) :
        /\ \A j \in Matching(fs, ref) : j <= i
        /\ bit = BitOf(fs[i], ref.uid)

\* build_family_lookup_index and FamilyLookupIndex::resolve (server): the map keeps the
\* last of several entries with the same key.
Resolves(fs, ref, bit) ==
    \E i \in Matching(fs, ref) :
        /\ \A j \in Matching(fs, ref) : j <= i
        /\ ref.uid <= fs[i].max
        /\ bit = BitOf(fs[i], ref.uid)

\* build_family_span_groups: the rows at which a family of the families[] response starts.
SpanHeads(fs) == {i \in DOMAIN fs : \/ i = 1
                                    \/ fs[i - 1].family # fs[i].family
                                    \/ fs[i - 1].start + fs[i - 1].max # fs[i].start}
==============================================================================
