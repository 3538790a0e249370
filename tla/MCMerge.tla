------------------------------- MODULE MCMerge -------------------------------
(***************************************************************************)
(* Instances of Merge for TLC: three sets in a fixed order whose catalogs   *)
(* have any of three families, the last of one card, the others of MaxUid.  *)
(***************************************************************************)
EXTENDS Merge, FiniteSetsExt, SequencesExt, TLC

CONSTANTS s1, s2, s3, f1, f2, f3, MaxUid

MCSets     == {s1, s2, s3}
MCFamilies == {f1, f2, f3}
MCPos      == s1 :> 1 @@ s2 :> 2 @@ s3 :> 3
MCRank     == f1 :> 1 @@ f2 :> 2 @@ f3 :> 3
MCRankTied == f1 :> 1 @@ f2 :> 2 @@ f3 :> 2

\* The catalog of a set whose family f has m[f] UniqueIDs
CatalogOf(s, m) ==
    LET Sum(fs) == MapThenSumSet(LAMBDA f : m[f], fs)
        Before(f) == {g \in MCFamilies : MCRank[g] < MCRank[f]}
        ordered == SetToSortSeq({f \in MCFamilies : m[f] > 0}, LAMBDA f, g : MCRank[f] < MCRank[g])
    IN  [span |-> Sum(MCFamilies),
         families |-> [i \in DOMAIN ordered |-> [set |-> s, family |-> ordered[i],
                                                 start |-> Sum(Before(ordered[i])), max |-> m[ordered[i]]]]]

MCSources ==
    {[s \in MCSets |-> CatalogOf(s, m[s])] :
        m \in [MCSets -> {n \in [MCFamilies -> 0 .. MaxUid] : n[f3] <= 1}]}
==============================================================================
