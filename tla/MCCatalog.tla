------------------------------ MODULE MCCatalog ------------------------------
(***************************************************************************)
(* Instance of Catalog for TLC: two families with one number (04 and 4)     *)
(* between two families that have numbers of their own.                    *)
(***************************************************************************)
EXTENDS Catalog, TLC

CONSTANTS f1, f2, f3, f4

MCFamilies == {f1, f2, f3, f4}
MCRank     == f1 :> 1 @@ f2 :> 2 @@ f3 :> 2 @@ f4 :> 3
=============================================================================
