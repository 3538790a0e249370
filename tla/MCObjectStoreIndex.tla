------------------------- MODULE MCObjectStoreIndex -------------------------
(***************************************************************************)
(* Instance of ObjectStoreIndex for TLC: three builds made one after the   *)
(* other.                                                                  *)
(***************************************************************************)
EXTENDS ObjectStoreIndex, TLC

CONSTANTS b1, b2, b3

MCBuilds  == {b1, b2, b3}
MCBuiltAt == b1 :> 1 @@ b2 :> 2 @@ b3 :> 3
=============================================================================
