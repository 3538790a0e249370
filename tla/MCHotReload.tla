---------------------------- MODULE MCHotReload ----------------------------
(***************************************************************************)
(* Instance of HotReload for TLC: three builds, of which the last two      *)
(* carry the same built_at_secs or each its own.                           *)
(***************************************************************************)
EXTENDS HotReload, TLC

CONSTANTS b1, b2, b3

MCBuilds  == {b1, b2, b3}
MCBuiltAt == b1 :> 1 @@ b2 :> 2 @@ b3 :> 2
MCBuiltInTurn == b1 :> 1 @@ b2 :> 2 @@ b3 :> 3
=============================================================================
