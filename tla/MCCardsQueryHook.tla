-------------------------- MODULE MCCardsQueryHook --------------------------
(* Two searches that page, one by families, one by reference and one that is not valid. *)
EXTENDS CardsQueryHook, TLC

MCKind == "a" :> "cards" @@ "b" :> "cards" @@ "fam" :> "families" @@ "ref" :> "card" @@ "bad" :> "invalid"
MCMatches == "a" :> {0, 1, 2} @@ "b" :> {1, 3} @@ "fam" :> {0, 3} @@ "ref" :> {2} @@ "bad" :> {}
=============================================================================
