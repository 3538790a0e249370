----------------------------- MODULE MCIndexFiles -----------------------------
(***************************************************************************)
(* Instance of IndexFiles for TLC: a set built twice, the second time       *)
(* without the cards of a line and with another span.                       *)
(***************************************************************************)
EXTENDS IndexFiles

MCHistories == {<<[span |-> 1, has |-> Bitmaps], [span |-> 2, has |-> {"whole"}]>>}
==============================================================================
