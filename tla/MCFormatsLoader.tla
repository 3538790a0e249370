--------------------------- MODULE MCFormatsLoader ---------------------------
(* One valid format, one that is not, and one listed twice. *)
EXTENDS FormatsLoader

MCEntries == <<"a", "bad", "twice", "again">>
MCId == [p \in {"a", "bad", "twice", "again"} |-> IF p = "again" THEN "twice" ELSE p]
==============================================================================
