---------------------------- MODULE MCFilterPanel ----------------------------
(* Two indexes, the second without some of the ids of the first. *)
EXTENDS FilterPanel

Node(type, id) == [type |-> type, id |-> id]
Effect(kind, displays) == [kind |-> kind, value |-> -1, displays |-> displays]
Stat(v) == [kind |-> "MAIN_COST", value |-> v, displays |-> <<>>]
T1 == Node("TRIGGER", 1)
C2 == Node("CONDITION", 2)
O3 == Node("OUTPUT", 3)
T4 == Node("TRIGGER", 4)

CardA == [bit |-> 0, faction |-> "AX", elements |->
            <<Stat(2), Effect("MAIN_EFFECT", <<<<<<T1, C2, O3>>>>, <<<<T4, O3>>>>>>)>>]
CardB == [bit |-> 2, faction |-> "BR", elements |->
            <<Stat(3), Effect("MAIN_EFFECT", <<<<<<T1>>>>, <<<<C2>>>>>>), Effect("ECHO_EFFECT", <<<<<<T4, O3>>>>>>)>>]

Entry(set, start, max) == [set |-> set, family |-> "F", start |-> start, max |-> max, names |-> {"f"}]
Data(families, span, cards) == [families |-> families, span |-> span, cards |-> cards]

One == Data(<<Entry("KS", 0, 2), Entry("CORE", 2, 1)>>, 3, <<CardA, CardB>>)
Two == Data(<<Entry("CORE", 0, 3)>>, 3, <<CardB>>)

MCFormatDefs == <<>>
MCCollections == <<>>
MCCrawled == <<One, Two>>
MCTyped == {<<>>, <<Blank, Blank>>, <<9>>, <<1, Blank>>}
MCContaining == {<<4, 9>>}
MCCostTexts == {<<>>, <<<<1, 2>>>>, <<<<3, 3>>>>, <<<<0, 1>>, <<3, 16>>>>}
MCLimits == {<<>>, <<0>>, <<300>>}
MCWords == [f \in {"name", "format", "collection"} |->
                CASE f = "name" -> {<<>>, <<"f">>} [] OTHER -> {<<>>, <<"lost">>}]
===============================================================================
