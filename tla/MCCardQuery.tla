----------------------------- MODULE MCCardQuery -----------------------------
(* Two datasets: two sets that share a family, with a gap, and a smaller one. *)
EXTENDS CardQuery

Entry(s, f, start, max, names) == [set |-> s, family |-> f, start |-> start, max |-> max, names |-> names]
Node(type, id) == [type |-> type, id |-> id]
Stat(s, v) == [kind |-> s, value |-> v, displays |-> <<>>]
Effect(kind, displays) == [kind |-> kind, value |-> -1, displays |-> displays]
Text(nodes) == << nodes >>

T1 == Node("TRIGGER", 1)
C2 == Node("CONDITION", 2)
O3 == Node("OUTPUT", 3)
T4 == Node("TRIGGER", 4)
N5 == Node("none", 5)

Card0 == [bit |-> 0, faction |-> "AX", elements |->
            <<Stat("MAIN_COST", 2), Effect("MAIN_EFFECT", <<Text(<<T1, C2, O3>>), Text(<<T4, O3>>)>>)>>]
Card1 == [bit |-> 1, faction |-> "BR", elements |->
            <<Stat("MAIN_COST", 3), Stat("MAIN_COST", -1),
              Effect("MAIN_EFFECT", <<Text(<<T1>>), <<>>, Text(<<T1, O3, N5>>)>>),
              Effect("ECHO_EFFECT", <<Text(<<O3>>)>>)>>]
Card3 == [bit |-> 3, faction |-> "AX", elements |->
            <<Stat("MAIN_COST", 3), Effect("MAIN_EFFECT", <<Text(<<T1>>), Text(<<T4, C2, O3>>)>>),
              Effect("ECHO_EFFECT", <<Text(<<T4>>), Text(<<O3>>)>>)>>]
Card4 == [bit |-> 4, faction |-> "none", elements |-> <<Stat("RECALL_COST", 16)>>]

Two == [ families |-> <<Entry("COREKS", "AX_1", 0, 2, {"ax"}), Entry("CORE", "AX_1", 2, 2, {"ax"}),
                        Entry("CORE", "AX_2", 4, 1, {})>>,
         span |-> 5, cards |-> <<Card0, Card1, Card3, Card4>> ]
Small == [ families |-> <<Entry("CORE", "AX_2", 0, 2, {})>>, span |-> 2, cards |-> <<Card1>> ]

MCDatasets == {Two, Small}

AX2(s, uid) == [set |-> s, family |-> "AX_2", uid |-> uid]
AX1(s, uid) == [set |-> s, family |-> "AX_1", uid |-> uid]
Def(included, sets, refs) == [included |-> included, sets |-> sets, refs |-> refs]

MCFormatDefs ==
    [f \in {"only", "without", "mixed", "foreign"} |->
        CASE f = "only"    -> Def({AX1("CORE", 2), AX2("CORE", 1)}, {}, {})
          [] f = "without" -> Def({}, {"COREKS"}, {AX2("CORE", 1)})
          [] f = "mixed"   -> Def({AX2("CORE", 1)}, {"CORE"}, {})
          [] f = "foreign" -> Def({AX2("CORE", 3)}, {}, {})]

MCCollections == [c \in {"mine"} |-> {AX1("COREKS", 1), AX1("CORE", 1), AX2("CORE", 1)}]

Ids(t, c, o) == [k \in Kinds |-> CASE k = "TRIGGER" -> t [] k = "CONDITION" -> c [] OTHER -> o]
Slot(t, c, o, count) == [ids |-> Ids(t, c, o), count |-> count]
All == [ limit |-> 2, cursor |-> <<>>, effects |-> <<>>, mode |-> "and", support |-> NoFilter,
         factions |-> {}, sets |-> {}, costs |-> <<>>, name |-> <<>>, families |-> FALSE,
         format |-> <<>>, collection |-> <<>> ]

Abilities ==
    { <<>>, <<Slot({1}, {}, {3}, 1)>>, <<Slot({1, 4}, {}, {3}, 2)>>, <<Slot({1}, {}, {}, 2)>>,
      <<Slot({1}, {2}, {}, 1), Slot({4}, {}, {}, 1)>>, <<Slot({}, {}, {}, 3), Slot({}, {}, {3}, 1)>> }
Costs ==
    { [s \in {"MAIN_COST"} |-> [k \in {"gt"} |-> {2}]],
      [s \in {"MAIN_COST"} |-> [k \in {"gte"} |-> {3}]],
      [s \in {"MAIN_COST", "RECALL_COST"} |-> [k \in {"lte"} |-> {2}]],
      [s \in {"RECALL_COST"} |-> [k \in {"gte", "lt"} |-> IF k = "lt" THEN {1} ELSE {0}]],
      [s \in {"MAIN_COST"} |-> [k \in {"array"} |-> {0, 2}]],
      [s \in {"MAIN_COST"} |-> [k \in {"array", "lt"} |-> {2}]],
      [s \in {"MAIN_COST"} |-> [k \in {"exact"} |-> {16}]] }

Filtered ==
    {[All EXCEPT !.effects = e, !.mode = m, !.support = s] :
        e \in Abilities, m \in {"and", "or"}, s \in {NoFilter, Ids({}, {}, {3}), Ids({4}, {}, {3})}}
    \cup {[All EXCEPT !.costs = c, !.factions = f] : c \in Costs, f \in {{}, {"AX"}}}
    \cup {[All EXCEPT !.sets = s, !.name = n] : s \in {{"CORE"}, {"CORE", "COREKS"}}, n \in {<<>>, <<"ax">>}}
    \cup {[All EXCEPT !.format = <<f>>, !.collection = c] : f \in DOMAIN MCFormatDefs, c \in {<<>>, <<"mine">>}}
    \cup {[All EXCEPT !.format = <<"lost">>], [All EXCEPT !.effects = <<Slot({3}, {}, {}, 1)>>]}

MCEdited == {p \in Filtered : p.format = <<>>}

MCRequests ==
    Filtered \cup {[p EXCEPT !.families = TRUE] : p \in {q \in Filtered : q.mode = "and"}}
             \cup {[p EXCEPT !.limit = 1] : p \in {q \in Filtered : q.support = NoFilter /\ q.mode = "and"}}
             \cup {[All EXCEPT !.limit = n] : n \in {0, 5, 6}}
==============================================================================
