---------------------------- MODULE CardsQueryHook ----------------------------
(***************************************************************************)
(* The search of the demo UI: useCardsQuery and useFilteredEffectOptions,   *)
(* with the sentinel of ResultsPanel that asks for more.  An edit is        *)
(* rendered at once and restarts the debounce timer; a state set by a timer *)
(* or an answer is rendered later, and until then the refs that loadMore    *)
(* reads are those of the last render.  Answers come in any order, or fail. *)
(*                                                                         *)
(* A request that is aborted changes nothing when it answers: aborting it   *)
(* is forgetting it.  A card is its bit position.                           *)
(***************************************************************************)
EXTENDS Integers, Sequences, FiniteSets

CONSTANTS
    Filters,     \* states of the filter panel
    Default,     \* DEFAULT_FILTER_STATE
    Kind,        \* Kind[f]: "cards", "families", "card" (a reference) or "invalid"
    Matches,     \* Matches[f]: the cards the server answers f with
    Limit,       \* the page size
    Boxes,       \* the boxes of an effect slot
    MaxEdits     \* bound: edits of the filters and moves of the focus

None == "none"

ASSUME FiltersAssumption ==
    /\ Default \in Filters /\ None \notin Filters \cup Boxes /\ Limit \in Nat \ {0}
    /\ \A f \in Filters : Kind[f] \in {"cards", "families", "card", "invalid"}
    /\ \A f \in Filters : Matches[f] \subseteq Nat /\ IsFiniteSet(Matches[f])

VARIABLES
    filters,    \* as last edited and rendered (filtersRef)
    timer,      \* the filters the debounce timer will search for
    search,     \* searches that may still answer
    more,       \* loadMore requests that may still answer
    next,       \* the query state, with what is still to be rendered
    shown,      \* the query state last rendered: iterRef, statusRef, loadingMoreRef, skippedRef
    box,        \* the combobox that has the focus
    timers,     \* the keys the options' timers will ask for
    asked,      \* options requests that may still answer
    options,    \* of useFilteredEffectOptions; its ids are those answered for a key, or null
    edits

listVars    == <<search, more, next, shown>>
optionsVars == <<timers, asked, options>>
vars == <<filters, timer, listVars, box, optionsVars, edits>>

NoCursor == -1
NoOptions == [ids |-> {}, loading |-> FALSE]

\* initialState
Initial == [status |-> "idle", rows |-> <<>>, cursor |-> NoCursor,
            loadingMore |-> FALSE, skipped |-> FALSE]

(***************************************************************************)
(* The answers of the server                                               *)
(***************************************************************************)
Nth(S, i) == CHOOSE x \in S : Cardinality({y \in S : y < x}) = i - 1

\* A page is of the cards beyond the cursor; families and a reference have one page.
Page(f, cursor) ==
    LET cards == {x \in Matches[f] : x > cursor}
        size == IF Kind[f] = "cards" /\ Cardinality(cards) > Limit
                THEN Limit ELSE Cardinality(cards)
    IN  [rows   |-> [i \in 1 .. size |-> [of |-> f, at |-> Nth(cards, i)]],
         cursor |-> IF Kind[f] = "cards" /\ size = Limit THEN Nth(cards, size) ELSE NoCursor]

(***************************************************************************)
(* Filters                                                                 *)
(***************************************************************************)
Init ==
    /\ filters = Default /\ timer = Default
    /\ search = {} /\ more = {}
    /\ next = Initial /\ shown = Initial
    /\ box = None /\ timers = {} /\ asked = {} /\ options = NoOptions
    /\ edits = 0

\* Mutant: a new key leaves the request of the old one running.
NarrowKeepsRequest(f, b) ==
    IF b = None
    THEN timers' = {} /\ asked' = asked /\ options' = NoOptions
    ELSE timers' = {[of |-> f, box |-> b]} /\ asked' = asked /\ UNCHANGED options

\* useFilteredEffectOptions' effect on a new key, after the cleanup of the one before.  The ids
\* of the old key stay until there is an answer.
Narrow(f, b) ==
    IF b = None
    THEN timers' = {} /\ asked' = {} /\ options' = NoOptions
    ELSE timers' = {[of |-> f, box |-> b]} /\ asked' = {} /\ UNCHANGED options

\* The edit is rendered with all that was set before, and its effects run.
Edit(f) ==
    /\ edits < MaxEdits /\ f # filters
    /\ edits' = edits + 1
    /\ filters' = f /\ timer' = f
    /\ shown' = next
    /\ Narrow(f, box)
    /\ UNCHANGED <<search, more, next, box>>

Focus(b) ==
    /\ edits < MaxEdits /\ b # box
    /\ edits' = edits + 1
    /\ box' = b /\ shown' = next
    /\ Narrow(filters, b)
    /\ UNCHANGED <<filters, timer, search, more, next>>

Render ==
    /\ shown # next /\ shown' = next
    /\ UNCHANGED <<filters, timer, search, more, next, box, optionsVars, edits>>

(***************************************************************************)
(* useCardsQuery                                                           *)
(***************************************************************************)
\* Mutant: a search does not abort the loadMore of the one before.
DebounceKeepsMore ==
    /\ timer # None /\ timer' = None
    /\ IF Kind[timer] = "invalid"
       THEN search' = {} /\ next' = [Initial EXCEPT !.skipped = TRUE]
       ELSE search' = {timer} /\ next' = [Initial EXCEPT !.status = "loading"]
    /\ UNCHANGED <<filters, more, shown, box, optionsVars, edits>>

\* The timer's callback: whatever the filters, it aborts both requests.
Debounce ==
    /\ timer # None /\ timer' = None
    /\ more' = {}
    /\ IF Kind[timer] = "invalid"
       THEN search' = {} /\ next' = [Initial EXCEPT !.skipped = TRUE]
       ELSE search' = {timer} /\ next' = [Initial EXCEPT !.status = "loading"]
    /\ UNCHANGED <<filters, shown, box, optionsVars, edits>>

\* The network is slower than a render.
Rendered == shown = next

SearchAnswers(f) ==
    /\ f \in search /\ Rendered /\ search' = search \ {f}
    /\ \/ LET page == Page(f, NoCursor)
          IN  next' = [Initial EXCEPT !.status = "success", !.rows = page.rows,
                                      !.cursor = page.cursor]
       \/ next' = [Initial EXCEPT !.status = "error"]
    /\ UNCHANGED <<filters, timer, more, shown, box, optionsVars, edits>>

\* ResultsPanel: the sentinel is rendered below a list that has more.
SentinelShown ==
    /\ shown.status = "success"
    /\ Kind[filters] \notin {"card", "families"} /\ shown.cursor # NoCursor

\* loadMore takes the filters of now and the cursor rendered last.
LoadMore ==
    /\ SentinelShown
    /\ ~shown.loadingMore /\ ~shown.skipped
    /\ Kind[filters] # "invalid"
    /\ more' = {[of |-> filters, cursor |-> shown.cursor]}
    /\ next' = [next EXCEPT !.loadingMore = TRUE]
    /\ UNCHANGED <<filters, timer, search, shown, box, optionsVars, edits>>

MoreAnswers(r) ==
    /\ r \in more /\ Rendered /\ more' = more \ {r}
    /\ \/ LET page == Page(r.of, r.cursor)
          IN  next' = [next EXCEPT !.status = "success", !.rows = @ \o page.rows,
                                   !.cursor = page.cursor, !.loadingMore = FALSE]
       \/ next' = [next EXCEPT !.status = IF next.rows # <<>> THEN "success" ELSE "error",
                               !.loadingMore = FALSE]
    /\ UNCHANGED <<filters, timer, search, shown, box, optionsVars, edits>>

(***************************************************************************)
(* useFilteredEffectOptions                                                *)
(***************************************************************************)
AskOptions(k) ==
    /\ k \in timers /\ timers' = timers \ {k}
    /\ asked' = asked \cup {k}
    /\ options' = [options EXCEPT !.loading = TRUE]
    /\ UNCHANGED <<filters, timer, listVars, box, edits>>

OptionsAnswer(k) ==
    /\ k \in asked /\ asked' = asked \ {k}
    /\ \E ids \in {{k}, {}} : options' = [ids |-> ids, loading |-> FALSE]
    /\ UNCHANGED <<filters, timer, listVars, box, timers, edits>>

Search == \E f \in search : SearchAnswers(f)
More == \E r \in more : MoreAnswers(r)
Options == (\E k \in timers : AskOptions(k)) \/ \E k \in asked : OptionsAnswer(k)

Next ==
    \/ \E f \in Filters : Edit(f)
    \/ \E b \in Boxes \cup {None} : Focus(b)
    \/ Render \/ Debounce \/ LoadMore \/ Search \/ More \/ Options

\* Timers expire, renders happen, requests answer or fail; nobody has to edit or scroll.
Fairness == /\ WF_vars(Debounce) /\ WF_vars(Render)
            /\ WF_vars(Search) /\ WF_vars(More) /\ WF_vars(Options)
Spec == Init /\ [][Next]_vars /\ Fairness

(***************************************************************************)
(* Properties                                                              *)
(***************************************************************************)
\* Outside the debounce window every card listed, and every answer still to come, is of the
\* filters in the panel, in whatever order searches, further pages, their failures and the
\* edits between them came.  (Within it a page of the new filters may follow the old list.)
ListIsOfFilters ==
    timer = None =>
        /\ \A i \in DOMAIN next.rows : next.rows[i].of = filters
        /\ search \subseteq {filters} /\ \A r \in more : r.of = filters

\* With no request for options under way or about to be sent, what is offered is the answer for
\* the box in focus and the filters of now, or everything; and nothing is said to be loading.
OptionsAreOfKey ==
    timers \cup asked = {} =>
        /\ ~options.loading
        /\ options.ids \subseteq {[of |-> filters, box |-> box]}

\* The query state of a search for f that is over.
Settled(f) ==
    IF Kind[f] = "invalid" THEN shown = [Initial EXCEPT !.skipped = TRUE]
    ELSE \/ shown.status = "error" /\ shown.rows = <<>>
         \/ /\ shown.status = "success"
            /\ \A i \in DOMAIN shown.rows : shown.rows[i].of = f

\* When the editing is over, the panel ends with a list of cards of the filters it was left with,
\* or with an error; it does not stay loading, whichever requests fail.  (That the list begins
\* with the first page and has no gap does not hold: see the README.)
Settles == \A f \in Filters : <>[](filters = f) => <>[]Settled(f)
==============================================================================
