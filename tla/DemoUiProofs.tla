----------------------------- MODULE DemoUiProofs -----------------------------
(***************************************************************************)
(* Proofs about the demo UI's two components with a concurrency of their    *)
(* own, for any filters, answers and page size, and for any slots, any      *)
(* finite set of mounts and any Concurrency.                                *)
(*                                                                         *)
(* CardsQueryHook: what keeps the list to the filters of now is that the    *)
(* debounce timer holds the filters of now, and that expiring it aborts     *)
(* what was asked for others; what keeps the options to their key is the    *)
(* cleanup.                                                                 *)
(*                                                                         *)
(* MountQueue: the queue's part of the invariant is inductive by itself;    *)
(* the three ways in which an action can move the queue (Acquire, Release,  *)
(* and going on with the place one has) are lemmas.                         *)
(***************************************************************************)
EXTENDS CardsQueryHook, MountQueue, FiniteSetTheorems, TLAPS

(***************************************************************************)
(* CardsQueryHook                                                          *)
(***************************************************************************)
Positions == UNION {{Nth(S, i) : i \in Nat} : S \in SUBSET Nat}
Rows == [of : Filters, at : Positions]
ListStates ==
    [status : {"idle", "loading", "success", "error"}, rows : Seq(Rows),
     cursor : Positions \cup {NoCursor}, loadingMore : BOOLEAN, skipped : BOOLEAN]

ListInv ==
    /\ filters \in Filters /\ timer \in {None, filters}
    /\ next \in ListStates
    /\ search \subseteq Filters /\ \A r \in more : r.of \in Filters
    /\ ListIsOfFilters

LEMMA ConcatElement ==
    ASSUME NEW S, NEW a \in Seq(S), NEW b \in Seq(S), NEW i \in DOMAIN (a \o b)
    PROVE  \/ i \in DOMAIN a /\ (a \o b)[i] = a[i]
           \/ i - Len(a) \in DOMAIN b /\ (a \o b)[i] = b[i - Len(a)]
OBVIOUS

\* A page has only cards of the filters it was asked with.
LEMMA PageIsOfFilters ==
    ASSUME NEW f \in Filters, NEW cursor
    PROVE  /\ Page(f, cursor).rows \in Seq(Rows)
           /\ Page(f, cursor).cursor \in Positions \cup {NoCursor}
           /\ \A i \in DOMAIN Page(f, cursor).rows : Page(f, cursor).rows[i].of = f
<1> DEFINE cards == {x \in Matches[f] : x > cursor}
           size == IF Kind[f] = "cards" /\ Cardinality(cards) > Limit
                   THEN Limit ELSE Cardinality(cards)
<1>1. cards \in SUBSET Nat /\ IsFiniteSet(cards)
  BY FiltersAssumption, FS_Subset
<1>2. size \in Nat
  BY <1>1, FS_CardinalityType, FiltersAssumption
<1>3. \A i \in Nat : Nth(cards, i) \in Positions
  <2> HIDE DEF cards
  <2>1. ASSUME NEW S \in SUBSET Nat, NEW i \in Nat PROVE Nth(S, i) \in Positions
    <3>1. Nth(S, i) \in {Nth(S, j) : j \in Nat}
      OBVIOUS
    <3> QED
      BY <3>1 DEF Positions
  <2> QED
    BY <1>1, <2>1, Zenon
<1>4. /\ Page(f, cursor).rows = [i \in 1 .. size |-> [of |-> f, at |-> Nth(cards, i)]]
      /\ Page(f, cursor).cursor = IF Kind[f] = "cards" /\ size = Limit
                                  THEN Nth(cards, size) ELSE NoCursor
  BY DEF Page
<1> HIDE DEF cards, size
<1>5. [i \in 1 .. size |-> [of |-> f, at |-> Nth(cards, i)]] \in Seq(Rows)
  BY <1>2, <1>3 DEF Rows
<1>6. Page(f, cursor).cursor \in Positions \cup {NoCursor}
  BY <1>2, <1>3, <1>4
<1>7. \A i \in DOMAIN Page(f, cursor).rows : Page(f, cursor).rows[i].of = f
  BY <1>4, <1>2
<1> QED
  BY <1>4, <1>5, <1>6, <1>7

LEMMA InitialIsEmpty == Initial \in ListStates /\ Initial.rows = <<>>
BY DEF Initial, ListStates, NoCursor

LEMMA DebounceInv == ASSUME ListInv, Debounce PROVE ListInv'
<1>1. next' \in ListStates /\ next'.rows = <<>>
  BY InitialIsEmpty DEF Debounce, ListStates
<1>2. search' \subseteq {filters} /\ more' = {} /\ filters' = filters /\ timer' = None
  BY DEF Debounce, ListInv
<1> QED
  BY <1>1, <1>2 DEF ListInv, ListIsOfFilters

LEMMA SearchInv == ASSUME ListInv, NEW f \in search, SearchAnswers(f) PROVE ListInv'
<1> USE DEF ListInv
<1>1. f \in Filters /\ (timer = None => f = filters)
  BY DEF ListIsOfFilters
<1>2. /\ next' \in ListStates
      /\ \A i \in DOMAIN next'.rows : next'.rows[i].of = f
  <2>1. CASE next' = [Initial EXCEPT !.status = "error"]
    BY <2>1, InitialIsEmpty DEF ListStates
  <2>2. CASE next' = [Initial EXCEPT !.status = "success", !.rows = Page(f, NoCursor).rows,
                                     !.cursor = Page(f, NoCursor).cursor]
    <3> DEFINE p == Page(f, NoCursor)
    <3>1. /\ p.rows \in Seq(Rows) /\ p.cursor \in Positions \cup {NoCursor}
          /\ \A i \in DOMAIN p.rows : p.rows[i].of = f
      BY <1>1, PageIsOfFilters
    <3> HIDE DEF p
    <3>2. next' = [Initial EXCEPT !.status = "success", !.rows = p.rows, !.cursor = p.cursor]
      BY <2>2 DEF p
    <3> QED
      BY <3>1, <3>2, InitialIsEmpty DEF ListStates
  <2> QED
    BY <2>1, <2>2 DEF SearchAnswers
<1> QED
  BY <1>1, <1>2 DEF SearchAnswers, ListIsOfFilters

LEMMA MoreInv == ASSUME ListInv, NEW r \in more, MoreAnswers(r) PROVE ListInv'
<1> USE DEF ListInv
<1>1. r.of \in Filters /\ (timer = None => r.of = filters)
  BY DEF ListIsOfFilters
<1>2. /\ next' \in ListStates
      /\ timer = None => \A i \in DOMAIN next'.rows : next'.rows[i].of = filters
  <2>1. CASE next' = [next EXCEPT !.status = IF next.rows # <<>> THEN "success" ELSE "error",
                                  !.loadingMore = FALSE]
    BY <2>1 DEF ListStates, ListIsOfFilters
  <2>2. CASE next' = [next EXCEPT !.status = "success",
                                  !.rows = next.rows \o Page(r.of, r.cursor).rows,
                                  !.cursor = Page(r.of, r.cursor).cursor, !.loadingMore = FALSE]
    <3> DEFINE p == Page(r.of, r.cursor)
    <3>1. /\ p.rows \in Seq(Rows) /\ p.cursor \in Positions \cup {NoCursor}
          /\ \A i \in DOMAIN p.rows : p.rows[i].of = r.of
      BY <1>1, PageIsOfFilters
    <3> HIDE DEF p
    <3>2. next' = [next EXCEPT !.status = "success", !.rows = next.rows \o p.rows,
                               !.cursor = p.cursor, !.loadingMore = FALSE]
      BY <2>2 DEF p
    <3>3. next.rows \in Seq(Rows)
      BY DEF ListStates
    <3>4. next.rows \o p.rows \in Seq(Rows)
      BY <3>1, <3>3
    <3>5. next' \in ListStates /\ next'.rows = next.rows \o p.rows
      BY <3>1, <3>2, <3>4 DEF ListStates
    <3>6. ASSUME timer = None, NEW i \in DOMAIN next'.rows
          PROVE  next'.rows[i].of = filters
      <4>1. next'.rows = next.rows \o p.rows /\ i \in DOMAIN (next.rows \o p.rows)
        BY <3>5, <3>6
      <4> DEFINE a == next.rows
                 b == p.rows
      <4>2. \/ i \in DOMAIN a /\ (a \o b)[i] = a[i]
            \/ i - Len(a) \in DOMAIN b /\ (a \o b)[i] = b[i - Len(a)]
        <5>1. a \in Seq(Rows) /\ b \in Seq(Rows) /\ i \in DOMAIN (a \o b)
          BY <3>1, <3>3, <4>1
        <5> HIDE DEF a, b
        <5> QED
          BY <5>1, ConcatElement
      <4>3. \A j \in DOMAIN next.rows : next.rows[j].of = filters
        BY <3>6 DEF ListIsOfFilters
      <4>4. \A j \in DOMAIN p.rows : p.rows[j].of = filters
        BY <1>1, <3>1, <3>6
      <4> HIDE DEF ListInv
      <4> QED
        BY <4>1, <4>2, <4>3, <4>4
    <3> QED
      BY <3>5, <3>6
  <2> QED
    BY <2>1, <2>2 DEF MoreAnswers
<1> QED
  BY <1>1, <1>2 DEF MoreAnswers, ListIsOfFilters

LEMMA LoadMoreInv == ASSUME ListInv, LoadMore PROVE ListInv'
<1>1. next' \in ListStates /\ next'.rows = next.rows
  BY DEF LoadMore, ListInv, ListStates
<1> QED
  BY <1>1 DEF LoadMore, ListInv, ListIsOfFilters

LEMMA ListInvKept == ListInv /\ [Next]_vars => ListInv'
<1> SUFFICES ASSUME ListInv, [Next]_vars PROVE ListInv'
  OBVIOUS
<1>1. ASSUME NEW f \in Filters, Edit(f) PROVE ListInv'
  BY <1>1, FiltersAssumption DEF Edit, ListInv, ListIsOfFilters
<1>2. ASSUME NEW b \in Boxes \cup {None}, Focus(b) PROVE ListInv'
  BY <1>2 DEF Focus, ListInv, ListIsOfFilters
<1>3. CASE Render \/ Options \/ UNCHANGED vars
  BY <1>3 DEF Render, Options, AskOptions, OptionsAnswer, listVars, vars, ListInv, ListIsOfFilters
<1>4. CASE Search \/ More \/ Debounce \/ LoadMore
  BY <1>4, SearchInv, MoreInv, DebounceInv, LoadMoreInv DEF Search, More
<1> QED
  BY <1>1, <1>2, <1>3, <1>4 DEF Next

\* Whatever the order of edits, answers and failures, a list whose debounce is over has only
\* cards of the filters in the panel.
THEOREM ListStaysOfFilters == Spec => []ListIsOfFilters
<1>1. Init => ListInv
  BY FiltersAssumption, InitialIsEmpty DEF Init, ListInv, ListIsOfFilters
<1>2. ListInv => ListIsOfFilters
  BY DEF ListInv
<1> QED
  BY <1>1, <1>2, ListInvKept, PTL DEF Spec

(***************************************************************************)
(* The options                                                             *)
(***************************************************************************)
Key == [of |-> filters, box |-> box]

OptionsInv ==
    /\ timers \cup asked \subseteq {Key}
    /\ box = None => timers = {} /\ asked = {} /\ options = NoOptions
    /\ options = [ids |-> options.ids, loading |-> options.loading]
    /\ timers = {} \/ asked = {}
    /\ OptionsAreOfKey

LEMMA NarrowInv ==
    ASSUME NEW f, NEW b, Narrow(f, b), filters' = f, box' = b, OptionsInv
    PROVE  OptionsInv'
<1>1. CASE b = None
  BY <1>1 DEF Narrow, OptionsInv, OptionsAreOfKey, NoOptions, Key
<1>2. CASE b # None
  BY <1>2 DEF Narrow, OptionsInv, OptionsAreOfKey, Key
<1> QED
  BY <1>1, <1>2

LEMMA OptionsInvKept == OptionsInv /\ [Next]_vars => OptionsInv'
<1> SUFFICES ASSUME OptionsInv, [Next]_vars PROVE OptionsInv'
  OBVIOUS
<1>1. ASSUME NEW f \in Filters, Edit(f) PROVE OptionsInv'
  BY <1>1, NarrowInv DEF Edit
<1>2. ASSUME NEW b \in Boxes \cup {None}, Focus(b) PROVE OptionsInv'
  BY <1>2, NarrowInv DEF Focus
<1>3. ASSUME NEW k \in timers, AskOptions(k) PROVE OptionsInv'
  <2>1. k = Key /\ asked = {} /\ timers = {k} /\ box # None
    BY <1>3 DEF OptionsInv
  <2>2. timers' = {} /\ asked' = {k} /\ options' = [options EXCEPT !.loading = TRUE]
    BY <1>3, <2>1 DEF AskOptions
  <2>3. filters' = filters /\ box' = box
    BY <1>3 DEF AskOptions
  <2> QED
    BY <2>1, <2>2, <2>3 DEF OptionsInv, OptionsAreOfKey, Key
<1>4. ASSUME NEW k \in asked, OptionsAnswer(k) PROVE OptionsInv'
  <2>1. k = Key /\ timers = {} /\ asked = {k} /\ box # None
    BY <1>4 DEF OptionsInv
  <2>2. timers' = {} /\ asked' = {} /\ filters' = filters /\ box' = box
    BY <1>4, <2>1 DEF OptionsAnswer
  <2>3. \E ids \in {{k}, {}} : options' = [ids |-> ids, loading |-> FALSE]
    BY <1>4 DEF OptionsAnswer
  <2> QED
    BY <2>1, <2>2, <2>3 DEF OptionsInv, OptionsAreOfKey, Key
<1>5. CASE Render \/ Debounce \/ LoadMore \/ Search \/ More \/ UNCHANGED vars
  <2>1. UNCHANGED <<filters, box, timers, asked, options>>
    BY <1>5 DEF Render, Debounce, LoadMore, Search, SearchAnswers, More, MoreAnswers, optionsVars, vars
  <2> QED
    BY <2>1 DEF OptionsInv, OptionsAreOfKey, Key
<1> QED
  BY <1>1, <1>2, <1>3, <1>4, <1>5 DEF Next, Options

\* The options offered are those of the box in focus and the filters of now, or everything,
\* unless others are on their way.
THEOREM OptionsStayOfKey == Spec => []OptionsAreOfKey
<1>1. Init => OptionsInv
  BY DEF Init, OptionsInv, OptionsAreOfKey, NoOptions, Key
<1>2. OptionsInv => OptionsAreOfKey
  BY DEF OptionsInv
<1> QED
  BY <1>1, <1>2, OptionsInvKept, PTL DEF Spec

(***************************************************************************)
(* MountQueue                                                              *)
(***************************************************************************)
QueueTypes ==
    /\ inFlight \in Nat /\ waitQueue \in Seq(Mounts)
    /\ pc \in [Mounts -> Places \cup {"over", "waiting"}]

QueueInv == QueueTypes /\ QueueSound

\* A mount goes on with its place.
Advance(m, to) == pc' = [pc EXCEPT ![m] = to] /\ UNCHANGED <<inFlight, waitQueue>>

LEMMA HoldersFinite == IsFiniteSet(Holders) /\ Cardinality(Holders) \in Nat
BY MountsAssumption, FS_Subset, FS_CardinalityType DEF Holders

LEMMA AdvanceKeeps ==
    ASSUME QueueInv, NEW m \in Mounts, pc[m] \in Places, NEW to \in Places, Advance(m, to)
    PROVE  QueueInv'
<1>1. Holders' = Holders
  BY DEF QueueInv, QueueTypes, Advance, Holders, Places
<1>2. QueueTypes'
  BY DEF QueueInv, QueueTypes, Advance, Places
<1>3. WithinConcurrency'
  BY <1>1 DEF QueueInv, QueueSound, WithinConcurrency, Advance
<1>4. \A n \in Mounts : pc'[n] = "waiting" <=> pc[n] = "waiting"
  BY DEF QueueInv, QueueTypes, Advance, Places
<1>5. NoIdlePlace'
  BY <1>4 DEF QueueInv, QueueSound, NoIdlePlace, Advance
<1> QED
  BY <1>2, <1>3, <1>5 DEF QueueInv, QueueSound

LEMMA AcquireKeeps ==
    ASSUME QueueInv, NEW m \in Mounts, pc[m] = "over", Acquire(m)
    PROVE  QueueInv'
<1> USE DEF QueueInv, QueueTypes, QueueSound
<1>1. CASE inFlight < Concurrency
  <2>1. /\ inFlight' = inFlight + 1 /\ waitQueue' = waitQueue
        /\ pc' = [pc EXCEPT ![m] = "granted"]
    BY <1>1 DEF Acquire
  <2>2. waitQueue = <<>>
    BY <1>1, ConcurrencyAssumption DEF NoIdlePlace
  <2>3. Holders' = Holders \cup {m} /\ m \notin Holders
    BY <2>1 DEF Holders, Places
  <2>4. Cardinality(Holders') = Cardinality(Holders) + 1
    BY <2>3, HoldersFinite, FS_AddElement
  <2>5. WithinConcurrency'
    BY <2>1, <2>4, <1>1, ConcurrencyAssumption DEF WithinConcurrency
  <2>6. \A n \in Mounts : pc'[n] = "waiting" <=> pc[n] = "waiting"
    BY <2>1
  <2>7. NoIdlePlace'
    BY <2>1, <2>2, <2>6 DEF NoIdlePlace
  <2>8. QueueTypes'
    BY <2>1 DEF Places
  <2> QED
    BY <2>5, <2>7, <2>8
<1>2. CASE ~(inFlight < Concurrency)
  <2>1. /\ inFlight' = inFlight /\ waitQueue' = Append(waitQueue, m)
        /\ pc' = [pc EXCEPT ![m] = "waiting"]
    BY <1>2 DEF Acquire
  <2>2. inFlight = Concurrency
    BY <1>2, ConcurrencyAssumption DEF WithinConcurrency
  <2>3. Holders' = Holders
    BY <2>1 DEF Holders, Places
  <2>4. WithinConcurrency'
    BY <2>1, <2>3 DEF WithinConcurrency
  <2>5. QueueTypes'
    BY <2>1 DEF Places
  <2>6. \A i \in DOMAIN waitQueue : waitQueue[i] # m
    BY DEF NoIdlePlace
  <2>7. /\ DOMAIN waitQueue' = DOMAIN waitQueue \cup {Len(waitQueue) + 1}
        /\ Len(waitQueue) + 1 \notin DOMAIN waitQueue
        /\ waitQueue'[Len(waitQueue) + 1] = m
        /\ \A i \in DOMAIN waitQueue : waitQueue'[i] = waitQueue[i]
    BY <2>1
  <2>8. \A n \in Mounts : pc'[n] = "waiting" <=> \E i \in DOMAIN waitQueue' : waitQueue'[i] = n
    <3> SUFFICES ASSUME NEW n \in Mounts
                 PROVE  pc'[n] = "waiting" <=> \E i \in DOMAIN waitQueue' : waitQueue'[i] = n
      OBVIOUS
    <3>1. CASE n = m
      BY <3>1, <2>1, <2>7
    <3>2. CASE n # m
      <4>1. pc'[n] = pc[n]
        BY <3>2, <2>1
      <4>2. (\E i \in DOMAIN waitQueue' : waitQueue'[i] = n)
                <=> \E i \in DOMAIN waitQueue : waitQueue[i] = n
        BY <3>2, <2>7
      <4> QED
        BY <4>1, <4>2 DEF NoIdlePlace
    <3> QED
      BY <3>1, <3>2
  <2>9. \A i, j \in DOMAIN waitQueue' : waitQueue'[i] = waitQueue'[j] => i = j
    BY <2>6, <2>7 DEF NoIdlePlace
  <2>10. NoIdlePlace'
    BY <2>1, <2>2, <2>8, <2>9 DEF NoIdlePlace
  <2> QED
    BY <2>4, <2>5, <2>10
<1> QED
  BY <1>1, <1>2

LEMMA ReleaseKeeps ==
    ASSUME QueueInv, NEW m \in Mounts, pc[m] \in Places, Release(m)
    PROVE  QueueInv'
<1> USE DEF QueueInv, QueueTypes, QueueSound
<1>1. m \in Holders /\ inFlight > 0 /\ OneLess = inFlight - 1
  <2>1. m \in Holders
    BY DEF Holders
  <2>2. Cardinality(Holders) # 0
    BY <2>1, HoldersFinite, FS_EmptySet
  <2> QED
    BY <2>1, <2>2 DEF WithinConcurrency, OneLess
<1>2. CASE waitQueue = <<>>
  <2>1. /\ inFlight' = inFlight - 1 /\ waitQueue' = <<>>
        /\ pc' = [pc EXCEPT ![m] = "over"]
    BY <1>1, <1>2 DEF Release
  <2>2. Holders' = Holders \ {m}
    BY <2>1 DEF Holders, Places
  <2>3. Cardinality(Holders') = Cardinality(Holders) - 1
    BY <2>2, <1>1, HoldersFinite, FS_RemoveElement
  <2>4. WithinConcurrency'
    BY <2>1, <2>3, <1>1, ConcurrencyAssumption DEF WithinConcurrency
  <2>5. \A n \in Mounts : pc[n] # "waiting" /\ pc'[n] # "waiting"
    BY <2>1, <1>2 DEF NoIdlePlace
  <2>6. NoIdlePlace'
    BY <2>1, <2>5 DEF NoIdlePlace
  <2>7. QueueTypes'
    BY <2>1, <1>1 DEF Places
  <2> QED
    BY <2>4, <2>6, <2>7
<1>3. CASE waitQueue # <<>>
  <2> DEFINE h == Head(waitQueue)
  <2>1. /\ inFlight' = inFlight /\ waitQueue' = Tail(waitQueue)
        /\ pc' = [pc EXCEPT ![m] = "over", ![h] = "granted"]
    BY <1>1, <1>3 DEF Release
  <2>2. /\ h \in Mounts /\ 1 \in DOMAIN waitQueue /\ waitQueue[1] = h
    BY <1>3
  <2>3. pc[h] = "waiting" /\ h # m /\ h \notin Holders
    BY <2>2 DEF NoIdlePlace, Holders, Places
  <2> HIDE DEF h
  <2>4. Holders' = (Holders \ {m}) \cup {h}
    BY <2>1, <2>2, <2>3 DEF Holders, Places
  <2>5. IsFiniteSet(Holders \ {m}) /\ Cardinality(Holders \ {m}) = Cardinality(Holders) - 1
    BY <1>1, HoldersFinite, FS_RemoveElement
  <2>6. Cardinality(Holders') = Cardinality(Holders \ {m}) + 1
    BY <2>3, <2>4, <2>5, FS_AddElement
  <2>7. WithinConcurrency'
    BY <2>1, <2>5, <2>6, HoldersFinite DEF WithinConcurrency
  <2>8. QueueTypes'
    <3>1. Tail(waitQueue) \in Seq(Mounts)
      BY <1>3
    <3>2. pc' \in [Mounts -> Places \cup {"over", "waiting"}]
      BY <2>1, <2>2 DEF Places
    <3> QED
      BY <2>1, <3>1, <3>2
  <2>9. /\ DOMAIN waitQueue' = 1 .. (Len(waitQueue) - 1)
        /\ \A i \in DOMAIN waitQueue' : i + 1 \in DOMAIN waitQueue /\ waitQueue'[i] = waitQueue[i + 1]
        /\ \A i \in DOMAIN waitQueue : i # 1 => i - 1 \in DOMAIN waitQueue'
    BY <2>1, <1>3
  <2>10. \A n \in Mounts : pc'[n] = "waiting" <=> \E i \in DOMAIN waitQueue' : waitQueue'[i] = n
    <3> SUFFICES ASSUME NEW n \in Mounts
                 PROVE  pc'[n] = "waiting" <=> \E i \in DOMAIN waitQueue' : waitQueue'[i] = n
      OBVIOUS
    <3>1. CASE n = h
      <4>1. pc'[n] = "granted"
        BY <3>1, <2>1, <2>2
      <4>2. \A i \in DOMAIN waitQueue' : waitQueue'[i] # n
        BY <3>1, <2>2, <2>9 DEF NoIdlePlace
      <4> QED
        BY <4>1, <4>2
    <3>2. CASE n # h /\ n = m
      <4>1. pc'[n] = "over" /\ pc[n] # "waiting"
        BY <3>2, <2>1, <2>2 DEF Places
      <4>2. \A i \in DOMAIN waitQueue' : waitQueue'[i] # n
        BY <4>1, <2>9 DEF NoIdlePlace
      <4> QED
        BY <4>1, <4>2
    <3>3. CASE n # h /\ n # m
      <4>1. pc'[n] = pc[n]
        BY <3>3, <2>1, <2>2
      <4>2. ASSUME pc[n] = "waiting"
            PROVE  \E i \in DOMAIN waitQueue' : waitQueue'[i] = n
        <5>1. PICK i \in DOMAIN waitQueue : waitQueue[i] = n
          BY <4>2 DEF NoIdlePlace
        <5>2. i # 1 /\ i - 1 \in DOMAIN waitQueue'
          BY <5>1, <3>3, <2>2, <2>9
        <5>3. waitQueue'[i - 1] = n
          BY <5>1, <5>2, <2>9
        <5> QED
          BY <5>2, <5>3
      <4>3. ASSUME NEW i \in DOMAIN waitQueue', waitQueue'[i] = n
            PROVE  pc[n] = "waiting"
        BY <4>3, <2>9 DEF NoIdlePlace
      <4> QED
        BY <4>1, <4>2, <4>3
    <3> QED
      BY <3>1, <3>2, <3>3
  <2>11. \A i, j \in DOMAIN waitQueue' : waitQueue'[i] = waitQueue'[j] => i = j
    BY <2>9 DEF NoIdlePlace
  <2>12. NoIdlePlace'
    BY <2>1, <2>10, <2>11, <1>3 DEF NoIdlePlace
  <2> QED
    BY <2>7, <2>8, <2>12
<1> QED
  BY <1>2, <1>3

(***************************************************************************)
(* The whole                                                               *)
(***************************************************************************)
\* A mount that is not cancelled has not lost what it drew.
DrawnIsFilled ==
    \A m \in Mounts : pc[m] = "drawn" /\ current[of[m]] = m => of[m] \in filled

MountInv == TypeOK /\ QueueSound /\ DrawnIsFilled /\ MountedIsFilled

LEMMA InvIsQueueInv == MountInv => QueueInv
BY DEF MountInv, QueueInv, TypeOK, QueueTypes

LEMMA InitInv == MountInit => MountInv
<1> SUFFICES ASSUME MountInit PROVE MountInv
  OBVIOUS
<1>1. TypeOK /\ DrawnIsFilled /\ MountedIsFilled
  BY DEF MountInit, TypeOK, DrawnIsFilled, MountedIsFilled, Places
<1>2. Holders = {}
  BY DEF MountInit, Holders, Places
<1>3. WithinConcurrency
  BY <1>2, FS_EmptySet, ConcurrencyAssumption DEF MountInit, WithinConcurrency
<1>4. NoIdlePlace
  BY DEF MountInit, NoIdlePlace
<1> QED
  BY <1>1, <1>3, <1>4 DEF MountInv, QueueSound

\* The mount of a release is over; the only one that moves besides it was waiting.
LEMMA ReleaseMoves ==
    ASSUME QueueInv, NEW m \in Mounts, Release(m)
    PROVE  \A n \in Mounts : pc'[n] = "drawn" => pc[n] = "drawn" /\ n # m
<1>1. CASE waitQueue = <<>>
  BY <1>1 DEF Release, QueueInv, QueueTypes
<1>2. CASE waitQueue # <<>>
  <2> DEFINE h == Head(waitQueue)
  <2>1. pc' = [pc EXCEPT ![m] = "over", ![h] = "granted"]
    BY <1>2 DEF Release
  <2>2. h \in Mounts
    BY <1>2 DEF QueueInv, QueueTypes
  <2> QED
    BY <2>1, <2>2 DEF QueueInv, QueueTypes
<1> QED
  BY <1>1, <1>2

LEMMA StartInv ==
    ASSUME MountInv, NEW s \in Slots, NEW m \in Mounts, Start(s, m)
    PROVE  MountInv'
<1> USE DEF MountInv
<1>1. QueueInv'
  BY InvIsQueueInv, AcquireKeeps DEF Start
<1>2. TypeOK'
  BY <1>1 DEF Start, TypeOK, QueueInv, QueueTypes
<1>3. pc'[m] # "drawn" /\ \A n \in Mounts : n # m => pc'[n] = pc[n]
  BY DEF Start, Acquire, TypeOK
<1>4. DrawnIsFilled'
  BY <1>3 DEF DrawnIsFilled, Start, TypeOK
<1>5. MountedIsFilled'
  BY DEF MountedIsFilled, Start, TypeOK
<1> QED
  BY <1>1, <1>2, <1>4, <1>5 DEF QueueInv

LEMMA HideInv ==
    ASSUME MountInv, NEW s \in Slots, Hide(s)
    PROVE  MountInv'
<1> USE DEF MountInv
<1>1. QueueSound'
  BY DEF Hide, QueueSound, queueVars, WithinConcurrency, NoIdlePlace, Holders
<1>2. TypeOK'
  BY DEF Hide, queueVars, TypeOK
<1>3. DrawnIsFilled'
  BY MountsAssumption DEF Hide, queueVars, TypeOK, DrawnIsFilled
<1>4. MountedIsFilled'
  BY DEF Hide, TypeOK, MountedIsFilled
<1> QED
  BY <1>1, <1>2, <1>3, <1>4

LEMMA GoOnInv ==
    ASSUME MountInv, NEW m \in Mounts, NEW from \in Places, NEW to \in Places, to # "drawn",
           GoOn(m, from, to)
    PROVE  MountInv'
<1> USE DEF MountInv
<1>1. QueueInv' /\ \A n \in Mounts : pc'[n] = "drawn" => pc[n] = "drawn"
  <2>1. CASE Cancelled(m)
    BY <2>1, InvIsQueueInv, ReleaseKeeps, ReleaseMoves DEF GoOn
  <2>2. CASE ~Cancelled(m)
    <3>1. Advance(m, to) /\ pc[m] \in Places
      BY <2>2 DEF GoOn, Advance
    <3>2. QueueInv'
      BY <3>1, InvIsQueueInv, AdvanceKeeps
    <3> QED
      BY <3>1, <3>2 DEF Advance, TypeOK
  <2> QED
    BY <2>1, <2>2
<1>2. TypeOK'
  BY <1>1 DEF GoOn, TypeOK, QueueInv, QueueTypes
<1>3. DrawnIsFilled' /\ MountedIsFilled'
  BY <1>1 DEF GoOn, DrawnIsFilled, MountedIsFilled
<1> QED
  BY <1>1, <1>2, <1>3 DEF QueueInv

LEMMA FillInv ==
    ASSUME MountInv, NEW m \in Mounts, Fill(m)
    PROVE  MountInv'
<1> USE DEF MountInv
<1>1. Advance(m, "drawn") /\ pc[m] \in Places
  BY DEF Fill, Advance, Places
<1>2. QueueInv'
  BY <1>1, InvIsQueueInv, AdvanceKeeps DEF Places
<1>3. TypeOK'
  BY <1>2 DEF Fill, TypeOK, QueueInv, QueueTypes
<1>4. DrawnIsFilled' /\ MountedIsFilled'
  BY DEF Fill, TypeOK, DrawnIsFilled, MountedIsFilled
<1> QED
  BY <1>2, <1>3, <1>4 DEF QueueInv

LEMMA MountedInv ==
    ASSUME MountInv, NEW m \in Mounts, Mounted(m)
    PROVE  MountInv'
<1> USE DEF MountInv
<1>1. QueueInv'
  BY InvIsQueueInv, ReleaseKeeps DEF Mounted, Places
<1>2. TypeOK'
  BY <1>1 DEF Mounted, TypeOK, QueueInv, QueueTypes
<1>3. DrawnIsFilled'
  BY InvIsQueueInv, ReleaseMoves DEF Mounted, DrawnIsFilled
<1>4. MountedIsFilled'
  <2>1. CASE Cancelled(m)
    BY <2>1 DEF Mounted, MountedIsFilled
  <2>2. CASE ~Cancelled(m)
    <3>1. of[m] \in filled
      BY <2>2 DEF Mounted, Cancelled, DrawnIsFilled
    <3> QED
      BY <2>2, <3>1 DEF Mounted, MountedIsFilled, TypeOK
  <2> QED
    BY <2>1, <2>2
<1> QED
  BY <1>1, <1>2, <1>3, <1>4 DEF QueueInv

LEMMA FailsInv ==
    ASSUME MountInv, NEW m \in Mounts, Fails(m)
    PROVE  MountInv'
<1> USE DEF MountInv
<1>1. QueueInv'
  BY InvIsQueueInv, ReleaseKeeps DEF Fails, Places
<1>2. TypeOK'
  BY <1>1 DEF Fails, TypeOK, QueueInv, QueueTypes
<1>3. \A n \in Mounts : pc'[n] = "drawn" => pc[n] = "drawn" /\ n # m
  BY InvIsQueueInv, ReleaseMoves DEF Fails
<1>4. CASE Cancelled(m)
  BY <1>1, <1>2, <1>3, <1>4 DEF Fails, DrawnIsFilled, MountedIsFilled, QueueInv
<1>5. CASE ~Cancelled(m)
  <2>1. /\ filled' = filled \ {of[m]} /\ ui' = [ui EXCEPT ![of[m]] = "error"]
        /\ UNCHANGED <<of, current>> /\ current[of[m]] = m
    BY <1>5 DEF Fails, Cancelled
  <2>2. DrawnIsFilled'
    BY <1>3, <2>1 DEF DrawnIsFilled
  <2>3. MountedIsFilled'
    BY <2>1 DEF MountedIsFilled, TypeOK
  <2> QED
    BY <1>1, <1>2, <2>2, <2>3 DEF QueueInv
<1> QED
  BY <1>4, <1>5

LEMMA NextInv == MountInv /\ [MountNext]_mountVars => MountInv'
<1> SUFFICES ASSUME MountInv, [MountNext]_mountVars PROVE MountInv'
  OBVIOUS
<1>1. ASSUME NEW s \in Slots, NEW m \in Mounts, Start(s, m) PROVE MountInv'
  BY <1>1, StartInv
<1>2. ASSUME NEW s \in Slots, Hide(s) PROVE MountInv'
  BY <1>2, HideInv
<1>3. ASSUME NEW m \in Mounts, Work(m) PROVE MountInv'
  <2>1. CASE Granted(m)
    BY <2>1, GoOnInv DEF Granted, Places
  <2>2. CASE Initialised(m)
    BY <2>2, GoOnInv DEF Initialised, Places
  <2>3. CASE Fill(m) \/ Mounted(m) \/ Fails(m)
    BY <2>3, FillInv, MountedInv, FailsInv
  <2> QED
    BY <1>3, <2>1, <2>2, <2>3 DEF Work
<1>4. CASE UNCHANGED mountVars
  BY <1>4 DEF mountVars, queueVars, MountInv, TypeOK, QueueSound, WithinConcurrency, NoIdlePlace,
              Holders, DrawnIsFilled, MountedIsFilled
<1> QED
  BY <1>1, <1>2, <1>3, <1>4 DEF MountNext

\* The inductive invariant: the queue and the places agree, and content is where it is shown.
THEOREM MountInvariant == MountSpec => []MountInv
<1>1. MountInit => MountInv
  BY InitInv
<1>2. MountInv /\ [MountNext]_mountVars => MountInv'
  BY NextInv
<1> QED
  BY <1>1, <1>2, PTL DEF MountSpec

\* Never more than Concurrency cards are mounted at a time, nobody waits while a place is free,
\* and the queue holds exactly those who wait, whatever was cancelled where.
THEOREM QueueIsSound == MountSpec => []QueueSound
<1>1. MountInv => QueueSound
  BY DEF MountInv
<1> QED
  BY <1>1, MountInvariant, PTL

\* A slot shown as mounted has content, although cancelled mounts of it may still draw or fail.
THEOREM MountedStaysFilled == MountSpec => []MountedIsFilled
<1>1. MountInv => MountedIsFilled
  BY DEF MountInv
<1> QED
  BY <1>1, MountInvariant, PTL

\* How the queue moves when a mount gives its place back.
LEMMA ReleaseServesFirst ==
    ASSUME QueueInv, NEW m \in Mounts, Release(m)
    PROVE  ~Overtaken
<1>1. CASE waitQueue = <<>>
  BY <1>1 DEF Release, Overtaken
<1>2. CASE waitQueue # <<>>
  <2>1. Head(waitQueue) \in Mounts
    BY <1>2 DEF QueueInv, QueueTypes
  <2>2. pc'[Head(waitQueue)] = "granted"
    BY <1>2, <2>1 DEF Release, QueueInv, QueueTypes
  <2> QED
    BY <1>2, <2>2 DEF Release, Overtaken
<1> QED
  BY <1>1, <1>2

\* First come, first served, for any number of mounts, cancelled or not: each keeps its place in
\* the queue until the first of all gets a place, and then moves up by one.
THEOREM NobodyIsOvertaken == MountSpec => [][~Overtaken]_mountVars
<1>1. ASSUME MountInv, MountNext PROVE ~Overtaken
  <2>0. QueueInv
    BY <1>1, InvIsQueueInv
  <2>1. ASSUME UNCHANGED waitQueue PROVE ~Overtaken
    BY <2>1 DEF Overtaken
  <2>2. ASSUME NEW s \in Slots, NEW m \in Mounts, Start(s, m) PROVE ~Overtaken
    <3>1. waitQueue' = waitQueue \/ waitQueue' = Append(waitQueue, m)
      BY <2>2 DEF Start, Acquire
    <3>2. \A i \in DOMAIN waitQueue : i \in DOMAIN waitQueue' /\ waitQueue'[i] = waitQueue[i]
      BY <2>0, <3>1 DEF QueueInv, QueueTypes
    <3> QED
      BY <3>2 DEF Overtaken
  <2>3. ASSUME NEW s \in Slots, Hide(s) PROVE ~Overtaken
    BY <2>1, <2>3 DEF Hide, queueVars
  <2>4. ASSUME NEW m \in Mounts, Work(m) PROVE ~Overtaken
    <3>1. UNCHANGED waitQueue \/ Release(m)
      BY <2>4 DEF Work, Granted, Initialised, GoOn, Fill, Mounted, Fails
    <3> QED
      BY <2>0, <2>1, <3>1, ReleaseServesFirst
  <2> QED
    BY <1>1, <2>2, <2>3, <2>4 DEF MountNext
<1>2. MountInv /\ [MountNext]_mountVars => [~Overtaken]_mountVars
  BY <1>1
<1> QED
  BY <1>2, MountInvariant, PTL DEF MountSpec
===============================================================================
