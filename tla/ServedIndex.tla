----------------------------- MODULE ServedIndex -----------------------------
(***************************************************************************)
(* What the API promises its clients about reloading, with no tasks, no    *)
(* locks and no requests in flight: one index is served at a time, it is   *)
(* only ever replaced by a newer one, its format filters always belong to  *)
(* it, and posted collections stay queryable until it is replaced or the   *)
(* store drops them.  HotReload is shown to implement this when formats    *)
(* are not reloaded on their own.                                          *)
(***************************************************************************)
EXTENDS Integers

CONSTANTS
    Builds,      \* index builds
    BuiltAt,     \* BuiltAt[b]: when build b was made
    Collections  \* ids of posted collections

VARIABLES
    served,   \* the index queries are answered from
    filters,  \* the index the format filters were computed for
    shelf     \* the collections a query may name

servedVars == <<served, filters, shelf>>

ServedInit ==
    /\ served \in Builds
    /\ filters = served
    /\ shelf = {}

\* A newer index comes into service, with its own filters and no collections.
Upgrade ==
    /\ served' \in {b \in Builds : BuiltAt[b] > BuiltAt[served]}
    /\ filters' = served'
    /\ shelf' = {}

Post(id) ==
    /\ shelf' = shelf \cup {id}
    /\ UNCHANGED <<served, filters>>

Forget(id) ==
    /\ shelf' = shelf \ {id}
    /\ UNCHANGED <<served, filters>>

ServedNext ==
    \/ Upgrade
    \/ \E id \in Collections : Post(id) \/ Forget(id)

ServedSpec == ServedInit /\ [][ServedNext]_servedVars
==============================================================================
