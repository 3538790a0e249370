------------------------------ MODULE MountQueue ------------------------------
(***************************************************************************)
(* The card slots of the demo UI's result list and the queue in which they  *)
(* wait to be rendered.  A slot that scrolls into view starts a mount: it    *)
(* takes one of the Concurrency places or waits for one, initialises the     *)
(* renderer, and lets it fill its node.  A slot that scrolls away, is given  *)
(* another card or locale, or leaves the list, forgets its mount: that one   *)
(* still takes its place in turn and gives it back.                          *)
(*                                                                          *)
(* Mounts are the calls of the effect's async function; the first that is    *)
(* over stands for the next call.                                            *)
(***************************************************************************)
EXTENDS Integers, Sequences, FiniteSets

CONSTANTS
    Slots,         \* AlteredCardSlot components
    Mounts,        \* calls of withAlteredMountSlot under way; bounds how many
    Concurrency,   \* ALTERED_MOUNT_CONCURRENCY
    NoMount

ASSUME MountsAssumption == IsFiniteSet(Mounts) /\ NoMount \notin Mounts
ASSUME ConcurrencyAssumption == Concurrency \in Nat \ {0}

VARIABLES
    inFlight,      \* places taken
    waitQueue,     \* mounts that wait for a place
    pc,            \* pc[m]: where mount m is
    of,            \* of[m]: the slot m was started for
    current,       \* current[s]: the mount of s that is not cancelled
    filled,        \* slots whose node has content
    ui             \* ui[s]: what React shows over the node

queueVars == <<inFlight, waitQueue, pc>>
mountVars == <<queueVars, of, current, filled, ui>>

Cancelled(m) == current[of[m]] # m

Free == CHOOSE m \in Mounts : pc[m] = "over"

MountInit ==
    /\ inFlight = 0 /\ waitQueue = <<>>
    /\ pc = [m \in Mounts |-> "over"]
    /\ of \in [Mounts -> Slots]
    /\ current = [s \in Slots |-> NoMount]
    /\ filled = {} /\ ui = [s \in Slots |-> "empty"]

(***************************************************************************)
(* withAlteredMountSlot                                                    *)
(***************************************************************************)
\* acquireSlot
Acquire(m) ==
    IF inFlight < Concurrency
    THEN /\ inFlight' = inFlight + 1 /\ UNCHANGED waitQueue
         /\ pc' = [pc EXCEPT ![m] = "granted"]
    ELSE /\ waitQueue' = Append(waitQueue, m) /\ UNCHANGED inFlight
         /\ pc' = [pc EXCEPT ![m] = "waiting"]

OneLess == IF inFlight = 0 THEN 0 ELSE inFlight - 1

\* Mutant: the place given back goes to the last in line.
ReleaseToLast(m) ==
    IF waitQueue = <<>>
    THEN /\ inFlight' = OneLess /\ UNCHANGED waitQueue
         /\ pc' = [pc EXCEPT ![m] = "over"]
    ELSE LET n == Len(waitQueue)
         IN  /\ waitQueue' = SubSeq(waitQueue, 1, n - 1) /\ inFlight' = OneLess + 1
             /\ pc' = [pc EXCEPT ![m] = "over", ![waitQueue[n]] = "granted"]

\* Mutant: the next in line goes on without counting itself.
ReleaseUncounted(m) ==
    /\ inFlight' = OneLess
    /\ IF waitQueue = <<>>
       THEN UNCHANGED waitQueue /\ pc' = [pc EXCEPT ![m] = "over"]
       ELSE /\ waitQueue' = Tail(waitQueue)
            /\ pc' = [pc EXCEPT ![m] = "over", ![Head(waitQueue)] = "granted"]

\* releaseSlot: the next in line takes the place in the same step.
Release(m) ==
    IF waitQueue = <<>>
    THEN /\ inFlight' = OneLess /\ UNCHANGED waitQueue
         /\ pc' = [pc EXCEPT ![m] = "over"]
    ELSE /\ waitQueue' = Tail(waitQueue) /\ inFlight' = OneLess + 1
         /\ pc' = [pc EXCEPT ![m] = "over", ![Head(waitQueue)] = "granted"]

(***************************************************************************)
(* AlteredCardSlot                                                         *)
(***************************************************************************)
\* The effect on visible, card and locale, after the cleanup of the one before.
Start(s, m) ==
    /\ pc[m] = "over" /\ m = Free
    /\ current' = [current EXCEPT ![s] = m]
    /\ of' = [of EXCEPT ![m] = s]
    /\ filled' = filled \ {s} /\ ui' = [ui EXCEPT ![s] = "placeholder"]
    /\ Acquire(m)

\* The slot scrolls away or leaves the list.
Hide(s) ==
    /\ current[s] # NoMount
    /\ current' = [current EXCEPT ![s] = NoMount]
    /\ filled' = filled \ {s} /\ ui' = [ui EXCEPT ![s] = "empty"]
    /\ UNCHANGED <<queueVars, of>>

\* A mount that has its place ends at once if it was cancelled.
GoOn(m, from, to) ==
    /\ pc[m] = from
    /\ IF Cancelled(m) THEN Release(m)
       ELSE pc' = [pc EXCEPT ![m] = to] /\ UNCHANGED <<inFlight, waitQueue>>
    /\ UNCHANGED <<of, current, filled, ui>>

Granted(m) == GoOn(m, "granted", "init")
Initialised(m) == GoOn(m, "init", "mounting")

\* mountFromApi fills the node, cancelled or not.
Fill(m) ==
    /\ pc[m] = "mounting" /\ pc' = [pc EXCEPT ![m] = "drawn"]
    /\ filled' = filled \cup {of[m]}
    /\ UNCHANGED <<inFlight, waitQueue, of, current, ui>>

Mounted(m) ==
    /\ pc[m] = "drawn" /\ Release(m)
    /\ ui' = IF Cancelled(m) THEN ui ELSE [ui EXCEPT ![of[m]] = "mounted"]
    /\ UNCHANGED <<of, current, filled>>

\* Mutant: a failure clears the node whether or not the mount was cancelled.
FailsAnyway(m) ==
    /\ pc[m] \in {"init", "mounting", "drawn"} /\ Release(m)
    /\ filled' = filled \ {of[m]}
    /\ ui' = IF Cancelled(m) THEN ui ELSE [ui EXCEPT ![of[m]] = "error"]
    /\ UNCHANGED <<of, current>>

\* init or mountFromApi fails, or the card cannot be converted.
Fails(m) ==
    /\ pc[m] \in {"init", "mounting", "drawn"} /\ Release(m)
    /\ IF Cancelled(m) THEN UNCHANGED <<filled, ui>>
       ELSE filled' = filled \ {of[m]} /\ ui' = [ui EXCEPT ![of[m]] = "error"]
    /\ UNCHANGED <<of, current>>

Work(m) == Granted(m) \/ Initialised(m) \/ Fill(m) \/ Mounted(m) \/ Fails(m)

MountNext ==
    \/ \E s \in Slots, m \in Mounts : Start(s, m)
    \/ \E s \in Slots : Hide(s)
    \/ \E m \in Mounts : Work(m)

\* Promises settle; nobody has to scroll.
MountSpec == MountInit /\ [][MountNext]_mountVars /\ \A m \in Mounts : WF_mountVars(Work(m))

(***************************************************************************)
(* Properties                                                              *)
(***************************************************************************)
Places == {"granted", "init", "mounting", "drawn"}
Holders == {m \in Mounts : pc[m] \in Places}

TypeOK ==
    /\ inFlight \in Nat /\ waitQueue \in Seq(Mounts)
    /\ pc \in [Mounts -> Places \cup {"over", "waiting"}]
    /\ of \in [Mounts -> Slots]
    /\ current \in [Slots -> Mounts \cup {NoMount}]
    /\ filled \subseteq Slots
    /\ ui \in [Slots -> {"empty", "placeholder", "mounted", "error"}]

\* The cards being mounted are never more than Concurrency, and inFlight counts them, through
\* every hand-over of a place and every mount cancelled before, in or after the queue.
WithinConcurrency == inFlight = Cardinality(Holders) /\ inFlight <= Concurrency

\* Nobody waits while a place is free, and who waits is in the queue, once.
NoIdlePlace ==
    /\ waitQueue # <<>> => inFlight = Concurrency
    /\ \A m \in Mounts : pc[m] = "waiting" <=> \E i \in DOMAIN waitQueue : waitQueue[i] = m
    /\ \A i, j \in DOMAIN waitQueue : waitQueue[i] = waitQueue[j] => i = j

\* Both: the hand-over neither loses a place nor makes one.
QueueSound == WithinConcurrency /\ NoIdlePlace

\* A slot without its placeholder and without an error has content: mounts cancelled earlier,
\* which end or fail later, do not take it away.
MountedIsFilled == \A s \in Slots : ui[s] = "mounted" => s \in filled

\* A card that stays in view is mounted in the end, or says why not, however many cancelled
\* mounts are before it in the queue and others come behind it: its slot shows a placeholder
\* for ever only if its mount is started anew again and again.
EventuallyMounted ==
    \A s \in Slots :
        []<>(ui[s] # "placeholder") \/ []<><<current'[s] # current[s]>>_mountVars

\* Who waits is not overtaken: the queue grows behind those that wait, and shrinks only by the
\* place that its first gets.
Overtaken ==
    /\ ~(\A i \in DOMAIN waitQueue : i \in DOMAIN waitQueue' /\ waitQueue'[i] = waitQueue[i])
    /\ ~(waitQueue # <<>> /\ waitQueue' = Tail(waitQueue) /\ pc'[Head(waitQueue)] = "granted")
==============================================================================
