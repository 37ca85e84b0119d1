---------------------------- MODULE QueueReducer ----------------------------
(***************************************************************************)
(* The shared QConnect queue as a client rebuilds it from server events:   *)
(* apply_event of crates/qconnect-core/src/reducer.rs on the events that   *)
(* map_server_event of crates/qconnect-app/src/app.rs makes of them.       *)
(*                                                                         *)
(* The play order under shuffle is a list of indexes into the queue, so    *)
(* every edit of the queue has to renumber it.  Indexes start at 1 here.   *)
(* The seed of a shuffle is not computed: build_shuffle_order yields some  *)
(* permutation.  The version and the autoplay mode and loading flags are   *)
(* copied from each event and are left out, as is QueueError, which writes *)
(* nothing else.                                                           *)
(***************************************************************************)
EXTENDS Naturals, Sequences, FiniteSets, SequencesExt

CONSTANTS
    Ids,          \* queue item ids, which the server hands out
    AutoplayIds,  \* ids of autoplay items
    NoId,         \* no anchor or pivot, or one that is not in the queue
    NoOrder,      \* shuffle_order is None
    MaxLength     \* bound: tracks in one event

ASSUME IdAssumption == NoId \notin Ids /\ MaxLength \in Nat

VARIABLES
    items,     \* queue_items
    shuffle,   \* shuffle_mode
    order,     \* shuffle_order
    autoplay,  \* autoplay_items
    event      \* history: the event applied last and its anchor

vars == <<items, shuffle, order, autoplay, event>>

TypeOK ==
    /\ items \in Seq(Ids)
    /\ shuffle \in BOOLEAN
    /\ order \in Seq(1..Len(items)) \cup {NoOrder}
    /\ autoplay \subseteq AutoplayIds

Init ==
    /\ items = <<>> /\ shuffle = FALSE /\ order = NoOrder /\ autoplay = {}
    /\ event = [type |-> "none", after |-> NoId]

Saw(type, after) == event' = [type |-> type, after |-> after]
------------------------------------------------------------------------------
Position(s, e) == CHOOSE i \in 1..Len(s) : s[i] = e

\* insertion_index: how many tracks come before the inserted ones
InsertionIndex(s, after) == IF Contains(s, after) THEN Position(s, after) ELSE 0

Spliced(s, n, t) == SubSeq(s, 1, n) \o t \o SubSeq(s, n + 1, Len(s))

\* Vec::retain and filter: the elements in S, in their order.  It is SelectSeq,
\* written without recursion.
Kept(s, S) ==
    LET places == {i \in 1..Len(s) : s[i] \in S}
        Rank(i) == Cardinality({j \in places : j <= i})
    IN  [k \in 1..Cardinality(places) |-> s[CHOOSE i \in places : Rank(i) = k]]

Plus(n, s) == [i \in DOMAIN s |-> n + s[i]]

\* build_shuffle_order; a pivot comes first
ShuffleOrders(n, pivot) == {o \in SetToSeqs(1..n) : pivot \in 1..n => o[1] = pivot}

\* Without a seed there is no order.
NewOrders(queue, seeded, pivot) ==
    IF ~seeded THEN {NoOrder}
    ELSE ShuffleOrders(Len(queue), IF Contains(queue, pivot) THEN Position(queue, pivot) ELSE 0)

\* What an edit extends: a queue that was empty has an order, known or not.
PriorOrder == IF items = <<>> THEN <<>> ELSE order

ResetAutoplay(reset) == autoplay' = IF reset THEN {} ELSE autoplay
------------------------------------------------------------------------------
(* apply_event, one action per event *)

QueueStateReplaced(tracks, mode, indexes, next) ==
    /\ items' = tracks /\ shuffle' = mode /\ autoplay' = next
    /\ order' = IF mode /\ indexes # <<>> THEN indexes ELSE NoOrder
    /\ Saw("replaced", NoId)

TracksAdded(tracks, seeded, reset) ==
    /\ items' = items \o tracks
    /\ IF ~shuffle THEN UNCHANGED order
       ELSE IF PriorOrder = NoOrder \/ ~seeded THEN order' = NoOrder
       ELSE \E added \in ShuffleOrders(Len(tracks), 0) :
               order' = PriorOrder \o Plus(Len(items), added)
    /\ UNCHANGED shuffle /\ ResetAutoplay(reset)
    /\ Saw("added", NoId)

TracksLoaded(tracks, mode, seeded, pivot, reset) ==
    /\ items' = tracks /\ shuffle' = mode
    /\ order' \in IF mode THEN NewOrders(tracks, seeded, pivot) ELSE {NoOrder}
    /\ ResetAutoplay(reset)
    /\ Saw("loaded", NoId)

\* Faulty variant: the track at the insertion index is not moved on.
ShiftedLate(s, at, n) == [i \in DOMAIN s |-> IF s[i] > at + 1 THEN s[i] + n ELSE s[i]]

\* Indexes at or behind the insertion move on by the number of new tracks.
Shifted(s, at, n) == [i \in DOMAIN s |-> IF s[i] > at THEN s[i] + n ELSE s[i]]

\* Faulty variant: the anchor's place in the queue, not its turn.
TurnIsIndex(after) == InsertionIndex(items, after)

\* The anchor's turn in the play order, or none
TurnOf(after) ==
    IF Contains(items, after) THEN InsertionIndex(PriorOrder, Position(items, after)) ELSE 0

TracksInserted(tracks, after, seeded, reset) ==
    /\ LET at == InsertionIndex(items, after)
           n == Len(tracks)
       IN  /\ items' = Spliced(items, at, tracks)
           /\ IF ~shuffle THEN UNCHANGED order
              ELSE IF PriorOrder = NoOrder \/ ~seeded THEN order' = NoOrder
              ELSE \E added \in ShuffleOrders(n, 0) :
                      order' = Spliced(Shifted(PriorOrder, at, n), TurnOf(after), Plus(at, added))
    /\ UNCHANGED shuffle /\ ResetAutoplay(reset)
    /\ Saw("inserted", after)

\* Old indexes become indexes of the same tracks in the new queue.
Renumbered(s, queue) ==
    LET kept == Kept(s, {i \in 1..Len(items) : Contains(queue, items[i])})
    IN  [i \in DOMAIN kept |-> Position(queue, items[kept[i]])]

TracksRemoved(ids, reset) ==
    /\ items' = Kept(items, Ids \ ids)
    /\ order' = IF order = NoOrder THEN NoOrder ELSE Renumbered(order, items')
    /\ UNCHANGED shuffle /\ ResetAutoplay(reset)
    /\ Saw("removed", NoId)

\* Faulty variant: the order keeps its indexes, so other tracks take the turns.
OrderUntouched(queue) == order

OrderAfterMove(queue) == IF order = NoOrder THEN NoOrder ELSE Renumbered(order, queue)

\* The named tracks, as far as they are in the queue, move behind the anchor.
TracksReordered(ids, after, reset) ==
    /\ LET moving == Kept(ids, ToSet(items))
           remaining == Kept(items, Ids \ ToSet(ids))
       IN  IF moving = <<>> THEN UNCHANGED <<items, order>>
           ELSE /\ items' = Spliced(remaining, InsertionIndex(remaining, after), moving)
                /\ order' = OrderAfterMove(items')
    /\ UNCHANGED shuffle /\ ResetAutoplay(reset)
    /\ Saw("reordered", after)

QueueCleared ==
    /\ items' = <<>> /\ autoplay' = {} /\ shuffle' = FALSE /\ order' = NoOrder
    /\ Saw("cleared", NoId)

ShuffleModeSet(mode, seeded, pivot, reset) ==
    /\ shuffle' = mode
    /\ order' \in IF mode THEN NewOrders(items, seeded, pivot) ELSE {NoOrder}
    /\ UNCHANGED items /\ ResetAutoplay(reset)
    /\ Saw("shuffled", NoId)

AutoplayModeSet(reset) ==
    /\ ResetAutoplay(reset)
    /\ UNCHANGED <<items, shuffle, order>> /\ Saw("autoplay", NoId)

AutoplayTracksLoaded(tracks) ==
    /\ autoplay' = tracks
    /\ UNCHANGED <<items, shuffle, order>> /\ Saw("autoplay", NoId)

AutoplayTracksRemoved(ids) ==
    /\ autoplay' = autoplay \ ids
    /\ UNCHANGED <<items, shuffle, order>> /\ Saw("autoplay", NoId)
------------------------------------------------------------------------------
(* What the server may send: external *)

\* Distinct ids of S, at most n of them
Lists(S, n) == UNION {{s \in [1..k -> S] : IsInjective(s)} : k \in 0..n}

Fresh == Lists(Ids \ ToSet(items), MaxLength)

Anchors == Ids \cup {NoId}

Snapshot ==
    \E tracks \in Lists(Ids, MaxLength), next \in SUBSET AutoplayIds, mode \in BOOLEAN :
       \E indexes \in {<<>>} \cup SetToSeqs(1..Len(tracks)) :
          QueueStateReplaced(tracks, mode, indexes, next)

\* TracksLoaded may leave the mode out, which keeps it.
Edit ==
    \E reset \in BOOLEAN, seeded \in BOOLEAN :
       \/ \E tracks \in Fresh : TracksAdded(tracks, seeded, reset)
       \/ \E tracks \in Fresh, after \in Anchors : TracksInserted(tracks, after, seeded, reset)
       \/ \E tracks \in Lists(Ids, MaxLength), mode \in BOOLEAN, pivot \in Anchors :
             TracksLoaded(tracks, mode, seeded, pivot, reset)
       \/ \E mode \in BOOLEAN, pivot \in Anchors : ShuffleModeSet(mode, seeded, pivot, reset)
       \/ AutoplayModeSet(reset)

Rearrange ==
    \E reset \in BOOLEAN :
       \/ \E ids \in SUBSET Ids : TracksRemoved(ids, reset)
       \/ \E ids \in Lists(Ids, MaxLength), after \in Anchors : TracksReordered(ids, after, reset)

Autoplay ==
    \/ \E tracks \in SUBSET AutoplayIds : AutoplayTracksLoaded(tracks)
    \/ \E ids \in SUBSET AutoplayIds : AutoplayTracksRemoved(ids)

Next == Snapshot \/ Edit \/ Rearrange \/ Autoplay \/ QueueCleared

Spec == Init /\ [][Next]_vars
------------------------------------------------------------------------------
(* Properties *)

\* The order a renderer plays is a permutation of the queue, and exists only
\* under shuffle, after any sequence of edits (is_valid_ordered_queue_shuffle_-
\* order in qconnect-app rejects anything else and shuffling stops).
OrderCoversQueue ==
    /\ TypeOK
    /\ order # NoOrder => shuffle /\ Len(order) = Len(items) /\ ToSet(order) = 1..Len(items)

PlayOrder == IF order = NoOrder THEN items ELSE [i \in DOMAIN order |-> items[order[i]]]

\* The step leaves the queue in the same kind of order.
SameKind == (order = NoOrder) = (order' = NoOrder)

\* The turn of u comes no later than the turn of v.
InTurn(s, u, v) == \E i \in DOMAIN s : s[i] = u /\ \E j \in i..Len(s) : s[j] = v

TurnsStay ==
    LET before == PlayOrder
        after == PlayOrder'
    IN  \A u, v \in ToSet(items) \cap ToSet(items') : InTurn(after, u, v) = InTurn(before, u, v)

\* An edit does not change the turns of the tracks that stay: what has been
\* played stays behind the cursor and what is to come stays ahead of it, also
\* when the queue behind a shuffle is rearranged (apply_event's renumbering).
StayersKeepTheirTurn ==
    [][SameKind /\ (\/ event'.type \in {"added", "inserted", "removed"}
                    \/ event'.type = "reordered" /\ order # NoOrder)
          => TurnsStay]_vars

\* What the step added comes right behind the anchor in the play order.
NewOnesAreNext ==
    LET turn == InsertionIndex(PlayOrder', IF Contains(items, event'.after) THEN event'.after ELSE NoId)
        new == Len(items') - Len(items)
    IN  \A i \in turn + 1..turn + new :
           i \in DOMAIN PlayOrder' /\ ~Contains(items, PlayOrder'[i])

\* Inserted tracks take the turns right after their anchor, or the first ones,
\* with and without shuffle (TracksInserted: "play next").
InsertedPlayNext ==
    [][SameKind /\ event'.type = "inserted" => NewOnesAreNext]_vars
==============================================================================
