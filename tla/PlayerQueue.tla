----------------------------- MODULE PlayerQueue -----------------------------
(***************************************************************************)
(* The playback queue: QueueManager of crates/qbz-player/src/queue.rs, one *)
(* action per operation.  Every operation takes the one lock and runs to   *)
(* its end.                                                                *)
(*                                                                         *)
(* A row is one occurrence of a song in the queue; the same song may be    *)
(* queued twice.  Indexes start at 1 here and 0 is the code's None, so     *)
(* shuffle_position is one more than in the code.  While shuffle is off    *)
(* nothing reads the shuffle order, and every way into shuffle replaces    *)
(* it: it is <<>> then.  The random generator is any permutation.  A call  *)
(* that names a stale row or index is refused and changes nothing.         *)
(***************************************************************************)
EXTENDS Naturals, Sequences, SequencesExt, FiniteSetsExt

CONSTANTS
    Rows,        \* occurrences that may be queued
    SongOf,      \* the catalogue id of each row
    Playable,    \* rows that are local or streamable
    Queues,      \* lists a replacement may bring
    Marks,       \* songs the user may stop after
    NoMark,      \* no song to stop after
    MaxLength,   \* bound: rows in the queue
    MaxHistory,  \* MAX_HISTORY_LEN
    MaxManual    \* bound: what the two counters of added rows may reach

ASSUME QueueAssumption ==
    /\ SongOf \in [Rows -> Range(SongOf)] /\ Playable \subseteq Rows
    /\ Queues \subseteq Seq(Rows) /\ \A q \in Queues : IsInjective(q)
    /\ NoMark \notin Range(SongOf) /\ Marks \subseteq Range(SongOf)
    /\ MaxLength \in Nat /\ MaxHistory \in Nat \ {0} /\ MaxManual \in Nat

VARIABLES
    tracks,            \* the queue
    current_index,     \* the row that plays
    shuffle,           \* whether playback follows shuffle_order
    shuffle_order,     \* indexes into tracks
    shuffle_position,  \* the turn of the current row in shuffle_order
    repeat,            \* the repeat mode
    history,           \* indexes into tracks, the oldest first
    stop_after,        \* the song after which playback stops
    manual_next,       \* rows added by "Play next" and still ahead
    manual_later,      \* rows added by "Play later" and still ahead
    poisoned           \* an operation panicked while it held the lock

cursor == <<current_index, shuffle_position>>
order == <<shuffle, shuffle_order>>
manual == <<manual_next, manual_later>>
vars == <<tracks, cursor, order, repeat, history, stop_after, manual, poisoned>>

Modes == {"off", "all", "one"}
Indices == 1..Len(tracks)

TypeOK ==
    /\ tracks \in Seq(Rows) /\ IsInjective(tracks)
    /\ current_index \in 0..Len(tracks)
    /\ shuffle \in BOOLEAN /\ poisoned \in BOOLEAN /\ repeat \in Modes
    /\ shuffle_order \in Seq(Indices) /\ IsInjective(shuffle_order)
    /\ ~shuffle => shuffle_order = <<>>
    /\ shuffle_position \in Nat \ {0}
    /\ history \in Seq(Indices) /\ IsInjective(history)
    /\ Len(history) <= MaxHistory
    /\ stop_after \in {SongOf[tracks[i]] : i \in Indices} \cup {NoMark}
    /\ manual_next \in Nat /\ manual_later \in Nat

Init ==
    /\ tracks = <<>> /\ current_index = 0 /\ shuffle = FALSE
    /\ shuffle_order = <<>> /\ shuffle_position = 1 /\ repeat = "off"
    /\ history = <<>> /\ stop_after = NoMark
    /\ manual_next = 0 /\ manual_later = 0 /\ poisoned = FALSE
------------------------------------------------------------------------------
Position(s, e) == SelectInSeq(s, LAMBDA x : x = e)   \* 0 when there is none
First(s) == IF s = <<>> THEN 0 ELSE s[1]
Orders == [n \in 0..MaxLength |-> SetToSeqs(1..n)]
Line(n) == [i \in 1..n |-> i]
Lesser(a, b) == Min({a, b})
Greater(a, b) == Max({a, b})

\* what the queue view shows as upcoming: the path from the row that plays
Path == IF shuffle THEN shuffle_order ELSE Line(Len(tracks))
Here == IF current_index = 0 THEN 0 ELSE IF shuffle THEN shuffle_position ELSE current_index
Upcoming == LET ahead == SubSeq(Path, Here + 1, Len(Path))
            IN  [k \in DOMAIN ahead |-> tracks[ahead[k]]]

\* record_history_internal
Record(h, i) ==
    LET longer == Append(Remove(h, i), i)
    IN  IF Len(longer) > MaxHistory THEN Tail(longer) ELSE longer

Shifted(s, i) == [k \in DOMAIN s |-> IF s[k] >= i THEN s[k] + 1 ELSE s[k]]

\* Faulty variant: a row that moves past another leaves it where it was.
MovedAlone(i, from, to) == IF i = from THEN to ELSE i

\* remap_index_after_move
Moved(i, from, to) ==
    CASE i = from -> to
      [] from < i /\ i <= to -> i - 1
      [] to <= i /\ i < from -> i + 1
      [] OTHER -> i

\* the turn of a row in the order, where the code looks it up again
Aligned(o, i, otherwise) == IF Contains(o, i) THEN Position(o, i) ELSE otherwise

\* remap_history_by_track_id_internal: the nth copy of a song becomes the nth
\* copy in the new list
Copies(s, song) == SelectSeq(Line(Len(s)), LAMBDA i : SongOf[s[i]] = song)
Remapped(new) ==
    LET Paired(i) == LET song == SongOf[tracks[i]]
                         nth  == Position(Copies(tracks, song), i)
                     IN  IF nth <= Len(Copies(new, song)) THEN Copies(new, song)[nth] ELSE 0
    IN  Remove([k \in DOMAIN history |-> Paired(history[k])], 0)
------------------------------------------------------------------------------
(* Adding rows *)

Fresh(r) == ~Contains(tracks, r) /\ Len(tracks) < MaxLength

\* add_track, and each row of add_tracks
AddTrack(r) ==
    /\ Fresh(r)
    /\ tracks' = Append(tracks, r)
    /\ shuffle_order' = IF shuffle THEN Append(shuffle_order, Len(tracks) + 1) ELSE shuffle_order
    /\ UNCHANGED <<cursor, shuffle, repeat, history, stop_after, manual, poisoned>>

\* the row goes after the current one and, under shuffle, to a turn of its own
Insert(r, index, turn) ==
    /\ tracks' = InsertAt(tracks, index, r)
    /\ shuffle_order' =
         IF shuffle THEN InsertAt(Shifted(shuffle_order, index),
                                  Lesser(turn, Len(shuffle_order) + 1), index)
         ELSE shuffle_order
    /\ UNCHANGED <<cursor, shuffle, repeat, history, stop_after, poisoned>>

\* Faulty variant: the row takes the turn of the one that plays.
NextTurnOfCurrent == shuffle_position

\* where the upcoming rows begin; an idle queue has not begun
NextTurn == IF current_index = 0 THEN 1 ELSE shuffle_position + 1

AddTrackNext(r) ==
    /\ Fresh(r) /\ manual_next < MaxManual
    /\ Insert(r, current_index + 1, NextTurn)
    /\ manual_next' = manual_next + 1 /\ UNCHANGED manual_later

AddTrackLater(r) ==
    /\ Fresh(r) /\ manual_later < MaxManual
    /\ LET block == manual_next + manual_later
           index == IF shuffle THEN current_index + 1
                    ELSE Lesser(current_index + 1 + block, Len(tracks) + 1)
       IN  Insert(r, index, NextTurn + block)
    /\ manual_later' = manual_later + 1 /\ UNCHANGED manual_next
------------------------------------------------------------------------------
(* Replacing and clearing the queue *)

Replace(new, start) ==
    /\ start \in 0..Len(new)
    /\ stop_after' = NoMark
    /\ history' = Remove(Remapped(new), start)
    /\ tracks' = new /\ current_index' = start
    /\ UNCHANGED <<repeat, poisoned>>

SetQueue(new, start) ==
    /\ Replace(new, start)
    /\ manual_next' = 0 /\ manual_later' = 0
    /\ shuffle_position' = 1
    /\ IF shuffle
       THEN \E o \in Orders[Len(new)] :
              (start # 0 => o[1] = start) /\ shuffle_order' = o
       ELSE UNCHANGED shuffle_order
    /\ UNCHANGED shuffle

\* an order from elsewhere, or the identity when there is none or it is invalid
Follow(on, given, index) ==
    /\ shuffle' = on
    /\ shuffle_order' = IF on THEN given ELSE <<>>
    /\ shuffle_position' = IF on THEN Aligned(given, index, 1) ELSE 1

SetQueueWithOrder(new, start, on, given) ==
    /\ Replace(new, start) /\ Follow(on, given, start)
    /\ UNCHANGED manual

Clear(keep_current) ==
    /\ LET kept == IF keep_current /\ current_index # 0 THEN <<tracks[current_index]>> ELSE <<>>
       IN  /\ tracks' = kept /\ current_index' = Len(kept)
           /\ history' = Remapped(kept)
    /\ stop_after' = NoMark /\ manual_next' = 0 /\ manual_later' = 0
    /\ shuffle_order' = <<>> /\ shuffle_position' = 1
    /\ UNCHANGED <<shuffle, repeat, poisoned>>
------------------------------------------------------------------------------
(* Removing and moving rows *)

\* indexes that survive a removal, renumbered
Renumbered(s, gone) ==
    LET kept == SelectSeq(s, LAMBDA i : i \notin gone)
    IN  [k \in DOMAIN kept |-> kept[k] - Cardinality({i \in gone : i < kept[k]})]

\* The row behind a removed current one takes its place.
Drop(gone) ==
    LET left == SelectSeq(Line(Len(tracks)), LAMBDA i : i \notin gone)
        here == Lesser(current_index - Cardinality({i \in gone : i < current_index}), Len(left))
    IN  /\ tracks' = [k \in DOMAIN left |-> tracks[left[k]]]
        /\ current_index' = here
        /\ history' = Renumbered(history, gone)
        /\ stop_after' = IF stop_after \in {SongOf[tracks[i]] : i \in gone} THEN NoMark ELSE stop_after
        /\ shuffle_order' = Renumbered(shuffle_order, gone)
        /\ shuffle_position' = IF shuffle THEN Aligned(shuffle_order', here, 1) ELSE shuffle_position
        /\ UNCHANGED <<shuffle, repeat, poisoned>>

RemoveTrack(i) ==
    /\ i \in Indices /\ Drop({i})
    /\ LET next == current_index + manual_next
       IN  /\ manual_next' = IF current_index # 0 /\ i \in current_index + 1 .. next
                             THEN manual_next - 1 ELSE manual_next
           /\ manual_later' = IF current_index # 0 /\ i \in next + 1 .. next + manual_later
                              THEN manual_later - 1 ELSE manual_later

RemoveUpcoming(k) ==
    LET turn == IF shuffle THEN shuffle_position + k ELSE current_index + k
    IN  k >= 1 /\ turn <= Len(Path) /\ Drop({Path[turn]}) /\ UNCHANGED manual

\* One by one from the end.  Idle under shuffle the last is never found.
RemoveUpcomingAfter(k) ==
    /\ k >= 1 /\ k < Len(Upcoming) /\ ~(shuffle /\ current_index = 0)
    /\ Drop(ToSet(SubSeq(Path, Here + k + 1, Len(Path))))
    /\ UNCHANGED manual

\* The source and the slot are places in the upcoming list.
MoveInOrder(from, slot) ==
    /\ shuffle /\ from # slot
    /\ LET start == IF current_index = 0 THEN 0 ELSE shuffle_position
       IN  /\ start + from <= Len(shuffle_order) /\ start + slot <= Len(shuffle_order)
           /\ shuffle_order' = InsertAt(RemoveAt(shuffle_order, start + from),
                                        start + slot, shuffle_order[start + from])
    /\ shuffle_position' = IF current_index = 0 THEN 1
                           ELSE Aligned(shuffle_order', current_index, shuffle_position)
    /\ UNCHANGED <<tracks, current_index, shuffle, repeat, history, stop_after, manual, poisoned>>

\* a row goes to another place, and every index with it
Relocate(from, to, entries) ==
    /\ tracks' = InsertAt(RemoveAt(tracks, from), to, tracks[from])
    /\ current_index' = IF current_index = 0 THEN 0 ELSE Moved(current_index, from, to)
    /\ history' = [k \in DOMAIN entries |-> Moved(entries[k], from, to)]
    /\ UNCHANGED <<shuffle_position, order, repeat, stop_after, manual, poisoned>>

MoveInQueue(from, slot) ==
    /\ ~shuffle
    /\ LET source == current_index + from
           target == IF from > slot THEN current_index + slot ELSE current_index + slot - 1
       IN  /\ source # target /\ source \in Indices /\ target \in Indices
           /\ Relocate(source, target, history)

\* The views never ask for the slot a row is in.
MoveTrack(from, slot) ==
    from # slot /\ (MoveInOrder(from, slot) \/ MoveInQueue(from, slot))
------------------------------------------------------------------------------
(* Editing the history; k is an entry, the oldest first *)

HistoryOnly == UNCHANGED <<tracks, cursor, order, repeat, stop_after, manual, poisoned>>

\* The slot is a gap: 0 is before the first entry.
MoveHistoryEntry(k, slot) ==
    /\ k \in DOMAIN history /\ slot \in 0..Len(history) /\ slot \notin {k - 1, k}
    /\ history' = InsertAt(RemoveAt(history, k), IF slot > k THEN slot ELSE slot + 1, history[k])
    /\ HistoryOnly

RemoveHistoryEntry(k) ==
    /\ k \in DOMAIN history /\ history' = Remove(history, history[k]) /\ HistoryOnly

\* where the row at source lands when it goes to a slot of the upcoming list
\* of a path whose current row is at here
Landing(source, here, slot, length) ==
    LET base == IF source < here THEN here - 1 ELSE here
        gap  == IF source > here /\ slot > source - here - 1 THEN slot - 1 ELSE slot
    IN  base + Lesser(gap, length - 1 - base) + 1

RequeueInOrder(i, slot) ==
    LET source == Position(shuffle_order, i)
        here   == IF current_index = 0 THEN 0 ELSE Position(shuffle_order, current_index)
    IN  /\ shuffle /\ source # 0 /\ (current_index # 0 => here # 0)
        /\ shuffle_order' = InsertAt(RemoveAt(shuffle_order, source),
                                     Landing(source, here, slot, Len(shuffle_order)), i)
        /\ shuffle_position' = IF here = 0 THEN 1 ELSE IF source < here THEN here - 1 ELSE here
        /\ history' = Remove(history, i)
        /\ UNCHANGED <<tracks, current_index, shuffle, repeat, stop_after, manual, poisoned>>

RequeueInQueue(i, slot) ==
    /\ ~shuffle
    /\ Relocate(i, Landing(i, current_index, slot, Len(tracks)), Remove(history, i))

RequeueHistoryEntry(k, slot) ==
    /\ k \in DOMAIN history /\ history[k] # current_index
    /\ RequeueInOrder(history[k], slot) \/ RequeueInQueue(history[k], slot)

\* restore_history_indices, after a session was restored
RestoreHistoryIndices(saved) ==
    /\ history' = FoldLeft(Record, <<>>, SelectSeq(saved, LAMBDA i : i # current_index))
    /\ HistoryOnly
------------------------------------------------------------------------------
(* Playing *)

\* play_index, and what both syncs do when the row changes
JumpTo(i) ==
    /\ i \in Indices
    /\ history' = Remove(IF current_index \in {0, i} THEN history
                         ELSE Record(history, current_index), i)
    /\ current_index' = i
    /\ shuffle_position' = Aligned(shuffle_order, i, shuffle_position)
    /\ UNCHANGED <<tracks, order, repeat, stop_after, manual, poisoned>>

PlayUpcomingAt(k) == k >= 1 /\ Here + k <= Len(Path) /\ JumpTo(Path[Here + k])

\* every row crossed becomes history, and the added rows among them are used up
PlayUpcomingPreservingTimeline(k) ==
    LET crossed == SubSeq(Path, Greater(Here, 1), Here + k - 1)
        target  == Path[Here + k]
        taken   == Lesser(k, manual_next)
    IN  /\ k >= 1 /\ Here + k <= Len(Path)
        /\ history' = Remove(FoldLeft(Record, history, crossed), target)
        /\ current_index' = target
        /\ manual_next' = manual_next - taken
        /\ manual_later' = manual_later - Lesser(k - taken, manual_later)
        /\ shuffle_position' = Aligned(shuffle_order, target, shuffle_position)
        /\ UNCHANGED <<tracks, order, repeat, stop_after, poisoned>>

PlayHistoryPreservingTimeline(k) ==
    /\ k \in DOMAIN history
    /\ shuffle => Contains(shuffle_order, history[k])
    /\ history' = SubSeq(history, 1, k - 1)
    /\ current_index' = history[k]
    /\ shuffle_position' = Aligned(shuffle_order, history[k], shuffle_position)
    /\ UNCHANGED <<tracks, order, repeat, stop_after, manual, poisoned>>

\* the engine plays this song already; the first copy is taken
SyncCurrentToId(song) ==
    LET i == SelectInSeq(tracks, LAMBDA r : SongOf[r] = song)
    IN  i \notin {0, current_index} /\ JumpTo(i)

\* the engine went on by itself, to the next row it can play
Successor ==
    LET from  == IF shuffle THEN shuffle_position ELSE current_index
        ahead == SelectSeq(SubSeq(Path, from + 1, Len(Path)), LAMBDA i : tracks[i] \in Playable)
    IN  First(ahead)
SyncGaplessSuccessor(song) ==
    /\ current_index # 0 /\ SongOf[tracks[current_index]] # song
    /\ Successor \notin {0, current_index} /\ SongOf[tracks[Successor]] = song
    /\ JumpTo(Successor)

\* Repeating one row, next changes nothing.
Advance ==
    LET turn == shuffle_position + 1
        i    == Greater(current_index, 1) + 1
        next == IF shuffle
                THEN IF turn <= Len(shuffle_order) THEN shuffle_order[turn]
                     ELSE IF repeat = "all" THEN First(shuffle_order) ELSE 0
                ELSE IF i <= Len(tracks) THEN i ELSE IF repeat = "all" THEN 1 ELSE 0
        left == IF current_index = 0 THEN history ELSE Record(history, current_index)
    IN  /\ tracks # <<>> /\ repeat # "one" /\ turn <= MaxLength + 2
        /\ history' = Remove(left, next)
        /\ current_index' = next
        /\ shuffle_position' = IF ~shuffle THEN shuffle_position
                               ELSE IF turn > Len(shuffle_order) /\ repeat = "all" THEN 1 ELSE turn
        /\ manual_next' = IF next \in {0, 1} \/ manual_next = 0 THEN 0 ELSE manual_next - 1
        /\ manual_later' = IF next \in {0, 1} THEN 0
                           ELSE IF manual_next = 0 /\ manual_later > 0 THEN manual_later - 1
                           ELSE manual_later
        /\ UNCHANGED <<tracks, order, repeat, stop_after, poisoned>>

PreviousFromHistory ==
    /\ tracks # <<>> /\ history # <<>>
    /\ history' = Remove(Front(history), Last(history))
    /\ current_index' = Last(history)
    /\ shuffle_position' = Aligned(shuffle_order, Last(history), shuffle_position)
    /\ UNCHANGED <<tracks, order, repeat, stop_after, manual, poisoned>>

PreviousInOrder ==
    /\ tracks # <<>> /\ history = <<>> /\ shuffle
    /\ shuffle_position <= Len(shuffle_order) + 1
    /\ shuffle_position' = IF shuffle_position > 1 THEN shuffle_position - 1
                           ELSE IF repeat = "all" THEN Greater(Len(shuffle_order), 1) ELSE 1
    /\ current_index' = IF shuffle_order = <<>> THEN 0 ELSE shuffle_order[shuffle_position']
    /\ UNCHANGED <<tracks, order, repeat, history, stop_after, manual, poisoned>>

PreviousInQueue ==
    /\ tracks # <<>> /\ history = <<>> /\ ~shuffle
    /\ current_index' = IF current_index > 1 THEN current_index - 1
                        ELSE IF repeat = "all" THEN Len(tracks) ELSE 1
    /\ UNCHANGED <<tracks, shuffle_position, order, repeat, history, stop_after, manual, poisoned>>

\* The turn before the current one is not in the order: the index panics, and
\* the lock is poisoned for every later operation.
PreviousPanics ==
    /\ tracks # <<>> /\ history = <<>> /\ shuffle
    /\ shuffle_position > Len(shuffle_order) + 1
    /\ poisoned' = TRUE
    /\ UNCHANGED <<tracks, current_index, order, repeat, history, stop_after, manual>>
    /\ shuffle_position' = shuffle_position - 1

Previous == PreviousFromHistory \/ PreviousInOrder \/ PreviousInQueue

\* peek_upcoming wraps its place around an order that may be empty, while it
\* holds the lock; otherwise it changes nothing
PeekUpcomingPanics ==
    /\ tracks # <<>> /\ repeat = "all" /\ shuffle /\ shuffle_order = <<>>
    /\ poisoned' = TRUE
    /\ UNCHANGED <<tracks, cursor, order, repeat, history, stop_after, manual>>

\* Faulty variant: the peek does not know that the queue repeats.
PeekNextOnce ==
    IF tracks = <<>> THEN 0 ELSE IF repeat = "one" THEN current_index
    ELSE LET here == IF shuffle THEN shuffle_position ELSE Greater(current_index, 1)
         IN  IF here < Len(Path) THEN Path[here + 1] ELSE 0

\* peek_next and peek_previous: an index, or 0 for no row
PeekNext ==
    IF tracks = <<>> THEN 0 ELSE IF repeat = "one" THEN current_index
    ELSE LET here == IF shuffle THEN shuffle_position ELSE Greater(current_index, 1)
         IN  IF here < Len(Path) THEN Path[here + 1]
             ELSE IF repeat = "all" THEN First(Path) ELSE 0
PeekPrevious ==
    IF tracks = <<>> THEN 0 ELSE IF history # <<>> THEN Last(history)
    ELSE LET here == IF shuffle THEN shuffle_position ELSE current_index
         IN  IF here > 1 THEN IF here - 1 \in DOMAIN Path THEN Path[here - 1] ELSE 0
             ELSE IF Path = <<>> THEN 0
             ELSE IF repeat = "all" THEN Last(Path) ELSE Path[1]
------------------------------------------------------------------------------
(* Shuffle, repeat and the stop mark *)

SetShuffleOn ==
    /\ ~shuffle /\ shuffle' = TRUE
    /\ manual_next' = 0 /\ manual_later' = 0
    /\ \E tail \in SetToSeqs(current_index + 1 .. Len(tracks)) :
         shuffle_order' = Line(current_index) \o tail
    /\ shuffle_position' = Greater(current_index, 1)
    /\ UNCHANGED <<tracks, current_index, repeat, history, stop_after, poisoned>>

\* linearize_after_shuffle_internal: the rows played, then the others as queued
SetShuffleOff ==
    LET here   == Position(shuffle_order, current_index)
        played == SubSeq(shuffle_order, 1, here)
        line   == IF current_index = 0 \/ here = 0 THEN Line(Len(tracks))
                  ELSE played \o SelectSeq(Line(Len(tracks)), LAMBDA i : ~Contains(played, i))
    IN  /\ shuffle /\ shuffle' = FALSE
        /\ tracks' = [k \in DOMAIN line |-> tracks[line[k]]]
        /\ current_index' = Position(line, current_index)
        /\ history' = [k \in DOMAIN history |-> Position(line, history[k])]
        /\ shuffle_order' = <<>> /\ shuffle_position' = 1
        /\ UNCHANGED <<repeat, stop_after, manual, poisoned>>

SetShuffleWithOrder(given) ==
    /\ Follow(TRUE, given, current_index)
    /\ UNCHANGED <<tracks, current_index, repeat, history, stop_after, manual, poisoned>>

SetRepeat(mode) ==
    /\ repeat' = mode
    /\ UNCHANGED <<tracks, cursor, order, history, stop_after, manual, poisoned>>

Mark(song) ==
    /\ stop_after' = song
    /\ UNCHANGED <<tracks, cursor, order, repeat, history, manual, poisoned>>
SetStopAfter(song) == (\E i \in Indices : SongOf[tracks[i]] = song) /\ Mark(song)
ClearStopAfter == Mark(NoMark)
ConsumeStopAfter(song) == stop_after = song /\ Mark(NoMark)
------------------------------------------------------------------------------
Places == 1..MaxLength

Edit ==
    \/ \E r \in Rows : AddTrack(r) \/ AddTrackNext(r) \/ AddTrackLater(r)
    \/ \E k \in Places : RemoveTrack(k) \/ RemoveUpcoming(k) \/ RemoveUpcomingAfter(k)
    \/ \E from, slot \in 1..MaxLength + 1 : MoveTrack(from, slot)
    \/ \E keep_current \in BOOLEAN : Clear(keep_current)
EditHistory ==
    \/ \E k \in Places, slot \in 0..MaxLength :
         MoveHistoryEntry(k, slot) \/ RequeueHistoryEntry(k, slot)
    \/ \E k \in Places : RemoveHistoryEntry(k)
    \/ \E i, j \in Indices : RestoreHistoryIndices(<<i, j>>)
Renew ==
    \E new \in Queues : \E start \in 0..Len(new) :
        \/ SetQueue(new, start)
        \/ \E on \in BOOLEAN, given \in Orders[Len(new)] :
             SetQueueWithOrder(new, start, on, given)
Play ==
    \/ \E k \in Places : JumpTo(k) \/ PlayUpcomingAt(k) \/ PlayUpcomingPreservingTimeline(k)
    \/ \E k \in Places : PlayHistoryPreservingTimeline(k)
    \/ \E song \in Range(SongOf) : SyncCurrentToId(song) \/ SyncGaplessSuccessor(song)
    \/ Advance \/ Previous \/ PreviousPanics \/ PeekUpcomingPanics
Mode ==
    \/ SetShuffleOn \/ SetShuffleOff
    \/ \E given \in Orders[Len(tracks)] : SetShuffleWithOrder(given)
    \/ \E mode \in Modes : SetRepeat(mode)
    \/ \E song \in Marks : SetStopAfter(song) \/ ConsumeStopAfter(song)
    \/ ClearStopAfter

Next == ~poisoned /\ (Edit \/ EditHistory \/ Renew \/ Play \/ Mode)
Spec == Init /\ [][Next]_vars
------------------------------------------------------------------------------
(* Properties *)

\* the rows of a list of indexes, and the one that plays
RowsOf(s) == [k \in DOMAIN s |-> tracks[s[k]]]
Current == IF current_index = 0 THEN <<>> ELSE <<tracks[current_index]>>
Played == RowsOf(history)

\* under shuffle every row has one turn, and the current row is at its own
OrderIsWhole ==
    shuffle => /\ ToSet(shuffle_order) = Indices
               /\ current_index # 0 => /\ shuffle_position \in DOMAIN shuffle_order
                                       /\ shuffle_order[shuffle_position] = current_index

\* The row a frontend inspects before it hands a file over is the row that
\* next or previous then publishes: peek_next and peek_previous compute the
\* row in code of their own, and change nothing.
PeeksAreHonest ==
    [][ /\ Advance => current_index' = PeekNext
        /\ Previous => current_index' = PeekPrevious ]_vars

\* What the queue view shows is what happens: while a row plays and the
\* queue does not repeat, next plays the head of the upcoming list; the list
\* loses exactly the rows the user removes from it; a row to play next comes
\* first; and an entry of the history comes back at the place it was put.
PlaysWhatItShows ==
    [][ /\ repeat = "off" /\ current_index # 0 /\ Advance =>
             Current' = SubSeq(Upcoming, 1, Lesser(1, Len(Upcoming)))
        /\ current_index' # current_index /\ tracks' = tracks =>
             \A k \in DOMAIN Upcoming :
                PlayUpcomingAt(k) \/ PlayUpcomingPreservingTimeline(k) =>
                    Current' = <<Upcoming[k]>>
        /\ Len(tracks') < Len(tracks) =>
             \A k \in DOMAIN Upcoming :
                /\ RemoveUpcoming(k) /\ current_index # 0 => Upcoming' = RemoveAt(Upcoming, k)
                /\ RemoveUpcomingAfter(k) => Upcoming' = SubSeq(Upcoming, 1, k)
        /\ manual_next' > manual_next /\ OrderIsWhole =>
             \E r \in Rows : Upcoming' = <<r>> \o Upcoming
        /\ Len(history') < Len(history) /\ Current' = Current /\ OrderIsWhole =>
             \A k \in {k \in DOMAIN history : ~Contains(Upcoming, Played[k])} :
                \A slot \in 0..Len(tracks) : RequeueHistoryEntry(k, slot) =>
                    Upcoming'[Lesser(slot + 1, Len(Upcoming'))] = Played[k] ]_vars

\* Removing and moving rows and switching shuffle leave the rest of the
\* timeline alone: the rows that were played and stay are the same rows in the
\* same sequence, the row that plays keeps playing unless it was removed, every
\* row keeps a turn, and switching shuffle makes no row upcoming or played.
Toggle == SetShuffleOn \/ SetShuffleOff
EditsKeepTheTimeline ==
    [][ /\ \/ Len(tracks') < Len(tracks) /\ \E k \in Places :
                RemoveTrack(k) \/ RemoveUpcoming(k) \/ RemoveUpcomingAfter(k)
           \/ Len(tracks') = Len(tracks) /\ <<tracks, order>>' # <<tracks, order>> /\
                \E from, slot \in 1..MaxLength + 1 : MoveTrack(from, slot)
           \/ shuffle' # shuffle /\ Toggle
           => /\ OrderIsWhole => OrderIsWhole'
              /\ Played' = SelectSeq(Played, LAMBDA r : Contains(tracks', r))
              /\ \A r \in ToSet(Current) : Contains(tracks', r) => Current' = <<r>>
        /\ shuffle' # shuffle /\ Toggle /\ OrderIsWhole =>
             ToSet(Upcoming') = ToSet(Upcoming) ]_vars

\* No operation fails in a queue that legal calls built: a peek at the
\* upcoming rows changes nothing, and previous goes where peek_previous says.
NeverPanics == ~poisoned
==============================================================================
