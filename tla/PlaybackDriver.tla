--------------------------- MODULE PlaybackDriver ---------------------------
(***************************************************************************)
(* The daemon's playback driver over the player: the 450 ms loop of        *)
(* crates/qbz-app/src/playback_driver.rs that turns what it samples of the *)
(* player into moves of the queue, and the control routes of               *)
(* crates/qbzd/src/api that act beside it.                                 *)
(*                                                                         *)
(* The queue is a line of rows, each its own track, in a repeat mode; its  *)
(* operations are those of PlayerQueue that the driver calls, reduced to   *)
(* cursor and stop mark.  Left out: the parts of a tick that change        *)
(* neither (saved positions, warm-ups, reports, latched errors), the       *)
(* authority (Delegation), previous, and edits of the rows.                *)
(***************************************************************************)
EXTENDS PlaybackEngine, FiniteSetsExt

CONSTANTS
    Playable,   \* rows that are local or streamable
    Repeats,    \* repeat modes
    MaxSkips,   \* MAX_OFFLINE_SKIPS
    User,       \* the caller behind the control routes
    Starts,     \* bound: the rows the user starts from
    MaxEvents   \* bound: what the user does, and what fails

Driver == "driver"

ASSUME DriverAssumption ==
    /\ IsFiniteSet(Tracks) /\ Tracks = 1..Cardinality(Tracks)
    /\ Starts \subseteq Playable /\ Playable \subseteq Tracks
    /\ Repeats \subseteq {"off", "all", "one"} /\ Repeats # {}
    /\ Callers = {Driver, User} /\ User # Driver
    /\ MaxSkips \in Nat \ {0} /\ MaxEvents \in Nat

VARIABLES
    queue,   \* cursor, stop mark, repeat mode
    drv,     \* the driver: where it is in a tick and what it carries
    ticked,  \* a tick has passed since the position last moved on
    asks,    \* what the user has done so far
    faults,  \* what has failed so far
    past     \* history: the row that sounds, and what the user asked for

vars == <<engineVars, queue, drv, ticked, asks, faults, past>>

NoEvent == [playing |-> FALSE, pos |-> Early, dur |-> 0, track |-> 0, buffering |-> FALSE]
Events == [playing : BOOLEAN, pos : Phases, dur : Ids, track : Ids, buffering : BOOLEAN]

TypeOK ==
    /\ EngineTypeOK
    /\ queue \in [cur : Ids, stop : Ids, repeat : Repeats]
    /\ drv \in [pc : {"idle", "reading", "halt", "finish", "advance", "waiting"},
                ev : Events, last : Events, asked : Ids, cur : Ids]
    /\ ticked \in BOOLEAN /\ asks \in Nat /\ faults \in Nat /\ asks + faults <= MaxEvents
    /\ past \in [at : Ids, moves : 0..2, hush : BOOLEAN, held : Ids]

Init ==
    /\ EngineInit
    /\ queue \in [cur : {0}, stop : {0}, repeat : Repeats]
    /\ drv = [pc |-> "idle", ev |-> NoEvent, last |-> NoEvent, asked |-> 0, cur |-> 0]
    /\ ticked = TRUE /\ asks = 0 /\ faults = 0
    /\ past = [at |-> 0, moves |-> 0, hush |-> FALSE, held |-> 0]
------------------------------------------------------------------------------
(* The queue *)

Ahead(row) == {t \in Tracks : t > row}
FirstPlayable(row) == IF Ahead(row) \cap Playable = {} THEN 0 ELSE Min(Ahead(row) \cap Playable)

\* QueueManager::next; an idle queue counts as standing on its first row
Following(row) == IF row = 0 THEN 2 ELSE row + 1
NextRow(row) ==
    CASE queue.repeat = "one" -> row
      [] queue.repeat # "one" /\ Following(row) \in Tracks -> Following(row)
      [] queue.repeat = "all" /\ Following(row) \notin Tracks -> 1
      [] OTHER -> 0

\* sync_gapless_successor
Synced(t) == IF queue.cur # 0 /\ FirstPlayable(queue.cur) = t THEN t ELSE queue.cur
------------------------------------------------------------------------------
(* plan_tick and advance_state *)

Sample == [playing |-> eng.playing, pos |-> eng.pos, dur |-> eng.dur,
           track |-> eng.track, buffering |-> Buffering]

\* the engine plays another track than it did: a hand-off, seen or missed
Seamless(ev, last) ==
    /\ ev.playing /\ last.playing /\ last.track # 0 /\ ev.track \notin {0, last.track}
MissedEdge(ev, last) ==
    /\ ev.playing /\ ~ev.buffering /\ ev.track \notin {0, last.track, queue.cur}
    /\ FirstPlayable(queue.cur) = ev.track
SyncTo(ev, last) == IF Seamless(ev, last) \/ MissedEdge(ev, last) THEN ev.track ELSE 0

\* Faulty variant: a marked row asks for its successor as well.
ArmsMarked(ev) ==
    IF /\ ev.playing /\ eng.ready /\ eng.next = 0
       /\ ev.track \notin {0, drv.asked}
       /\ queue.cur + 1 \in Playable \ {ev.track}
    THEN queue.cur + 1 ELSE 0

\* only the very next row is asked for, once for each track, and none behind
\* a row that is marked
Arms(ev) ==
    IF /\ ev.playing /\ eng.ready /\ eng.next = 0
       /\ ev.track \notin {0, drv.asked, queue.stop}
       /\ queue.cur + 1 \in Playable \ {ev.track}
    THEN queue.cur + 1 ELSE 0

\* an edge the thread has published since the last tick, for the current row
EngineEmpty(ev) == eng.ended # 0 /\ eng.ended = queue.cur /\ ~ev.playing /\ eng.next = 0
SourceFailed == eng.failed # 0 /\ eng.failed = queue.cur

\* without an edge: it played near its end and plays no more.  A position is
\* compared with the duration of now, which may be that of another track
Stopped(ev, last) ==
    /\ last.playing /\ ~ev.playing /\ last.track # 0 /\ ev.dur # 0
    /\ ev.track \in {0, last.track}
NearEnd(ev, last) == IF ev.dur = last.dur THEN {last.pos >= Tail2} ELSE BOOLEAN

\* Faulty variant: an edge that was published counts for nothing.
EndsSampledOnly(ev, last, near) == Stopped(ev, last) /\ near

Ended(ev, last, near) ==
    SourceFailed \/ EngineEmpty(ev) \/ (Stopped(ev, last) /\ near)

EndPlan ==
    CASE queue.cur # 0 /\ queue.stop = queue.cur -> "halt"
      [] queue.stop = 0 \/ queue.stop # queue.cur ->
           IF \/ queue.repeat # "off"
              \/ Ahead(queue.cur) \cap Playable \cap (1..(queue.cur + MaxSkips)) # {}
           THEN "advance" ELSE "finish"

Carried(ev, last, ended) ==
    CASE ended -> NoEvent
      [] ~ended /\ ev.track # 0 -> ev
      [] OTHER -> [last EXCEPT !.playing = ev.playing]
------------------------------------------------------------------------------
(* A tick *)

Others == <<asks, faults>>

ReadTransport ==
    /\ drv.pc = "idle"
    /\ drv' = [drv EXCEPT !.pc = "reading", !.ev = Sample]
    /\ UNCHANGED <<engineVars, queue, ticked, Others>>

\* the rest of the event, the queue, the plan, and the actions up to an end: a
\* hand-off and an end drop the fetches that run, then the successor asked for
\* is fetched
Plan ==
    /\ drv.pc = "reading"
    /\ \E near \in NearEnd(drv.ev, drv.last) :
         LET ev == drv.ev
             last == drv.last
             sync == SyncTo(ev, last)
             ended == sync = 0 /\ Ended(ev, last, near)
             arm == IF sync = 0 THEN Arms(ev) ELSE 0
         IN  /\ drv' = [pc |-> IF ended THEN EndPlan ELSE "idle", ev |-> NoEvent,
                        last |-> IF sync # 0 THEN ev ELSE Carried(ev, last, ended),
                        asked |-> IF sync # 0 \/ ended THEN 0
                                  ELSE IF arm # 0 THEN ev.track ELSE drv.asked,
                        cur |-> IF ended THEN queue.cur ELSE 0]
             /\ fetches' = (IF sync = 0 /\ ~ended THEN fetches ELSE {})
                           \cup {[track |-> t, state |-> "spawned"] : t \in {arm} \ {0}}
             /\ queue' = [queue EXCEPT !.cur = IF sync = 0 THEN @ ELSE Synced(sync)]
             /\ ticked' = (ticked \/ ~ended)
    /\ eng' = [eng EXCEPT !.ended = 0, !.failed = 0]
    /\ UNCHANGED <<cmds, busy, intent, feed, loads, Others>>

\* consume_stop_after_if
MarkAfter(row) == IF queue.stop = row THEN 0 ELSE queue.stop

Halt ==
    /\ drv.pc = "halt"
    /\ IF queue.stop = drv.cur
       THEN /\ Transport("Pause")
            /\ queue' = [queue EXCEPT !.stop = MarkAfter(drv.cur)]
            /\ drv' = [drv EXCEPT !.pc = "idle", !.cur = 0] /\ ticked' = TRUE
       ELSE /\ drv' = [drv EXCEPT !.pc = "advance"]
            /\ UNCHANGED <<cmds, intent, queue, ticked>>
    /\ UNCHANGED <<eng, busy, feed, loads, fetches, Others>>

Finish ==
    /\ drv.pc = "finish"
    /\ Stop
    /\ drv' = [drv EXCEPT !.pc = "idle", !.cur = 0] /\ ticked' = TRUE
    /\ UNCHANGED <<queue, Others>>

Advance ==
    /\ drv.pc = "advance"
    /\ loads' = [loads EXCEPT ![Driver] = [NoLoad EXCEPT !.stage = "walking"]]
    /\ drv' = [drv EXCEPT !.pc = "waiting"]
    /\ UNCHANGED <<eng, cmds, busy, intent, feed, fetches, queue, ticked, Others>>

EndTick ==
    /\ drv.pc = "waiting" /\ loads[Driver] = NoLoad
    /\ drv' = [drv EXCEPT !.pc = "idle", !.cur = 0] /\ ticked' = TRUE
    /\ UNCHANGED <<engineVars, queue, Others>>
------------------------------------------------------------------------------
(* advance_and_play, by the driver and by the routes *)

NothingFound(c) == drv' = IF c = Driver THEN [drv EXCEPT !.pc = "finish"] ELSE drv

\* Faulty variant: a row that cannot be played is tried all the same.
Attempts(t) == t \in Tracks

\* local, or streamable
CanPlay(t) == t \in Playable

Walk(c) ==
    /\ loads[c].stage = "walking"
    /\ LET t == NextRow(queue.cur)
           skips == loads[c].skips + 1
       IN  /\ queue' = [queue EXCEPT !.cur = t]
           /\ \/ /\ t = 0
                 /\ loads' = [loads EXCEPT ![c] = NoLoad] /\ NothingFound(c)
                 /\ UNCHANGED <<eng, cmds, busy, intent, feed, fetches>>
              \/ /\ t # 0 /\ CanPlay(t)
                 /\ loads' = [loads EXCEPT ![c] = [NoLoad EXCEPT !.stage = "asked", !.track = t]]
                 /\ UNCHANGED <<eng, cmds, busy, intent, feed, fetches, drv>>
              \/ /\ t # 0 /\ ~CanPlay(t) /\ skips < MaxSkips
                 /\ loads' = [loads EXCEPT ![c].skips = skips]
                 /\ UNCHANGED <<eng, cmds, busy, intent, feed, fetches, drv>>
              \/ /\ t # 0 /\ ~CanPlay(t) /\ skips >= MaxSkips
                 /\ Superseded
                 /\ loads' = [StaleLoads EXCEPT ![c] = NoLoad]
                 /\ cmds' = Append(Stale(cmds), Command("Stop", 0, TRUE))
                 /\ NothingFound(c)
    /\ UNCHANGED <<ticked, Others>>
------------------------------------------------------------------------------
(* The control routes *)

Asks == asks + faults < MaxEvents /\ asks' = asks + 1
RouteFree == loads[User] = NoLoad

NextRoute ==
    /\ Asks /\ RouteFree
    /\ loads' = [loads EXCEPT ![User] = [NoLoad EXCEPT !.stage = "walking"]]
    /\ UNCHANGED <<eng, cmds, busy, intent, feed, fetches, queue, drv, ticked, faults>>

\* start_resolved: a new queue from a row on, here with the same rows
StartRoute(t) ==
    /\ Asks /\ RouteFree
    /\ queue' = [queue EXCEPT !.cur = t, !.stop = 0]
    /\ loads' = [loads EXCEPT ![User] = [NoLoad EXCEPT !.stage = "asked", !.track = t]]
    /\ UNCHANGED <<eng, cmds, busy, intent, feed, fetches, drv, ticked, faults>>

PauseRoute ==
    /\ Asks /\ Transport("Pause")
    /\ UNCHANGED <<eng, busy, feed, loads, fetches, queue, drv, ticked, faults>>

\* play: resumes what is loaded, or loads the current row
ResumeRoute ==
    /\ Asks /\ eng.loaded /\ Transport("Resume")
    /\ UNCHANGED <<eng, busy, feed, loads, fetches, queue, drv, ticked, faults>>
ColdStart ==
    /\ Asks /\ ~eng.loaded /\ queue.cur # 0 /\ RouteFree
    /\ loads' = [loads EXCEPT ![User] = [NoLoad EXCEPT !.stage = "asked", !.track = queue.cur]]
    /\ UNCHANGED <<eng, cmds, busy, intent, feed, fetches, queue, drv, ticked, faults>>

StopRoute ==
    /\ Asks /\ Stop
    /\ UNCHANGED <<queue, drv, ticked, faults>>

MarkRoute(t) ==
    /\ Asks /\ queue.stop # t
    /\ queue' = [queue EXCEPT !.stop = t]
    /\ UNCHANGED <<engineVars, drv, ticked, faults>>
------------------------------------------------------------------------------
Fails == asks + faults < MaxEvents /\ faults' = faults + 1
Mine == <<queue, drv, ticked>>

\* a tick takes far less than the phases of a position, except when it waits
\* for a track to load
TimePasses ==
    /\ Elapse
    /\ \/ drv.pc = "idle" /\ ticked /\ ticked' = FALSE
       \/ drv.pc = "waiting" /\ UNCHANGED ticked
    /\ UNCHANGED <<queue, drv, Others>>

Faults ==
    /\ \/ \E c \in Callers : FailLoad(c)
       \/ FeederFails
       \/ BufferFails
    /\ Fails /\ UNCHANGED <<Mine, asks>>

DriverSteps == ReadTransport \/ Plan \/ Halt \/ Finish \/ Advance \/ EndTick
Loading(c) == BeginLoad(c) \/ FinishLoad(c) \/ DropLoad(c)
EngineSteps ==
    /\ \/ ThreadSteps \/ FeederDone \/ SourceEnds
       \/ \E c \in Callers : Loading(c)
       \/ \E f \in fetches : FetchSteps(f)
    /\ UNCHANGED <<Mine, Others>>

\* what the user does that moves the cursor, or starts or ends what plays, and
\* the rest
Moves ==
    \/ NextRoute \/ ColdStart \/ ResumeRoute \/ StopRoute
    \/ \E t \in Starts : StartRoute(t)
Stays == PauseRoute \/ \E t \in Playable : MarkRoute(t)

Steps ==
    \/ DriverSteps \/ EngineSteps \/ Stays \/ Faults \/ TimePasses
    \/ \E c \in Callers : Walk(c)

\* a row marked in time: while it alone was there and nothing was under way
Marked ==
    /\ queue.stop # queue.cur /\ queue'.stop = queue.cur /\ queue'.cur = queue.cur /\ queue.cur # 0
    /\ eng.track = queue.cur /\ eng.src = <<queue.cur>> /\ eng.playing /\ eng.pos = Early
    /\ cmds = <<>> /\ busy = NoPlay /\ fetches = {} /\ eng.next = 0
    /\ eng.ended = 0 /\ eng.failed = 0
    /\ drv.pc = "idle" /\ drv.last.track = queue.cur /\ \A c \in Callers : loads[c] = NoLoad

\* what the driver cannot tell from the end of a row, or acts on too late: a
\* failure of a load, a buffer, or a download of another row than the one that
\* sounds and the driver saw; a pause near an end, or while a row is under way;
\* a successor asked for in the very tick that finds the end
LostDownload == faults' # faults /\ ~(feed' # feed /\ feed.track \in {drv.last.track} \cap {past.at})
LatePause ==
    /\ eng.playing /\ ~eng'.playing /\ cmds' # cmds
    /\ \/ Buffering' \/ \E c \in Callers : loads[c] # NoLoad
       \/ \E p \in {eng.pos, drv.last.pos, drv.ev.pos} : p >= Tail2
AsksAtEnd == drv.pc = "reading" /\ drv'.pc # "idle" /\ fetches' # {}

\* history: the row that began to sound last, the user's moves up to two,
\* whether one of the above happened, and the row that was marked in time
Begins == eng'.src # <<>> /\ (eng.src = <<>> \/ Len(eng'.src) < Len(eng.src))
Remembers(moves) ==
    past' = [
      at    |-> IF Begins THEN Head(eng'.src) ELSE past.at,
      moves |-> moves,
      hush  |-> past.hush \/ LostDownload \/ LatePause \/ AsksAtEnd,
      held  |-> IF Marked THEN queue.cur ELSE IF asks' # asks THEN 0 ELSE past.held]

Next ==
    \/ Steps /\ Remembers(past.moves)
    \/ Moves /\ Remembers(Min({past.moves + 1, 2}))
Spec == Init /\ [][Next]_vars
------------------------------------------------------------------------------
(* What the driver promises *)

Successor(row) ==
    IF FirstPlayable(row) # 0 THEN FirstPlayable(row)
    ELSE IF queue.repeat = "all" /\ Playable # {} THEN Min(Playable) ELSE 0

\* Between the user's moves the rows sound one after the other in queue order,
\* the unplayable ones left out, from the last to the first with repeat all:
\* hand-offs by the thread, ends found by the loop, and the walks of both never
\* skip a row or go back (plan_tick, advance_state, advance_and_play).  A row may
\* begin again: when its hand-off and the load after an end cross.
InOrder ==
    [][Begins /\ past'.moves <= 1 /\ ~past'.hush /\ queue.repeat # "one"
         => past.at = 0 \/ past'.at \in {past.at, Successor(past.at)}]_vars

\* Behind a row that was marked in time no successor is queued or sounds and the
\* driver loads nothing: the row ends naturally and the mark can fire (plan_tick:
\* "suppressed when the current track is stop-after-marked").
MarkedEndsAlone ==
    past.held # 0 /\ queue.stop = past.held =>
      /\ eng.next = 0 /\ ToSet(eng.src) \subseteq {past.held}
      /\ loads[Driver] = NoLoad

\* Once every command, load, fetch and edge is done with, a player that is meant
\* to sound and holds a track does sound, or the driver still remembers that it
\* did and takes the stop for an end in its next tick: no end of a track is lost
\* between two ticks (plan_tick: the durable generations and the sampled end).
NoDeadAir ==
    /\ cmds = <<>> /\ busy = NoPlay /\ fetches = {} /\ \A c \in Callers : loads[c] = NoLoad
    /\ drv.pc = "idle" /\ ~eng.ending /\ eng.ended = 0 /\ eng.failed = 0
    /\ intent /\ eng.loaded /\ eng.src = <<>> /\ ~past.hush /\ past.moves <= 1
    => (IF eng.playing THEN eng.alive ELSE drv.last.playing)

------------------------------------------------------------------------------
(* What the code's comments say *)

\* A row that was marked in time halts the driver, which then advances nowhere
\* until the user acts (plan_tick: "stop-after HALTS (pause, never advance)").
\* Not so: an end sampled in one tick is found again, by its published edge, in
\* the next, when the mark is used up.
StopAfterHalts == past.held # 0 => loads[Driver] = NoLoad

\* With repeat one the queue owns the replay: without a move of the user's no
\* other row ever sounds (plan_tick: "repeat one/all always yield a next track
\* (QueueManager owns the replay/wrap)").  Not so: the successor asked for is
\* the next row in any mode.
RepeatOneRepeats ==
    [][past'.at # past.at /\ past'.moves <= 1 /\ queue.repeat = "one" => past.at = 0]_vars
==============================================================================
