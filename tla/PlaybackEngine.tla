--------------------------- MODULE PlaybackEngine ---------------------------
(***************************************************************************)
(* The player: the audio thread with its command channel, the calls that   *)
(* feed it and the fields a poller reads (crates/qbz-player/src/player,    *)
(* mod.rs and disk_playback.rs).                                           *)
(*                                                                         *)
(* Tracks are numbers from 1, 0 is the code's "none".  A generation is     *)
(* only ever compared with the newest one, so each call, command and       *)
(* feeder carries "fresh" instead: whether its play is still the newest.   *)
(* A position is one of four phases of a track: before the ten seconds in  *)
(* which a successor is asked for, in them, in the last two seconds, and   *)
(* at the published duration.                                              *)
(*                                                                         *)
(* Abstracted: gapless playback is switched on and every track is longer   *)
(* than the ten seconds; seeking, DSD, devices that fail or change, volume *)
(* and plays that start paused are left out.                               *)
(***************************************************************************)
EXTENDS Naturals, Sequences, SequencesExt, FiniteSets

CONSTANTS
    Tracks,   \* track ids, from 1
    Callers   \* tasks that may be loading a track

ASSUME EngineAssumption == Tracks \subseteq Nat \ {0} /\ Tracks # {}

VARIABLES
    eng,      \* what the audio thread holds and publishes
    cmds,     \* the channel to the audio thread
    busy,     \* the play whose source the thread prepares, or NoPlay
    intent,   \* whether the newest play or transport call wants sound
    feed,     \* the download behind the newest play: its track and state
    loads,    \* play_track of each caller: its stage, track and freshness
    fetches   \* queue_next_streaming calls that run for the driver

engineVars == <<eng, cmds, busy, intent, feed, loads, fetches>>

Ids == Tracks \cup {0}
Early == 0       \* more than ten seconds to go
Window == 1      \* in the last ten seconds
Tail2 == 2       \* in the last two seconds
AtEnd == 3       \* at the published duration
Phases == Early..AtEnd

Command(op, t, fresh) == [op |-> op, track |-> t, fresh |-> fresh]
NoPlay == Command("none", 0, FALSE)
NoFeed == [track |-> 0, state |-> "none"]
NoLoad == [stage |-> "none", track |-> 0, fresh |-> FALSE, skips |-> 0]
Plays == {"Play", "PlayStreaming"}
Ops == Plays \cup {"PlayNext", "Pause", "Resume", "Stop"}

EngineStates ==
    [playing : BOOLEAN, pos : Phases, dur : Ids, track : Ids,
     ready : BOOLEAN, next : Ids, loaded : BOOLEAN, ended : Ids, failed : Ids,
     alive : BOOLEAN, src : Seq(Tracks), media : Ids, armed : BOOLEAN,
     cut : BOOLEAN, ending : BOOLEAN]
\* plays and successors name a track, and so do loads on their way
Commands ==
    {c \in [op : Ops, track : Ids, fresh : BOOLEAN] :
       c.track # 0 <=> c.op \in Plays \cup {"PlayNext"}}
LoadStates ==
    {l \in [stage : {"none", "walking", "asked", "begun"}, track : Ids,
            fresh : BOOLEAN, skips : Nat] :
       l.track # 0 <=> l.stage \in {"asked", "begun"}}

EngineTypeOK ==
    /\ eng \in EngineStates
    /\ cmds \in Seq(Commands)
    /\ busy \in [op : Plays, track : Tracks, fresh : BOOLEAN] \cup {NoPlay}
    /\ intent \in BOOLEAN
    /\ feed \in [track : Ids, state : {"none", "open", "dead"}]
    /\ loads \in [Callers -> LoadStates]
    /\ fetches \subseteq [track : Tracks, state : {"spawned", "running", "overtaken"}]

EngineInit ==
    /\ eng = [playing |-> FALSE, pos |-> Early, dur |-> 0, track |-> 0,
              ready |-> FALSE, next |-> 0, loaded |-> FALSE, ended |-> 0, failed |-> 0,
              alive |-> FALSE, src |-> <<>>, media |-> 0, armed |-> FALSE,
              cut |-> FALSE, ending |-> FALSE]
    /\ cmds = <<>> /\ busy = NoPlay /\ intent = FALSE /\ feed = NoFeed
    /\ loads = [c \in Callers |-> NoLoad] /\ fetches = {}
------------------------------------------------------------------------------
(* Calls into the player *)

\* InitialBuffering: from the hand-over of a play to the first sound of it
Buffering == busy.fresh \/ \E i \in DOMAIN cmds : cmds[i].op \in Plays /\ cmds[i].fresh

\* begin_play: everything older is superseded and its download cancelled, so
\* what sounds now may run dry
Superseded ==
    /\ busy' = [busy EXCEPT !.fresh = FALSE]
    /\ intent' = TRUE
    /\ feed' = NoFeed
    /\ eng' = [eng EXCEPT !.cut = @ \/ feed.state # "none"]
    /\ fetches' = {IF f.state = "running" THEN [f EXCEPT !.state = "overtaken"] ELSE f :
                     f \in fetches}
Stale(queue) == [i \in DOMAIN queue |-> [queue[i] EXCEPT !.fresh = FALSE]]
StaleLoads == [c \in Callers |-> [loads[c] EXCEPT !.fresh = FALSE]]

Stop ==
    /\ Superseded
    /\ loads' = StaleLoads
    /\ cmds' = Append(Stale(cmds), Command("Stop", 0, TRUE))

\* pause and resume keep the generation
Transport(op) ==
    /\ intent' = (op = "Resume")
    /\ cmds' = Append(cmds, Command(op, 0, TRUE))

\* play_track_with_state, up to the first await
BeginLoad(c) ==
    /\ loads[c].stage = "asked"
    /\ Superseded
    /\ loads' = [StaleLoads EXCEPT ![c].stage = "begun", ![c].fresh = TRUE]
    /\ cmds' = Stale(cmds)

\* apply_play_data_at, apply_completed_source, apply_play_streaming_dynamic:
\* only the last has a feeder of its own
FinishLoad(c) ==
    /\ loads[c].stage = "begun" /\ loads[c].fresh
    /\ loads' = [loads EXCEPT ![c] = NoLoad]
    /\ LET t == loads[c].track
       IN  \/ \E op \in Plays :
                cmds' = Append(cmds, Command(op, t, TRUE)) /\ UNCHANGED feed
           \/ /\ cmds' = Append(cmds, Command("PlayStreaming", t, TRUE))
              /\ feed' = [track |-> t, state |-> "open"]
    /\ UNCHANGED <<eng, busy, intent, fetches>>

DropLoad(c) ==
    /\ loads[c].stage = "begun" /\ ~loads[c].fresh
    /\ loads' = [loads EXCEPT ![c] = NoLoad]
    /\ UNCHANGED <<eng, cmds, busy, intent, feed, fetches>>

\* no stream URL, no metadata, no network: the caller logs the error
FailLoad(c) ==
    /\ loads[c].stage = "begun" /\ loads[c].fresh
    /\ loads' = [loads EXCEPT ![c] = NoLoad]
    /\ UNCHANGED <<eng, cmds, busy, intent, feed, fetches>>

\* the feeder: a failure is published at once, the source ends where it is
FeederDone ==
    /\ feed.state = "open" /\ feed' = NoFeed
    /\ UNCHANGED <<eng, cmds, busy, intent, loads, fetches>>
FeederFails ==
    /\ feed.state = "open" /\ feed' = [feed EXCEPT !.state = "dead"]
    /\ eng' = [eng EXCEPT !.failed = feed.track]
    /\ UNCHANGED <<cmds, busy, intent, loads, fetches>>

\* queue_next_streaming: a cached successor is sent in the first poll, with
\* the generation read but not looked at again; a cold one is sent if no play
\* began while it was set up
FetchCached(f) ==
    /\ f.state = "spawned"
    /\ fetches' = fetches \ {f}
    /\ cmds' = Append(cmds, Command("PlayNext", f.track, TRUE))
    /\ UNCHANGED <<eng, busy, intent, feed, loads>>
FetchStarts(f) ==
    /\ f.state = "spawned"
    /\ fetches' = (fetches \ {f}) \cup {[f EXCEPT !.state = "running"]}
    /\ UNCHANGED <<eng, cmds, busy, intent, feed, loads>>
FetchSends(f) ==
    /\ f.state = "running"
    /\ fetches' = fetches \ {f}
    /\ cmds' = Append(cmds, Command("PlayNext", f.track, TRUE))
    /\ UNCHANGED <<eng, busy, intent, feed, loads>>
FetchFails(f) ==
    /\ f.state # "spawned"
    /\ fetches' = fetches \ {f}
    /\ UNCHANGED <<eng, cmds, busy, intent, feed, loads>>
------------------------------------------------------------------------------
(* The audio thread *)

Idle == busy = NoPlay /\ ~eng.ending
Takes(ops) ==
    /\ Idle /\ cmds # <<>> /\ Head(cmds).op \in ops
    /\ cmds' = Tail(cmds)

NoSuccessor(e) == [e EXCEPT !.next = 0, !.ready = FALSE, !.armed = FALSE]
Silenced(e) == [e EXCEPT !.alive = FALSE, !.src = <<>>]

\* Play looks at its generation, PlayStreaming does not; both drop the engine
\* that sounds.  A stream publishes its duration here, which makes the
\* position any part of it
StartPlay ==
    /\ Takes(Plays)
    /\ LET play == Head(cmds)
           streamed == play.op = "PlayStreaming"
       IN  IF ~streamed /\ ~play.fresh THEN UNCHANGED <<eng, busy>>
           ELSE /\ busy' = play
                /\ \E p \in Phases :
                     /\ p = eng.pos \/ (streamed /\ eng.dur # play.track)
                     /\ eng' = [Silenced(NoSuccessor(eng)) EXCEPT
                                  !.media = play.track, !.loaded = TRUE, !.pos = p,
                                  !.dur = IF streamed THEN play.track ELSE @]
    /\ UNCHANGED <<intent, feed, loads, fetches>>

\* append_initial_source
Install ==
    /\ busy.fresh
    /\ eng' = [eng EXCEPT !.alive = TRUE, !.src = <<busy.track>>, !.playing = intent,
                          !.pos = Early, !.dur = busy.track, !.track = busy.track,
                          !.cut = FALSE]
    /\ busy' = NoPlay
    /\ UNCHANGED <<cmds, intent, feed, loads, fetches>>

Abandon ==
    /\ busy # NoPlay /\ ~busy.fresh
    /\ busy' = NoPlay
    /\ UNCHANGED <<eng, cmds, intent, feed, loads, fetches>>

\* the buffer stays empty for a minute, or the feeder died before it filled
BufferFails ==
    /\ busy.fresh /\ busy.op = "PlayStreaming"
    /\ eng' = [eng EXCEPT !.media = 0, !.loaded = FALSE, !.playing = FALSE]
    /\ busy' = NoPlay
    /\ UNCHANGED <<cmds, intent, feed, loads, fetches>>

PauseEngine ==
    /\ Takes({"Pause"})
    /\ eng' = IF Head(cmds).fresh /\ ~intent
              THEN [Silenced(NoSuccessor(eng)) EXCEPT !.playing = FALSE] ELSE eng
    /\ UNCHANGED <<busy, intent, feed, loads, fetches>>

\* with no engine the source is rebuilt at the position that was kept
ResumeEngine ==
    /\ Takes({"Resume"})
    /\ eng' = CASE ~(Head(cmds).fresh /\ intent) -> eng
                [] eng.alive -> [eng EXCEPT !.playing = TRUE]
                [] ~eng.alive /\ eng.media = 0 -> eng
                [] OTHER -> [eng EXCEPT !.alive = TRUE, !.src = <<eng.media>>,
                                        !.playing = TRUE]
    /\ UNCHANGED <<busy, intent, feed, loads, fetches>>

StopEngine ==
    /\ Takes({"Stop"})
    /\ eng' = [Silenced(NoSuccessor(eng)) EXCEPT
                 !.playing = FALSE, !.pos = Early, !.media = 0, !.loaded = FALSE]
    /\ UNCHANGED <<busy, intent, feed, loads, fetches>>

\* PlayNext, PlayNextStreaming: refused for another format or a source that
\* does not decode; on an engine that has run empty it sounds at once
AppendNext ==
    /\ Takes({"PlayNext"})
    /\ LET t == Head(cmds).track
       IN  \/ eng' = [eng EXCEPT !.ready = FALSE]
           \/ /\ eng.alive
              /\ eng' = [eng EXCEPT !.src = Append(@, t), !.next = t, !.ready = FALSE,
                                    !.playing = @ \/ eng.src = <<>>]
    /\ UNCHANGED <<busy, intent, feed, loads, fetches>>
------------------------------------------------------------------------------
(* The check the thread makes while it plays and no command waits *)

Checks == Idle /\ cmds = <<>> /\ eng.playing

\* a source that is still downloading is not handed off
HandsOff == eng.next # 0 /\ eng.pos = AtEnd /\ feed.state # "open"
Transition ==
    /\ Checks /\ HandsOff
    /\ eng' = [NoSuccessor(eng) EXCEPT !.track = eng.next, !.dur = eng.next,
                                       !.media = eng.next, !.pos = Early, !.cut = FALSE]
    /\ feed' = NoFeed
    /\ UNCHANGED <<cmds, busy, intent, loads, fetches>>

AskForNext ==
    /\ Checks /\ eng.next = 0 /\ eng.pos # Early /\ ~eng.armed /\ ~eng.ready
    /\ eng' = [eng EXCEPT !.ready = TRUE, !.armed = TRUE]
    /\ UNCHANGED <<cmds, busy, intent, feed, loads, fetches>>

\* the stop is published before its edge
RunsEmpty ==
    /\ Checks /\ ~HandsOff /\ eng.alive /\ eng.src = <<>>
    /\ eng' = [NoSuccessor(eng) EXCEPT !.playing = FALSE, !.pos = AtEnd, !.ending = TRUE]
    /\ UNCHANGED <<cmds, busy, intent, feed, loads, fetches>>
RecordEmpty ==
    /\ eng.ending
    /\ eng' = [eng EXCEPT !.ending = FALSE, !.ended = eng.track]
    /\ UNCHANGED <<cmds, busy, intent, feed, loads, fetches>>
------------------------------------------------------------------------------
(* Time and sound *)

\* the clock is only a timer: it also runs while nothing sounds
Elapse ==
    /\ eng.playing /\ eng.pos # AtEnd
    /\ eng' = [eng EXCEPT !.pos = @ + 1]
    /\ UNCHANGED <<cmds, busy, intent, feed, loads, fetches>>

\* the clock counts whole seconds: the sound ends about when it does, and the
\* outgoing source may outlive the hand-off.  A successor sounds to its end
SourceEnds ==
    /\ eng.playing /\ eng.src # <<>>
    /\ eng.next # 0 => Len(eng.src) > 1
    /\ \/ eng.pos >= Tail2 /\ feed.state # "open"
       \/ eng.cut \/ feed.state = "dead"
       \/ Len(eng.src) > 1 /\ Head(eng.src) # eng.track
    /\ eng' = [eng EXCEPT !.src = Tail(@)]
    /\ UNCHANGED <<cmds, busy, intent, feed, loads, fetches>>

ThreadSteps ==
    \/ StartPlay \/ Install \/ Abandon \/ PauseEngine \/ ResumeEngine \/ StopEngine
    \/ AppendNext \/ Transition \/ AskForNext \/ RunsEmpty \/ RecordEmpty
FetchSteps(f) == FetchCached(f) \/ FetchStarts(f) \/ FetchSends(f) \/ FetchFails(f)
==============================================================================
