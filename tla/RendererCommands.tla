-------------------------- MODULE RendererCommands --------------------------
(***************************************************************************)
(* Renderer commands: how a SET_STATE of the server reaches the player.    *)
(* The session loop admits a command, may defer it until its queue has     *)
(* come, executes it against the player, publishes the result and reports  *)
(* it (crates/qconnect-app/src/{app,renderer}.rs, qconnect-core/src/       *)
(* renderer.rs, qbzd/src/qconnect/sink.rs).                                *)
(*                                                                         *)
(* The loop handles one event at a time and awaits between the steps       *)
(* below.  Beside it the fences of LocalTakeover rise and fall and the     *)
(* player finishes or fails to load.  An activation changes only in the    *)
(* loop, so that the checks for it inside one command cannot fail and are  *)
(* left out.  Whether a resync gets the pending slot is QconnectApp's      *)
(* business; it changes nothing here.                                      *)
(*                                                                         *)
(* The player is its intent to play, its buffer slot and the flags that    *)
(* its audio thread sets when it gets to them: until then the loop reads   *)
(* what was true before (crates/qbz-player/src/player/mod.rs).  Left out   *)
(* are the end of a track, a source that fails while it plays, and what a  *)
(* listener does at the device.                                            *)
(***************************************************************************)
EXTENDS Naturals

CONSTANTS
    Items,         \* occurrences (queue items) of the cloud's queue
    NoItem,
    Songs,         \* tracks of the catalog
    NoSong,
    Song,          \* the track of an occurrence
    Majors,        \* major queue versions
    NoMajor,
    Sent,          \* the SET_STATE commands the server sends
    Queues,        \* the queues the server has
    MaxGeneration  \* bound: activations

Modes == {"play", "pause", "stop"}
Command == [track : Items \cup {NoItem}, mode : Modes \cup {"none"}, pos : BOOLEAN,
            major : Majors \cup {NoMajor}]
Queue == [major : Majors, queued : SUBSET Items, auto : SUBSET Items]

ASSUME RendererAssumption ==
    /\ NoItem \notin Items /\ NoSong \notin Songs /\ NoMajor \notin Majors
    /\ Song \in [Items -> Songs]
    /\ Sent \subseteq Command
    /\ Queues \subseteq Queue /\ \A q \in Queues : q.queued \cap q.auto = {}
    /\ MaxGeneration \in Nat

VARIABLES
    generation, \* sync.renderer_generation: the activation
    seen,       \* state.renderer_generation: the activation the renderer state is of
    fence,      \* "take": a takeover or conflict is pending; "assert": its report is
    queue,      \* state.queue
    applied,    \* sync.last_applied_queue_state is this very queue
    core,       \* the player's queue: does it mirror the cloud's, and its cursor
    player,     \* the player
    renderer,   \* state.renderer: track and playing_state
    target,     \* sync.pending_transport_target
    deferred,   \* state.deferred_renderer_command
    pc,         \* where the loop is
    job,        \* the command it executes
    aim,        \* history: the last track of an admitted command
    intent      \* history: the last playing_state of an admitted command

activation == <<generation, seen>>
mirror == <<queue, applied, core>>
history == <<aim, intent>>
vars == <<activation, fence, mirror, player, renderer, target, deferred, pc, job, history>>

NoCommand == [track |-> NoItem, mode |-> "none", pos |-> FALSE, major |-> NoMajor]
Nothing == [born |-> 0, cmd |-> NoCommand]
Owed == [born : 0..MaxGeneration, cmd : Command]
NoTarget == [born |-> 0, item |-> NoItem]
Renderer == [track : Items \cup {NoItem}, mode : Modes \cup {"none"}]
Unset == [track |-> NoItem, mode |-> "none"]

\* The track the audio thread is at, has_loaded_audio and is_playing as it last
\* set them, the intent to play (play_intent), the track in initial buffering,
\* and whether the thread has still to stop.
Player == [song : Songs \cup {NoSong}, loaded : BOOLEAN, on : BOOLEAN, plays : BOOLEAN,
           loading : Songs \cup {NoSong}, stopping : BOOLEAN]

TypeOK ==
    /\ generation \in 0..MaxGeneration /\ seen \in 0..MaxGeneration
    /\ fence \in {"none", "take", "assert"}
    /\ queue \in Queues /\ applied \in BOOLEAN
    /\ core \in [mirrors : BOOLEAN, cursor : Items \cup {NoItem}]
    /\ player \in Player
    /\ renderer \in Renderer
    /\ target \in [born : 0..MaxGeneration, item : Items \cup {NoItem}]
    /\ deferred \in Owed /\ job \in Owed
    /\ pc \in {"idle", "pauseSource", "stopAnyway", "execute", "lookup", "publish",
               "sink", "replay"}
    /\ aim \in Items \cup {NoItem} /\ intent \in Modes \cup {"none"}

Init ==
    /\ generation = 0 /\ seen = 0 /\ fence \in {"none", "take"}
    /\ queue \in {q \in Queues : q.queued = {} /\ q.auto = {}}
    /\ applied = FALSE /\ core = [mirrors |-> FALSE, cursor |-> NoItem]
    /\ player = [song |-> NoSong, loaded |-> FALSE, on |-> FALSE, plays |-> FALSE,
                 loading |-> NoSong, stopping |-> FALSE]
    /\ renderer = Unset /\ target = NoTarget
    /\ deferred = Nothing /\ pc = "idle" /\ job = Nothing
    /\ aim = NoItem /\ intent = "none"

Known(item, q) == item \in q.queued \cup q.auto

\* The command needs another queue than the one that is here.
Needs(c, q) == \/ c.major # NoMajor /\ c.major # q.major
               \/ c.track # NoItem /\ ~Known(c.track, q)

\* A command that follows the deferred p is merged into it, field by field.
Merged(p, c) == [p EXCEPT !.mode = IF c.mode = "none" THEN @ ELSE c.mode,
                          !.pos = @ \/ c.pos]
MergedVersion(p, c) ==
    [Merged(p, c) EXCEPT !.major = IF c.major = NoMajor THEN @ ELSE c.major]
------------------------------------------------------------------------------
(* Admission: apply_renderer_server_command_serialized up to execution *)

\* Faulty variant: a new activation keeps what the old one had deferred.
RetainedOver == deferred

\* What a new activation leaves of the deferred command.
Retained == IF seen = generation THEN deferred ELSE Nothing

\* Faulty variant: a later command without a track leaves the deferred one as
\* it is.
KeepFirst(d, c) ==
    IF Needs(c, queue) THEN IF c.track = NoItem /\ d # Nothing THEN d
                            ELSE [born |-> generation, cmd |-> c]
    ELSE IF c.track # NoItem \/ c.mode = "stop" THEN Nothing
    ELSE d

\* The deferred command after c, where d was deferred before: the newest
\* intent only.
Newest(d, c) ==
    IF Needs(c, queue)
    THEN IF c.track = NoItem /\ d # Nothing THEN [d EXCEPT !.cmd = MergedVersion(@, c)]
         ELSE [born |-> generation, cmd |-> c]
    ELSE IF c.track # NoItem \/ c.mode = "stop" THEN Nothing
    ELSE IF d # Nothing THEN [d EXCEPT !.cmd = Merged(@, c)] ELSE Nothing

\* The command itself waits: for its queue, or as a seek for a deferred target.
Waits(d, c) ==
    \/ Needs(c, queue)
    \/ c.track = NoItem /\ d # Nothing /\ c.mode = "none" /\ c.pos

\* An admitted command goes where the code's branches send it.
Admit(born, c, d) ==
    /\ seen' = generation
    /\ renderer' = IF seen = generation THEN renderer ELSE Unset
    /\ deferred' = Newest(d, c)
    /\ pc' = IF ~Waits(d, c) THEN "execute"
             ELSE IF c.mode = "stop" THEN "stopAnyway"
             ELSE IF c.mode = "pause" THEN "pauseSource" ELSE "idle"
    /\ job' = IF pc' = "idle" THEN Nothing ELSE [born |-> born, cmd |-> c]

Drop == pc' = "idle" /\ job' = Nothing

ReceiveCommand(c) ==
    /\ pc = "idle" /\ fence = "none"
    /\ Admit(generation, c, Retained)
    /\ aim' = IF c.track = NoItem THEN aim ELSE c.track
    /\ intent' = IF c.mode # "none" THEN c.mode
                 ELSE IF seen = generation THEN intent ELSE "none"
    /\ UNCHANGED <<generation, fence, mirror, player, target>>

\* A command without a transport part (volume, quality, modes): it only brings
\* the renderer state to the activation.
ReceiveOther ==
    /\ pc = "idle" /\ fence = "none"
    /\ seen' = generation /\ deferred' = Retained
    /\ renderer' = IF seen = generation THEN renderer ELSE Unset
    /\ intent' = IF seen = generation THEN intent ELSE "none"
    /\ UNCHANGED <<generation, fence, mirror, player, target, pc, job, aim>>

\* STOP does not wait for a queue: it is admitted again, without the rest.
StopAnyway ==
    /\ pc = "stopAnyway"
    /\ IF fence = "none"
       THEN /\ pc' = "execute" /\ deferred' = Nothing
            /\ job' = [job EXCEPT !.cmd = [NoCommand EXCEPT !.mode = "stop"]]
       ELSE Drop /\ UNCHANGED deferred
    /\ UNCHANGED <<activation, fence, mirror, player, renderer, target, history>>

\* PAUSE holds the source that plays now; the target stays deferred.
PauseSource ==
    /\ pc = "pauseSource" /\ Drop
    /\ IF fence = "none"
       THEN player' = [player EXCEPT !.plays = FALSE]
       ELSE UNCHANGED player
    /\ UNCHANGED <<activation, fence, mirror, renderer, target, deferred, history>>
------------------------------------------------------------------------------
(* Execution: the sink and renderer.rs apply_renderer_command *)

cmd == job.cmd

IsEcho == cmd.mode = "none" /\ cmd.track = NoItem /\ ~cmd.pos

\* The proposed renderer state (qconnect-core apply_renderer_command).
Proposed == [track |-> IF cmd.track = NoItem THEN renderer.track ELSE cmd.track,
             mode |-> IF cmd.mode = "none" THEN renderer.mode ELSE cmd.mode]

Wanted == Proposed.mode \in {"play", "pause"}

\* pending_transport_target after the command has registered its own.
Registered == IF cmd.track # NoItem /\ Proposed.mode = "none"
              THEN [born |-> generation, item |-> cmd.track] ELSE target

Partial == Registered.item # NoItem /\ Registered = [born |-> generation, item |-> Proposed.track]

\* The command is about a track and not only about the transport.
Prepares == /\ Wanted /\ Proposed.track # NoItem
            /\ cmd.track # NoItem \/ Partial \/ ~player.loaded

\* align_remote_occurrence finds the occurrence in both queues.
Aligned == Known(Proposed.track, queue) /\ core.mirrors

Moves == Proposed.track \in queue.queued /\ core.cursor # Proposed.track

\* Another occurrence of the track the player is at.
NewOccurrence == Moves /\ player.song = Song[Proposed.track]

\* Faulty variant: audio that is loaded is taken for the target's.
LoadedIsEnough ==
    ~NewOccurrence /\ (player.loaded \/ player.loading = Song[Proposed.track])

\* prepare_remote_track has nothing to do.
IsPrepared ==
    /\ ~NewOccurrence
    /\ \/ player.song = Song[Proposed.track] /\ player.loaded
       \/ player.loading = Song[Proposed.track]

\* Player::stop is a new intent (to play, but nothing is there to be played)
\* and a task for the audio thread.
Stopped(p) == [p EXCEPT !.plays = TRUE, !.loading = NoSong, !.stopping = TRUE]

Fails == Drop /\ UNCHANGED player

\* resume, unless the player seems to play; pause or stop; and then a seek,
\* which changes nothing here.
Transport ==
    /\ player' = CASE cmd.mode = "play" -> [player EXCEPT !.plays = @ \/ ~player.on]
                   [] cmd.mode = "pause" -> [player EXCEPT !.plays = FALSE]
                   [] cmd.mode = "stop" -> Stopped(player)
                   [] OTHER -> player
    /\ pc' = "publish" /\ UNCHANGED job

\* The echo of a report is not executed; a fenced command fails.
SkipOrRefuse ==
    /\ pc = "execute" /\ (IsEcho \/ fence # "none")
    /\ IF IsEcho THEN pc' = "publish" /\ UNCHANGED job ELSE Drop
    /\ UNCHANGED <<activation, fence, mirror, player, renderer, target, deferred, history>>

Executes == pc = "execute" /\ ~IsEcho /\ fence = "none"

\* The transport of what is there, or of nothing: a PLAY without a target and
\* without audio is accepted and does nothing.
ExecuteTransport ==
    /\ Executes /\ ~Prepares
    /\ target' = IF cmd.mode = "stop" THEN NoTarget ELSE Registered
    /\ IF Wanted /\ ~player.loaded /\ cmd.mode = "play"
       THEN pc' = "publish" /\ UNCHANGED <<player, job>>
       ELSE Transport
    /\ UNCHANGED <<activation, fence, mirror, renderer, deferred, history>>

ExecuteUnaligned ==
    /\ Executes /\ Prepares /\ ~Aligned
    /\ target' = Registered /\ Fails
    /\ UNCHANGED <<activation, fence, mirror, renderer, deferred, history>>

MoveCursor == core' = IF Moves THEN [core EXCEPT !.cursor = Proposed.track] ELSE core

ExecutePrepared ==
    /\ Executes /\ Prepares /\ Aligned /\ IsPrepared
    /\ MoveCursor /\ target' = NoTarget /\ Transport
    /\ UNCHANGED <<activation, fence, queue, applied, renderer, deferred, history>>

\* The track is looked up in the catalog before its stream starts.
ExecuteLookup ==
    /\ Executes /\ Prepares /\ Aligned /\ ~IsPrepared
    /\ MoveCursor /\ target' = Registered /\ pc' = "lookup"
    /\ player' = IF NewOccurrence THEN Stopped(player) ELSE player
    /\ UNCHANGED <<activation, fence, queue, applied, renderer, deferred, job, history>>

\* A stop that the audio thread has still to do is done before the stream is
\* read: from here on the track counts as loaded.
StreamStarts ==
    /\ pc = "lookup" /\ pc' = "publish"
    /\ player' = [player EXCEPT !.plays = Proposed.mode = "play", !.loaded = TRUE,
                                !.on = @ /\ ~player.stopping, !.stopping = FALSE,
                                !.loading = Song[Proposed.track]]
    /\ target' = NoTarget
    /\ UNCHANGED <<activation, fence, mirror, renderer, deferred, job, history>>

LookupFails ==
    /\ pc = "lookup" /\ Fails
    /\ UNCHANGED <<activation, fence, mirror, renderer, target, deferred, history>>

Publish ==
    /\ pc = "publish" /\ Drop
    /\ renderer' = Proposed
    /\ UNCHANGED <<activation, fence, mirror, player, target, deferred, history>>
------------------------------------------------------------------------------
(* Queue and session events *)

\* apply_server_event: the reducer's queue, which the sink then gets.  A queue
\* with the same contents may be another version of it, or the very same.
QueueEvent(q, same) ==
    /\ pc = "idle" /\ pc' = "sink"
    /\ same => q = queue
    /\ queue' = q /\ applied' = (applied /\ same)
    /\ core' = [core EXCEPT !.mirrors = @ /\ q = queue]
    /\ UNCHANGED <<activation, fence, player, renderer, target, deferred, job, history>>

\* The local track is not in the queue.
IsStale(q) == /\ player.song # NoSong /\ q.queued # {}
              /\ \A i \in q.queued : Song[i] # player.song

\* should_materialize_remote_queue, materialize_remote_queue.  The queue counts
\* as applied before its tracks have been fetched; not all of them may come.
\* Where the cursor starts, and whether a stale track is stopped, depends on what
\* was last published of this or another renderer, which is left open.
Materialize ==
    /\ pc = "sink" /\ fence # "take" /\ ~applied /\ pc' = "replay"
    /\ applied' = TRUE
    /\ \/ /\ core' \in [mirrors : BOOLEAN,
                        cursor : IF queue.queued = {} THEN {NoItem} ELSE queue.queued]
          /\ \/ UNCHANGED player
             \/ IsStale(queue) /\ player' = Stopped(player)
       \/ UNCHANGED <<core, player>>  \* the fetch failed
    /\ UNCHANGED <<activation, fence, queue, renderer, target, deferred, job, history>>

\* Not materialized: the same queue again, or a pending takeover.  The echo a
\* takeover waits for is the player's own queue.
LeaveQueue ==
    /\ pc = "sink" /\ (fence = "take" \/ applied) /\ pc' = "replay"
    /\ \/ UNCHANGED <<fence, applied, core>>
       \/ /\ fence = "take" /\ fence' = "assert" /\ applied' = TRUE
          /\ core' \in [mirrors : {TRUE}, cursor : queue.queued \cup {NoItem}]
    /\ UNCHANGED <<activation, queue, player, renderer, target, deferred, job, history>>

\* Faulty variant: is_some_and for is_none_or, so that a command without a track
\* is never ready.
ReadyIfNamed(d) == d # Nothing /\ d.cmd.track # NoItem /\ ~Needs(d.cmd, queue)

Ready(d) == d # Nothing /\ ~Needs(d.cmd, queue)

NotReady ==
    /\ pc = "replay" /\ pc' = "idle" /\ ~Ready(deferred)
    /\ UNCHANGED <<activation, fence, mirror, player, renderer, target, deferred, job, history>>

\* Faulty variant: the activation is not looked at before the replay.
ReplayableAnyway == fence = "none"

Replayable == deferred.born = generation /\ fence = "none"

\* The deferred command is taken out and, unless it is of an older activation
\* or fenced, admitted like a new one.
Replay ==
    /\ pc = "replay" /\ Ready(deferred)
    /\ IF Replayable THEN Admit(deferred.born, deferred.cmd, Nothing)
       ELSE Drop /\ deferred' = Nothing /\ UNCHANGED <<seen, renderer>>
    /\ UNCHANGED <<generation, fence, mirror, player, target, history>>

\* Another session, a handoff to a peer or a settled conflict.
NewActivation ==
    /\ pc = "idle" /\ generation < MaxGeneration
    /\ generation' = generation + 1
    /\ fence' \in {fence, "none"}
    /\ UNCHANGED <<seen, mirror, player, renderer, target, deferred, pc, job, history>>
\* While a peer plays, the player stops (sync_local_playback_for_renderer_ownership)
\* and its cursor follows the peer's (sync_active_renderer_projection).
FollowPeer ==
    /\ pc = "idle"
    /\ \/ player.song # NoSong /\ player.loaded /\ player' = Stopped(player) /\ UNCHANGED core
       \/ /\ \E i \in queue.queued : core' = [core EXCEPT !.cursor = i]
          /\ UNCHANGED player
    /\ UNCHANGED <<activation, fence, queue, applied, renderer, target, deferred, pc, job, history>>
------------------------------------------------------------------------------
(* Beside the loop *)

FenceRises ==
    /\ fence # "take" /\ fence' = "take"
    /\ UNCHANGED <<activation, mirror, player, renderer, target, deferred, pc, job, history>>

\* confirm_local_playback_state_asserted
ReportConfirms ==
    /\ fence = "assert" /\ fence' = "none"
    /\ UNCHANGED <<activation, mirror, player, renderer, target, deferred, pc, job, history>>

\* The audio thread does what it was told.
AudioStops ==
    /\ player.stopping
    /\ player' = [player EXCEPT !.stopping = FALSE, !.loaded = FALSE, !.on = FALSE]
    /\ UNCHANGED <<activation, fence, mirror, renderer, target, deferred, pc, job, history>>

\* The first bytes have come, or they will not.
LoadEnds ==
    /\ player.loading # NoSong
    /\ \/ player' = [player EXCEPT !.song = player.loading, !.on = player.plays, !.loading = NoSong]
       \/ player' = [player EXCEPT !.loaded = FALSE, !.on = FALSE, !.loading = NoSong]
    /\ UNCHANGED <<activation, fence, mirror, renderer, target, deferred, pc, job, history>>

\* A pause or a resume takes effect, if it is still what is wanted.
AudioObeys ==
    /\ player.loading = NoSong /\ ~player.stopping /\ player.loaded
    /\ player.on # player.plays
    /\ player' = [player EXCEPT !.on = player.plays]
    /\ UNCHANGED <<activation, fence, mirror, renderer, target, deferred, pc, job, history>>

Execution == \/ SkipOrRefuse \/ ExecuteTransport \/ ExecuteUnaligned \/ ExecutePrepared
             \/ ExecuteLookup \/ StreamStarts \/ LookupFails \/ Publish

Event == \/ \E c \in Sent : ReceiveCommand(c)
         \/ ReceiveOther
         \/ \E q \in Queues, same \in BOOLEAN : QueueEvent(q, same)
         \/ NewActivation \/ FollowPeer

Next == \/ Event \/ StopAnyway \/ PauseSource \/ Execution
        \/ Materialize \/ LeaveQueue \/ NotReady \/ Replay
        \/ FenceRises \/ ReportConfirms
        \/ AudioStops \/ LoadEnds \/ AudioObeys

Spec == Init /\ [][Next]_vars
------------------------------------------------------------------------------
(* Properties *)

\* The deferred command is the newest intent: it names no track but the one the
\* server asked for last and no transport but the last it asked for
\* ("One newest intent only.  A later pause/stop supersedes it").
DeferredIsNewest ==
    deferred # Nothing /\ seen = generation
        => /\ deferred.cmd.track \in {NoItem, aim}
           /\ deferred.cmd.mode \in {"none", intent}

Accepts == pc # "publish" /\ pc' = "publish"

\* A PLAY is executed only while it is the last transport that was asked for: a
\* queue that comes late never revives one that was paused or stopped since
\* ("resync never resurrects a previously requested play").
NeverResurrects == [][Accepts /\ cmd.mode = "play" => intent = "play"]_vars

\* A command of an activation that is over does not touch the player
\* (renderer_generation).
RetiredNeverActs ==
    [][pc' # pc /\ player' # player /\ job # Nothing => job.born = generation]_vars

\* No command is forgotten: between events none is deferred whose queue is here
\* ("prepare the deferred target once its queue arrives").
ReadyIsReplayed == pc = "idle" => deferred = Nothing \/ Needs(deferred.cmd, queue)

\* The audio thread has done what it was told.
CaughtUp(p) == ~p.stopping /\ p.loading = NoSong /\ (p.loaded => p.on = p.plays)

\* The player is at the track, or will be, and plays as asked.
Serves(p, item, mode) ==
    /\ p.plays = (mode = "play")
    /\ IF p.loading # NoSong THEN p.loading = Song[item]
       ELSE ~p.stopping /\ p.loaded /\ p.song = Song[item]

\* A target that is accepted, and then published and reported, is what the
\* player does or is about to do, if its audio thread had caught up.
AcceptedIsDone ==
    [][/\ Accepts /\ cmd.track # NoItem /\ cmd.mode \in {"play", "pause"}
       /\ pc = "execute" => CaughtUp(player)
       => Serves(player', cmd.track, cmd.mode)]_vars
------------------------------------------------------------------------------
(* What the code's comments say *)

\* The same, whatever the audio thread has still to do ("Publish only after
\* execution is accepted").
AcceptedIsDoneAtOnce ==
    [][Accepts /\ cmd.track # NoItem /\ cmd.mode \in {"play", "pause"}
       => Serves(player', cmd.track, cmd.mode)]_vars

\* No playback starts, also not with a retained playing_state, after a pause or
\* a stop ("A later pause/stop supersedes it").
PauseSupersedes ==
    [][pc = "lookup" /\ Accepts /\ player'.plays => intent = "play"]_vars

\* A seek for a deferred target leaves the source that plays alone ("A seek for a
\* destination still awaiting its queue must not seek the preceding audible source").
SeekWaitsForTarget == [][Accepts /\ cmd.pos => deferred = Nothing]_vars
=============================================================================
