# TLA+ for qbz: Qobuz Connect and the player's queue

qbz is a HiFi player with two hosts, the Qt desktop (`crates/qbz-qt`) and the
headless daemon (`crates/qbzd`), over a set of crates that know no user
interface. Most of these are I/O, codecs and database work. The part whose
correctness depends on what happens between concurrent tasks, a network and a
server is **Qobuz Connect** (`crates/qconnect-*`): a shared queue and one active
renderer among several devices, kept consistent over a WebSocket, and handed from
account to account when another device of the local network takes over. Next to it
stands the **player**: its queue (`crates/qbz-player/src/queue.rs`), which every host
edits by index, its audio thread, and the driver that turns what the thread publishes
into moves of the queue. This directory models these parts, checks them with TLC and
proves what can be proved of them with TLAPS.

    tlc -config QconnectApp.cfg MCQconnectApp           # a run
    tlapm QconnectApp_proofs.tla                        # the proofs of a module

## 1. Inventory

### QConnect

| component | state | operations | interacts with |
|---|---|---|---|
| command path, `qconnect-app/src/app.rs`, `qconnect-core/src/pending.rs` | the pending-action slot, the uuid of the last canceled action, background tasks | `send_queue_command`, the one-shot senders, `watch_pending_action_timeout`, `apply_server_event`, `trigger_queue_state_resync`, `disconnect` | the transport (send), its event broadcast, the host's sink |
| session topology, `session.rs`, `sync_state.rs` | renderer list, local id, active id, cached renderer states, watchdog epoch | `apply_session_management_event`, freeze, arm, `run_renderer_watchdog` | the sink, which drives freeze and arm after the lock |
| takeover arbitration, `run_session_loop` | the loop's locals, three fences in `sync_state.rs` | one pass per event: capture, apply, decide, pending takeovers | the hosts' publish tick, report, yield; the user |
| transport, `qconnect-transport-ws` | runtime slot, shutdown watch, connection state, attempts, backoff, keepalive | `connect`, `send`, `disconnect`, the reconnect task | the network; events to the session loop |
| queue reducer, `qconnect-core/src/reducer.rs` | queue, shuffle order, autoplay items | `apply_event` | the command path calls it under its lock |
| renderer commands, `app.rs` 773-980, `renderer.rs`, `qconnect-core/src/renderer.rs` | deferred command, renderer generation, renderer state, pending target | admit, defer, replay, execute, publish | the sink, the player and its audio thread, the queue the sink materializes |
| authority cell, `authority.rs`, `authority_transition.rs`, `lan_projection.rs` | current authority, its watermark, epochs, counted permits, fences; the session the LAN shows | `reserve`, `install`, `clear`, `clear_if_current`, four kinds of permit, suspend, resume, two waits | everything that acts for an account; the LAN wire |
| delegation, `delegation.rs`, `qbzd/src/qconnect/delegation.rs` | coordinator state, one task per generation; the host's owner snapshot and transition lane | admit, prepare, activate, commit, discard, restore, expiry, shutdown | authority cell, player queue, LAN callback |
| daemon service, `qbzd/src/qconnect/mod.rs` | enable intent, lifecycle gate, connect claim, initial owner, LAN listener | `connect`, `disconnect`, the LAN callback | delegation coordinator, authority cell |
| LAN receiver, `qconnect-lan` | mDNS record, handshake window | announce, admit | the service's callback |
| wire protocol, `qconnect-protocol` | none | encode, decode, map | transport and command path |

Hard behaviour: callers, timers and the session loop are tasks of one tokio
runtime and meet at two mutexes (`state`, `sync`) that are released at every
await; the server answers late, never, or with another controller's events in
between; the link drops with envelopes queued or in flight; `disconnect` aborts
tasks at whatever await they have reached. Credentials of a guest expire while
another candidate is being prepared; permits are counted lock-free against a fence;
a teardown is dropped by a timeout at any of its awaits; connects and disconnects
overtake each other before they reach the gate.

What makes it correct: no action blocks the slot forever and none is told two
outcomes; a snapshot read is not lost to foreign traffic; a dead peer does not
stay PLAYING; a device takes playback from nobody it should not, and never stops
what the user chose to keep; the newest renderer command wins, is not forgotten
while its queue is on the way and is not reported before it is done; reconnects are
bounded and shutdown is final; the play order stays a permutation of the queue and a
track keeps its turn; nobody acts for an account that is being replaced or is gone;
the owner's queue survives every handoff; a guest always leaves; off means off.

### The rest of the repository

| component | state, operations | what makes it correct |
|---|---|---|
| player queue `qbz-player/src/queue.rs` (modelled) | tracks, cursor, shuffle order, history, stop-after; one lock per operation | indexes stay in range, history and order survive edits, `next` then `previous` returns |
| playback driver `qbz-app/src/playback_driver.rs` (modelled) | the last sample, the row asked for; `plan_tick`, `advance_state` every 450 ms, `advance_and_play` | each end of a track moves the queue once, none is lost, a stop mark is kept |
| playback engine `qbz-player/src/player` (modelled without seeking, DSD, device failures) | audio thread, command channel, generations, published fields | a superseded play never sounds, gapless hand-off |
| audio backends `qbz-audio` | device, D-Bus reservation | release of the device |
| caches `qbz-cache` | L1 memory beside the L2 disk cache | budget, no resurrection after clear |
| offline mode, subscription `qbz-app` | connectivity, grace period | purge once, only when due |
| offline cache `qbz-offline-cache` | download states, key vault | no half bundle is playable |
| API client `qbz-qobuz`, core `qbz-core`, models `qbz-models` | session, 403 breaker | retries are bounded |
| library, catalog, sources `qbz-library`, `qbz-local-catalog`, `qbz-source` | SQLite | the catalog follows the sources |
| media servers `qbz-plex`, `qbz-jellyfin`, `qbz-subsonic`, `qbz-media-cache` | SQLite caches | |
| casting, media controls `qbz-cast`, `qbz-media-controls` | device sessions | |
| discs, DSD, CMAF, DAC wizard | codecs | |
| integrations, lyrics, radio, recommendations, link resolver | services, scoring | |
| mixtapes, playlist import, account migration | batch work | |
| secrets, credentials | keyring, files | |
| log, i18n, text, theme, updater, vendored crates | none of interest | |

`PROJECT.json` lists every component with its status, and under `hazards` what
in the modelled and planned code is hard to test, line by line.

## 2. Modules

| module | models |
|---|---|
| `ActionLifecycle` | abstract: one action owns the slot at a time, gets at most one verdict, and gets it as it leaves |
| `QconnectApp` | the command path; shown to implement `ActionLifecycle` |
| `MCQconnectApp` | its instances for TLC |
| `QconnectApp_proofs` | theorems about it |
| `SessionSync` | session topology and the liveness watchdog |
| `LocalTakeover`, `MCLocalTakeover` | the takeover arbitration with the fences and both hosts |
| `LocalTakeover_proofs` | theorems about it |
| `RendererCommands`, `MCRendererCommands` | renderer commands, from the session loop to the player and its audio thread |
| `RendererCommands_proofs` | theorems about them |
| `WsTransport` | the WebSocket transport |
| `Connection_proofs` | theorems about the transport and the topology; extends both modules |
| `QueueReducer`, `MCQueueReducer` | the queue reducer |
| `QueueReducer_proofs` | theorems about it |
| `AuthorityCell`, `AuthorityCell_proofs` | the authority cell, its users' fence and the LAN projection; theorems about it |
| `Delegation` | the delegation coordinator and the daemon's host under it |
| `ConnectService` | the daemon's service; EXTENDS `Delegation` and composes the two |
| `ConnectService_proofs` | theorems about the composition |
| `PlayerQueue`, `MCPlayerQueue` | the player's queue |
| `PlaybackEngine` | the audio thread with its channel and the calls that feed it |
| `PlaybackDriver`, `MCPlaybackDriver` | the driver's tick and the control routes; EXTENDS `PlaybackEngine` |
| `PlaybackDriver_proofs` | theorems about both |

Operators named `...Late`, `...Never`, `...Anyway` and the like with the comment
"Faulty variant" stand before the definition they vary. No specification uses
them: they are the bugs against which the properties were tried
(`PROJECT.json`, `mutants`).

**QconnectApp.** `slot` is `state.pending`. A call of `send_queue_command` goes
through the steps `sending` (the reservation is made, the transport awaited),
`announcing` (`PendingActionStarted` is being emitted) and, for one-shot
senders, `releasing`. Each action is one critical section of the `state` lock or
one await. A refused call (busy slot, a restricted volume, an envelope that does
not encode) changes nothing and is a stutter. `timers` are watches asleep,
`lapsed` those that have timed out and are about to resync. `inbox` is what the
transport has broadcast and the session loop has not handled; `wire` holds
commands that the transport has queued or the server has received. `verdict` is a
history variable: the event the application was given for an action. The server
is external: it answers a command with any event it may answer with, in any
order, or never. An action uuid is reused only when nothing mentions it.

**SessionSync.** One action per message type applies an event under the lock;
`todo` is the `SessionApplyOutcome` the sink then acts on, first the freeze, then
the arming. Watchdogs sleep, decide under the lock and freeze in a second
critical section. A device's identity is reduced to how it compares to this one
(same uuid, fingerprint, name and type, or none of these), which is what
`refresh_local_renderer_id` uses. `Without` takes the one listed occurrence of a renderer
out of the list: the same as `retain`, because no renderer is listed twice.

**LocalTakeover.** `pc` is where the loop is in its pass over one event:
capture (`apply`), decision (`decide`), then the pending takeovers in the order
of the code (`local`, `remote`, `auto`). `loop` holds its locals, `conflict`,
`fence`, `assertion` are the three fences of `sync_state.rs`. Beside the loop run
the user, the publish tick (send and arming are two steps), the report and the
10 s timeout. `Host` selects the front end: the hosts differ in the choices they
offer, in what they ask before they stop local audio (`Yields`) and in whether
arming clears the conflict. `deed` names what the last step did to authority,
`grabs` and `keep` are history variables. Whether a command gets the pending slot
is left open here; `QconnectApp` models it.

**RendererCommands.** `pc` is where the loop is: idle, in the execution of an admitted
command (`execute`, `lookup`, `publish`), in one of the two things a waiting command
still does (`stopAnyway`, `pauseSource`), or behind a queue event (`sink`, then
`replay`). Admission is one critical section of `state`. `deferred`, `renderer` and
`seen` are fields of `QconnectRuntimeState`; `target`, `applied`, `generation` and
`fence` belong to `QconnectRemoteSyncState`, the fences reduced to what a command asks
of them. `player` keeps the intent (`plays`, set at once) apart from the flags and the
track that the audio thread sets when it gets to them, because the code decides by
the latter. Where the cursor starts and whether a stale track is stopped when a queue
is materialized is left open. `aim` and `intent` are history variables: the last track
and the last playing state of an admitted command. Not modelled: the end of a track,
a source that fails while it plays, a listener at the device, what reports say.

**WsTransport.** One caller and the task of `run_native_transport_loop`. Time
passes in quarters of the keepalive interval, which is what tells a tick, a pong
and the deadline of two and a half intervals apart. A send the network does not
take holds the whole `select!`. `tries` is a history variable: connections tried
since a session was accepted or an idle wait ended.

**QueueReducer.** One action per event of `apply_event`. Indexes start at 1. The
shuffle generator is any permutation (the pivot first); the server sends any list
of ids it has not given out, any anchor in or outside the queue, with or without
a seed. `event` remembers the last event for the action properties. `Kept` is the
`filter` and `retain` of the code, defined by the positions that stay instead of by
recursion, so that it can be reasoned about; `MCQueueReducer` has TLC compare it with
`SelectSeq` over short sequences.

**AuthorityCell.** Where the code holds a mutex an action is one critical section;
where it is lock-free (admission of a permit) every load and every increment is an
action of its own: `FirstLook`, `Observe`, `CountIn`, `SecondLook`, `Admit`. A wait
is three steps, because `notify_waiters` wakes only futures that exist: register,
look, sleep. `current` and `through` are `AuthorityState`, `fences` and `counted`
the two atomics (the set of counted actors instead of their number), `lane` the
`transition_gate`, `inner` and `runtime` the host's own mutex and what it guards,
`slot`, `installed`, `shown` the LAN projection. A handoff task makes one change of
authority after another: behind the fence (delegate, restore, shutdown) or outside
it (connect, retire). `era` and `overtaken` are history variables: how often the
authority changed, and the epochs that may not come back. The atomics are
sequentially consistent here: an increment of one counter is ordered before the load
of the other that follows it. The code uses `AcqRel` read-modify-writes and `Acquire`
loads, which alone do not promise that order between two locations, so the exclusion
is shown under an assumption about the machine.

**Delegation.** `lifecycle`, `generation`, `pending`, `active` are
`CoordinatorState`; a section under the commit gate is one step. `task[g]` is where
the task of generation `g` is, what authority it expects to replace and whose queue
it captured. `cancelled` are the watch channels. Of the host there are the `lane`
(who holds `transition_gate`), the installed stamp, the snapshot of the owner's
queue and whose queue the player has. `stop` is the shutdown in progress, which may
be dropped by its timeout at every await. What a task does over the network either
succeeds or fails. An abort takes effect at once. Fence, drain and epochs behind
the lane are `AuthorityCell`'s business and left out here.

**ConnectService.** `intent` is the enable intent with its epoch, `gate` the queue of
those who wait for `lifecycle_gate` (its head holds it), `service` where the holder
is, `claim` the connecting token, `listener` the stamp the LAN callback was built
with, `offered` a handoff that has passed the callback's check and now blocks on the
admission. `disconnect` is two sections before the gate (`AskDisconnect`,
`Withdraw`), because the intent ends before the claim is cleared. Not modelled: the
caller's outer timeout on the coordinator's shutdown, the latch of a LAN runtime
that could not be stopped, settings and status text.

**PlayerQueue.** One action per operation of `QueueManager`, each under the one
lock. A row is an occurrence of a song, so that two copies of a song differ; indexes
start at 1 and 0 is `None`. The operations that may panic poison the lock
(`PeekUpcomingPanics`, `PreviousPanics`) and nothing follows. `peek_next` and
`peek_previous`, which the hosts call before they advance, are operators, compared
with what advancing then does. Left out: metadata patches, the snapshot pair and
`remove_after`.

**PlaybackEngine.** `eng` is what the audio thread holds and publishes, `cmds` its
channel, `busy` the play whose source it prepares. A generation is only ever compared
with the newest, so a call, a command and a feeder carry `fresh` instead. `loads` is
`play_track` of each caller up to and behind its await, `feed` the download behind the
newest play, `fetches` the `queue_next_streaming` calls. A position is one of four
phases: before the ten seconds in which a successor is asked for, in them, in the last
two seconds, at the end. The end of a source, the clock and the thread's check
are steps of their own, and so is the publication of a stop before its edge. Gapless
playback is on (the default, `qbz-audio/src/settings.rs:145`) and tracks are longer than
ten seconds; seeking, DSD, devices that fail and volume are left out.

**PlaybackDriver.** `drv.pc` is where a tick is: `ReadTransport` samples the player,
`Plan` takes the edges and decides (`plan_tick` with the part of `advance_state` before
an end), then `Halt`, `Finish` or `Advance` act on it, each over an await. `Walk` is one
row of `advance_and_play`, by the driver or by a route; `NextRoute`, `StartRoute`,
`PauseRoute`, `ResumeRoute`, `ColdStart`, `StopRoute` and `MarkRoute` are the control
API. The queue is reduced to cursor, stop mark and repeat mode over rows that do not
change. `past` is a history variable: the row that sounds, how often the user moved,
whether something happened that looks like an end of a track but is none (`hush`), and
the row that was marked in time. The driver is
then not expected to keep the order or the sound: `hush` is set by a failure of a load,
of a buffer, or of the download of another row than the one that sounds and the loop has
seen (`LostDownload`: the row would begin again or be passed over); by a pause near the
end of a row or while one is under way, which the position, compared with a duration
that may be another row's, makes look like an end (`LatePause`); and by a successor that
is asked for in the very tick that finds the end, since the fetch is started behind the
`abort_all` (`playback_driver.rs` 757-800) and its row may sound beside the one the end
loads (`AsksAtEnd`). A tick that finds a
hand-off discards the edges published since the one before. Left out: saved positions,
warm-ups, reports, latched errors, the authority, `previous` and edits of the rows.

## 3. Runs

| run | configuration | shows |
|---|---|---|
| `app` | `QconnectApp.cfg` | `HeldSlotIsWatched`, `ReadKeepsItsSlot`, refinement of `ActionLifecycle` (`LifecycleRefined`), `SlotIsFreed`, `LoopReturns` |
| `sync` | `SessionSync.cfg` | `DerivedStateIsCurrent`, `OneWatchdogCanFire`, `WatchedPeerIsResolved` |
| `takeover` | `LocalTakeover.cfg` | `OneTakeoverAtATime`, `NeverStealsFromPlayingPeer`, `KeepsChosenPlayback` (desktop) |
| `ws_transport` | `WsTransport.cfg` | `NoReconnectStorm`, `DeadPeerIsNoticed`, `DisconnectReturns` |
| `renderer` | `RendererCommands.cfg` | `DeferredIsNewest`, `ReadyIsReplayed`, `NeverResurrects`, `RetiredNeverActs`, `AcceptedIsDone` |
| `queue_reducer` | `QueueReducer.cfg` | `OrderCoversQueue`, `StayersKeepTheirTurn`, `InsertedPlayNext` |
| `authority` | `AuthorityCell.cfg` | `NobodyActsDuringHandoff`, `ActsForItsAuthority`, `OvertakenStaysOut`, `LanShowsCurrent`, `TokensAreExact`, `HandoffsEnd`, `WaitersResume` |
| `connect_service` | `ConnectService.cfg` | `GuestIsAccountedFor`, `OwnerKeepsQueue`, `OffMeansOff` |
| `connect_live` | `ConnectLive.cfg` | `NothingHangs`, `ExpiredGuestLeaves` |
| `player` | `PlayerQueue.cfg` | `PeeksAreHonest`, `PlaysWhatItShows`, `EditsKeepTheTimeline` |
| `driver` | `PlaybackDriver.cfg` | `MarkedEndsAlone`, `NoDeadAir`, `InOrder` |

Type invariants are proved (section 4) and the runs do not repeat them, but for the two
modules of the player, whose `TypeOK` can be added to a configuration.
`QconnectAppSafety.cfg` is a wider instance of the safety properties of `app` (a control
beside the write, more foreign events), to be run by hand.

One further run finds a statement of the repository violated:

| run | the repository says | the code does |
|---|---|---|
| `player_panic` | `queue.rs:1021`: `peek_upcoming` gets "multiple upcoming tracks without advancing"; `queue_qt.rs:1410`: clearing mid-track "lets the current track finish" | clearing under a playing row empties the shuffle order and leaves shuffle on; with repeat all the next peek divides by its length (`queue.rs:1043`), panics and poisons the lock; `previous` (`queue.rs:1201`) indexes it the same way |

Thirteen more disagreements were met while modelling. Their configurations are here, to
be run by hand; each ends in a counterexample.

| configuration (module) | the repository says | the code does |
|---|---|---|
| `QconnectAppOneShotReply.cfg` (`MCQconnectApp`) | `app.rs:2242`: the reply to `ask_for_queue_state` "is not reducer-correlated" | the reply carries the read's uuid and cancels whatever write owns the slot by then |
| `QconnectAppLateError.cfg` (`MCQconnectApp`) | test at `app.rs:4864`: an "ignored late queue error should not mutate queue" | one remembered uuid: when another write is pending, the error overwrites it first and is applied |
| `SessionSyncDisarm.cfg` (`SessionSync`) | `app.rs:1862`: an update "for the active peer resets the timer" | an update about any renderer supersedes the watchdog, and arms none |
| `LocalTakeoverConflict.cfg` (`LocalTakeover`) | `app.rs:2399`: bootstrap is fenced "until SESSION_STATE + the authoritative QueueState establish which side may mutate it" | when no takeover follows, the fence stays |
| `LocalTakeoverYield.cfg` (`LocalTakeover`) | `sync_state.rs:248`: local audio yields "only after remote authority is fully settled" | the daemon asks for the conflict flag only, so a stale PLAYING report stops the kept playback |
| `RendererFlags.cfg` (`MCRendererCommands`) | `app.rs:971`: "Publish only after execution is accepted" | what is prepared and what plays is read from flags the audio thread sets (`renderer.rs:384`): a target right behind a stop finds the audio still loaded, is not loaded again and is published |
| `RendererRetained.cfg` (`MCRendererCommands`) | `app.rs:861`: a later pause or stop "supersedes it; resync never resurrects a previously requested play" | a PAUSE that waits for its queue has not become the playing state: a target that replaces it starts with the PLAY retained from before |
| `RendererSeek.cfg` (`MCRendererCommands`) | `app.rs:887`: a seek for a destination still awaiting its queue "must not seek the preceding audible source" | a command with a transport part beside the position is executed at once, seek included |
| `LocalTakeoverHandoff.cfg` (`LocalTakeover`) | `app.rs:1792`: a handoff "supersedes any unfinished local queue publication" | the loop's own pending takeover survives it |
| `ConnectListening.cfg` (`ConnectService`) | `lan_runtime.rs:13`: a listener outlives "never the current enabled intent or the exact authority runtime it projects" | after a guest came and went the owner has another stamp: the listener stays up and its callback refuses everyone |
| `ConnectSuperseded.cfg` (`ConnectService`) | `qbzd/src/qconnect/mod.rs:552`: "an enable requested while that wait was pending is newer and must win" | the disable's second section clears whatever claim there is: the newer enable then fails its install as superseded |
| `PlaybackRepeatOne.cfg` (`MCPlaybackDriver`) | `playback_driver.rs:325`: "repeat one/all always yield a next track (QueueManager owns the replay/wrap)"; test at `queue.rs:2273`: "repeat-one must replay the current row" | the successor that is asked for is the next row in every mode (`playback_driver.rs:269`, `get_state_full` does not look at repeat): with gapless on, the next row plays |
| `PlaybackStopAfter.cfg` (`MCPlaybackDriver`) | `playback_driver.rs:323`: "stop-after HALTS (pause, never advance" | an end found by a sample in one tick is found again by its published edge in the next, when the mark is used up: the driver advances |

### Bounds, and why they are enough

- *Two action uuids* (`QconnectApp`): the slot holds one action, so every race is
  between an owner and one other party; the third party, another controller, has
  a uuid of its own. Uuids are recycled as soon as nothing mentions them. When
  both are in use a resync is given up (`UuidsUsedUp`); resyncs with a free uuid
  are among the behaviours checked. The inbox of one (two in the configurations that
  show a disagreement) makes the network wait, it loses nothing. The run uses one write,
  the reads and the handover command in both sender styles (330,890 states); the
  safety configuration adds a control that may go beside a read; the theorems hold for
  every set of kinds.
- *Two renderers, two epochs* (`SessionSync`): the properties relate the active
  renderer to one other; two epochs make one watchdog stale while another is armed.
- *Two load uuids* (`LocalTakeover`): a publication and its retry.
- *Two attempts, backoff up to 3, one outbound envelope, three quarters of stall*
  (`WsTransport`): the cap is passed, the doubling is cut off at a value that is no
  power of two, the channel fills, and a stall is long enough to skip a tick.
- *One actor, two handoff tasks, three epochs* (`AuthorityCell`, 205,719 states): an
  actor meets one handoff in each of its steps and another right behind it; the
  third epoch is a candidate overtaken by a change made meanwhile. The theorems hold
  for any number of actors, tasks and epochs.
- *Two generations, three requests* (`ConnectService`, safety, 861,579 states): a
  guest and the restore or candidate that follows it; connect, disconnect, connect
  is the shortest way to an owner that could be installed over what a teardown left
  behind. Exhausted generations are part of the code (`next_generation` is checked),
  so the bound is also a behaviour. Liveness is checked with two requests (87,923
  states). The theorems hold for any number of both.
- *Three rows, two of them copies of one song, a history of two* (`PlayerQueue`,
  63,954 states): an edit before, at and behind the current row, a full history and
  the pairing of copies.
- *Two songs, one queue item of each, two major versions, six commands, two
  activations* (`RendererCommands`, 2,086,577 states): a target whose queue is here and
  one whose queue is not, with and without a transport, and an activation that ends
  while one waits. The instance has no autoplay item; the theorems hold for any
  queues, commands and number of activations.
- *Four ids, three tracks in one event* (`QueueReducer`, 1,228 states up to symmetry):
  an edit in the middle of an order that is neither the identity nor its reverse. The
  theorems hold for any ids and any length of an event.
- *Three rows, one unplayable, two events* (`PlaybackDriver`, 2,470,910 states): a row to
  skip before one to play; an event is what the user does or what fails, and two of them
  overlap anywhere in a tick, a load or a hand-off. A playback that is started and
  then left alone is every behaviour with one event. The one step that needs more is
  the change of the stop mark between plan and halt (the ELSE of `Halt`).

Symmetry is used over action uuids, queue item ids and the two copies of a song,
which are only compared, and never where liveness is checked. Deadlock is checked in
the runs of `QconnectApp`, `WsTransport`, `RendererCommands` and `QueueReducer`. It is
not in `SessionSync`, where the bound on epochs and the end of the runtime stop the
system, in `LocalTakeover`, where a loop that has ended leaves only the user, in
`AuthorityCell`, `ConnectService` and `PlaybackDriver`, where the bounds on epochs,
requests and events end the work there is, and in `PlayerQueue`, which a panic stops.

### Fairness, and why the code justifies it

- `QconnectApp`: weak fairness of every call, every watch, the session loop and
  `disconnect` once it has begun. These are tasks of a multi-threaded runtime
  waiting for a sleep, a mutex or a bounded-time send. Nothing is assumed of
  callers, of the network or of the server: the slot is freed though no answer comes.
- `SessionSync`: weak fairness of the sink's post-lock work and of the watchdogs'
  sleeps. Nothing of the server.
- `WsTransport`: weak fairness of the task's own steps, of the end of a connection
  attempt (under `tokio::time::timeout`), of the end of a handshake and of a send,
  and of the caller's wait. The handshake's sends and the later sends have no timeout
  in the code, so that they end is assumed of the network: `DisconnectReturns` rests
  on it, as a send that never ends would hold the task.
- `AuthorityCell`: weak fairness of an admitted action (it ends) and of a handoff
  task's own steps; strong fairness of taking the lane, which is a tokio mutex and
  serves in order. Nobody has to ask for a permit or to start a change.
- `ConnectService`: weak fairness of the gate's holder, of each task, of the
  shutdown, of the release of a retired transport (bounded by the cleanup timeout)
  and of the callback. Restores are retried for ever, so that a guest leaves also
  needs that attempts do not fail for ever: `<>[]` no restore stumbles. Nothing is
  assumed of candidates: they may always fail, time out or be cancelled.
- The other modules state safety only.

## 4. Proofs

`QconnectApp_proofs`, for every set of uuids, every choice of commands and foreign
events and every inbox bound, from the assumptions `UuidAssumption` (the special
values are distinct) and `KindAssumption` (the kinds used are kinds of the code):

- `Invariance`: `IndInv == TypeOK /\ HeldSlotIsWatched /\ OwnerIsGenuine`.
  `HeldSlotIsWatched` alone is not inductive: when a send ends, a call that goes
  around the slot must not be the one the slot's owner relies on, and
  `OwnerIsGenuine` says that it is not. One lemma per kind of step: callers, calls,
  watches, the loop, disconnect, and the outside world, which touches neither the
  slot nor what watches it. `AdmitLemma` says once what all three ways into the
  slot establish.
- `TypeCorrect`, `Watched`, `Genuine`: its conjuncts.
- `Refinement`: `Spec => LifecycleRefined`. Each step is a `Reserve`, a `GoAround`,
  a `Settle`, a `Withdraw` or a stutter of `ActionLifecycle`; that an owner has had
  no verdict is what `Settle` needs and `OwnerIsGenuine` provides.
- `ReadSafe`: `ReadKeepsItsSlot` as an action property.

`Connection_proofs`, first for every configuration of the transport admitted by its
`ConfigAssumption`:

- `TransportInvariance`: `TransportInv == TransportTypeOK /\ FlagFollowsLink /\
  TriesAreCounted /\ PingsFollowSilence`. `TriesAreCounted` relates the dials to the attempts at each
  place of the task, since the attempt is counted only after a connection is lost;
  `PingsFollowSilence` bounds the pings by the silence, since a ping goes out only
  with a tick and a tick is due once in four quarters.
- `TransportTypeCorrect`, `FlagIsHonest`, `DialsAreBounded`, `PingsAreBounded`,
  `ShutdownStops`: what follows from it.

Then, for any set of renderers and any bound on epochs of the watchdog:

- `OneFires`: epochs only grow, and a watchdog is armed with the newest.
- `DerivedFollows`: the flags of the cached topology (`CacheInv`), its local id, and that
  the roster names nobody twice (`RosterInv`, which `Without` keeps).

`AuthorityCell_proofs`, for any sets of actors and (finitely many) handoff tasks, any
bound on epochs:

- `CellTypeCorrect`, `DrainExcludesActions`: `Inv` adds to the types that `fences`
  counts exactly the tasks between raising and lowering it, that `counted` is exactly
  the actors between their increment and their decrement, and that behind a drained
  fence nobody is acting *or about to confirm*. The last is what makes exclusion
  inductive: an actor that looked before the fence and counts after the drain is
  stopped by its second look.
- `LanIsCurrent`: `Arbitration` says of every task at its place what it holds (the
  lane, the host's mutex, the projection's) and what nobody can have changed since; that
  the wire shows nothing while the projection's mutex is held (`Hidden`); and that a
  current guest runs, or its install has yet to store the runtime (`GuestRuns`). That
  "no one" is not a task (`CellAssumption`) is all it needs of the constants.
- `ActsForAuthority`: a change of authority ends the actions of the old one, behind the
  fence because nobody acts there, outside it because `Arbitration` leaves no guest to
  lose (`ChangeEndsActions`); `OwnersSeen` covers the actors on their way in.
- `OvertakenStayOut`: the authority only moves forward (`Forward`), and the watermark
  `through` is never below an overtaken epoch.
- `ExactTokens`: while `era` stands still so does `<<current, through>>`, so an equal
  pair that was left in between would need a lower watermark.

`QueueReducer_proofs`, for any ids and any number of tracks in an event, from
`IdAssumption` (the value for "no anchor" is no id):

- `OrderCovers`: `QueueInv` is that the queue repeats no item and that an order is a
  permutation of its indexes, which gives `OrderCoversQueue`. One lemma per kind of event
  rests on lemmas about the helpers: `SplicedOnce`, `RenumberedPerm`, `InsertedPerm`,
  `ShiftedOnce`. What `Kept` returns is told by ranks: an element that stays comes at
  the number of those that stay up to it (`KeptPlaces`, `FilteredTurns`), so that no
  induction over the list is needed. `PermLength` is a fact about cardinalities.
- `TurnsAreKept`, `InsertedAreNext`: the two action properties compare the list of items
  in playing order before and after an event. An addition or insertion opens that list
  at one place and puts the new items there (`PlayedOpens`, `AddedGrows`,
  `InsertedGrows`), which keeps turns (`GrowthKeepsTurns`) and makes the new ones follow
  their anchor (`GrowthIsNext`); a removal leaves the items that stay in their relative
  places (`RemovedKeepsTurns`), and a reordering behind a shuffle renumbers
  without moving anything (`RenumberedTurns`).

`LocalTakeover_proofs`, for both hosts and any set of load uuids: `TakeInv` joins the
types, the fence that stands for what the user chose to keep (`KeepFenced`), the
conflict that an event of the loop raises before it decides (`ConflictRaised`), the
count of idle takes and the fences' exclusion. From it `TypeCorrect`, `OneAtATime`,
`NeverSteals` and, for the desktop host, `ChosenKept`; `LocalTakeoverYield.cfg`
shows it false in the daemon.

`RendererCommands_proofs`, for any queues, commands and number of activations:

- `Invariance`: `Inv` is the types, what the loop has in hand at each of its steps
  (`JobWhileWorking`, `JobFitsStep`), that it is of the current activation
  (`JobIsCurrent`), that what is deferred is of the activation the renderer state is of
  (`DeferredIsOfSeen`) and still waits for a queue outside `replay`
  (`DeferredStillWaits`), and that it names the newest intent. The admission of a new
  command and that of a replay share `AdmittedInv`, `NewestLemma` and `NewestNames`.
- `TypeCorrect`, `NewestDeferred`, `NoneForgotten`, `NoResurrection`,
  `RetiredStaysOut`, `AcceptedTargetIsServed`: every property of the run.

`ConnectService_proofs`, for any number of generations and of requests:

- `Invariance`: `IInv` is the types, `TaskInv` (a task between activation and commit
  has the lane, and captures the owner's queue exactly if it does not replace a
  guest), `StopInv` (the shutdown has the lane from fence to end; a direct teardown
  that was not late has left nothing), `HostInv` (a guest is installed only over a
  snapshot), `ServiceInv` (a connect at any of its steps finds a clean house, and so
  does the next holder after a teardown that reported success) and `PendingInv`.
  `OwnerKeepsQueue` alone says nothing of what a task has captured, nor why an owner
  is never installed while the player still has a guest's queue.
- The proof follows the composition. `Frame` is what the service may rely on while
  the delegation moves, and each of the delegation's steps is shown to keep it and
  its own part (`Kept`), most of them because they move one task and nothing else
  (`PureTask`). The service's steps have one lemma each.
- `TypeCorrect`, `QueueKept`: its conjuncts.
- `GuestAccounted`: over `IInv`, `Account` says that no future generation is in use
  (`Numbered`), that what is pending has a task at work that nobody cancelled, and a
  restore pends only over the cancelled active guest (`PendingWorks`), that an installed
  guest is watched or owed a restore (`GuestInv`), that every live task is pending,
  active or cancelled (`TasksInv`), and how far a shutdown has come (`ShutdownInv`).
  `GuestIsAccountedFor` alone does not say who ends a guest while its restore fails and
  is tried again.
- `OffIsOff`: once switched off with nobody left to clean up (`Quiet`), the delegation
  is disabled, there is no authority and the service rests; no step of the delegation
  changes that (`QuietDelegation`). That the player has the owner's queue then comes from
  `IInv`, and that a task still alive is one that the exhaustion of generations
  cancelled from `TasksInv`.

`PlaybackDriver_proofs`, for any rows, whichever of them can be played, any repeat modes,
any number of skips and of events, from `EngineAssumption` and `DriverAssumption` (the
rows are numbered from 1; `Min` of a set of rows needs that there are finitely many):

- `TypeCorrect`: one lemma per group of steps of the thread, the loads, the loop and the
  routes; the history is typed last (`PastType`), from what a step leaves.
- `MarkedRowEndsAlone`: `MarkedAlone` adds to `MarkedEndsAlone` that the cursor and the
  engine's track are the marked row, that nothing is on its way to the thread and nobody
  loads or fetches, and what the loop has sampled at each place of its tick (`Alone`).
  The tick then neither sees a hand-off nor asks for a successor, and an end it finds
  can only halt (`AloneTick`); the thread has the row to play to its end (`AloneEngine`).
- `DeadAirIsExcluded`: `NoDeadAir` speaks of a player at rest; `NeverSilent` says what is
  true on the way there. Until the user's first row is handed over the player is `Unused`;
  from there on it is `Running`. `Orderly` and `OnePlay` hold whatever happens: one play
  at most is the newest, an outdated one is followed by it or by a stop, and a load that
  the loop has begun excludes both. When the loop waits for nothing and sound is wanted,
  either a play is under way (`Fills`), and then it is of the current row with at most its
  successor behind it (`FillsOK`), or the engine has a row (`Sounds`). Of that row
  `HasRow` says that it can only be silent at its end, `InLine` that what is queued or
  fetched is the row or its successor, `HandedOff` that a cursor on the row before is
  caught up by the next plan, `Seen` what the loop's samples may be, and `EndIsSeen` that
  a silent row leaves an edge or a sample from which the next plan finds the end. The
  channel is spoken of in predicates with a lemma each for what appending, taking and
  superseding do to them (`ChannelGrows`, `ChannelShrinks`, `ChannelAges`); then there is
  one lemma per step, of which `PlanRuns` is the heart. The invariant was run through TLC
  on the configuration of `driver` first.

Only model-checked:

- the liveness properties (`SlotIsFreed`, `LoopReturns`, `WatchedPeerIsResolved`,
  `DisconnectReturns`, `HandoffsEnd`, `WaitersResume`, `NothingHangs`,
  `ExpiredGuestLeaves`): fairness and ENABLED are out of the prover's reach;
- `PlaybackDriver`'s `InOrder`: its invariant would have to follow every source in the
  engine's queue and every walk over rows that cannot be played, in a paused player too,
  which `Running` leaves alone;
- `PlayerQueue`'s action properties (`PeeksAreHonest`, `PlaysWhatItShows`,
  `EditsKeepTheTimeline`): the walks over history and manual blocks are folds
  (`FoldLeft(Record, ...)`), and that such a fold even yields a sequence of indexes
  takes an induction over its list.

Every other property of a passing run is a theorem. The disagreements of section 3 are
shown by TLC on small instances, which is all a counterexample needs.

## 5. What is left out

- In the modelled components: renderer reports (`app.rs` 373-501); the minor queue
  version, which the client copies and never computes with; volume, quality
  and position, which only feed the interface; the decision whether a local queue
  changed since it was published; events lost when the broadcast receiver lags; the
  messages of preflight and rejoin, which decide only whether a step of a delegation
  succeeds; the desktop host's delegation, which follows the daemon's.
- The components of section 1 that `PROJECT.json` lists as `not_modelled`, with the
  reason for each. Codecs, device access, databases and HTTP clients are outside
  what a model checker tells anything about.

## 6. Plan

What is left, the most consequential first:

1. `PlaybackDriver`: the inductive invariant behind `InOrder`, on top of `Running`.
2. `PlayerQueue`: lemmas about its renumbering, in the manner of `QueueReducer_proofs`,
   with the walks over history told without a fold.
3. `AuthorityCell` under `Delegation`: the lane and the stamp of the one refined to
   fence, drain and epochs of the other.
4. `RendererCommands` composed with the fences of `LocalTakeover` and the slot of
   `QconnectApp`: a report split into build, send and confirm, a lossy inbox and the
   owed resync.
5. `AudioCache`, `SubscriptionLifecycle`, `OfflineMode`: small modules.
6. `SessionSync` and `LocalTakeover` composed with the retry tick's liveness: an
   unconfirmed fence is eventually resolved.
