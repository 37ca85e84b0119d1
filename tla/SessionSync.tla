----------------------------- MODULE SessionSync -----------------------------
(***************************************************************************)
(* The session topology that QConnect keeps from server events, and the    *)
(* 12 s liveness watchdog on the active peer: apply_session_management_-   *)
(* event and the watchdog of crates/qconnect-app/src/app.rs, with the      *)
(* post-lock work that crates/qbzd/src/qconnect/sink.rs drives.            *)
(*                                                                         *)
(* The session loop applies one event under the lock (Apply...), then      *)
(* freezes and arms with the lock released; watchdog tasks run beside it.  *)
(***************************************************************************)
EXTENDS Naturals, Sequences

CONSTANTS
    Renderers,      \* renderer ids the server hands out
    NoRenderer,     \* no renderer id
    MaxGeneration   \* bound: how often the watchdog epoch is bumped

ASSUME RendererAssumption ==
    NoRenderer \notin Renderers /\ MaxGeneration \in Nat

\* How a listed device compares to this one: same device_uuid, the same
\* fingerprint, the same name and type at least, or none of these.
Identities == {"sameUuid", "samePrint", "sameName", "other"}

Playing == {"absent", "none", "playing", "paused", "unknown"}

VARIABLES
    roster,      \* session.renderers: ids in the order they were added
    identity,    \* device_info of each listed id
    active,      \* session.active_renderer_id
    local,       \* session.local_renderer_id
    playing,     \* session_renderer_states: playing_state, "absent" without an entry
    flag,        \* session_renderer_states: active
    generation,  \* watchdog_generation
    todo,        \* post-lock work of the event being handled
    watchdogs,   \* spawned run_renderer_watchdog tasks
    life         \* the runtime: "up", or "down" after disconnect

vars == <<roster, identity, active, local, playing, flag, generation, todo, watchdogs, life>>

topology == <<roster, identity, local>>
projection == <<playing, flag>>
------------------------------------------------------------------------------
Option(S) == S \cup {NoRenderer}

Watchdog == [renderer : Renderers, generation : 0..MaxGeneration]

Task == [renderer : Renderers, generation : 0..MaxGeneration, pc : {"asleep", "firing"}]

\* The event's outcome: a renderer to freeze, then a watchdog to arm.
Outcome == [freeze : Option(Renderers), arm : Watchdog \cup {NoRenderer}]

Nothing == [freeze |-> NoRenderer, arm |-> NoRenderer]

TypeOK ==
    /\ roster \in Seq(Renderers)
    /\ identity \in [Renderers -> Identities]
    /\ active \in Option(Renderers) /\ local \in Option(Renderers)
    /\ playing \in [Renderers -> Playing]
    /\ flag \in [Renderers -> {"none", "yes", "no"}]
    /\ generation \in 0..MaxGeneration
    /\ todo \in Outcome
    /\ watchdogs \subseteq Task
    /\ life \in {"up", "down"}

Listed(r) == \E i \in 1..Len(roster) : roster[i] = r

PeerActive == active # NoRenderer /\ local # NoRenderer /\ active # local

\* refresh_local_renderer_id: the first device with our uuid, else the only one
\* with our fingerprint, else the only one with our name and type, else nobody.
LocalIn(list, ident) ==
    LET Match(kinds) == {i \in 1..Len(list) : ident[list[i]] \in kinds}
        First(S) == list[CHOOSE i \in S : \A j \in S : i <= j]
        Unique(S) == \E i \in S : S = {i}
        uuid == Match({"sameUuid"})
        print == Match({"samePrint"})
        name == Match({"samePrint", "sameName"})
    IN  IF uuid # {} THEN First(uuid)
        ELSE IF Unique(print) THEN First(print)
        ELSE IF Unique(name) THEN First(name)
        ELSE NoRenderer

FlagOf(a, r) == IF a = NoRenderer THEN "none" ELSE IF a = r THEN "yes" ELSE "no"

\* sync_session_renderer_active_flags
SyncFlags(a) == flag' = [r \in Renderers |-> FlagOf(a, r)]

\* ensure_session_renderer_state, then a write of the playing state ("keep"
\* leaves it).
Report(r, p) ==
    playing' = [playing EXCEPT ![r] = IF p # "keep" THEN p
                                      ELSE IF @ = "absent" THEN "none" ELSE @]

\* A new entry is created with the flag of the moment; an old one keeps its own.
EnsureFlag(r) == flag' = [flag EXCEPT ![r] = IF playing[r] = "absent" THEN FlagOf(active, r) ELSE @]

Init ==
    /\ roster = <<>>
    /\ identity = [r \in Renderers |-> "other"]
    /\ active = NoRenderer /\ local = NoRenderer
    /\ playing = [r \in Renderers |-> "absent"]
    /\ flag = [r \in Renderers |-> "none"]
    /\ generation = 0
    /\ todo = Nothing
    /\ watchdogs = {}
    /\ life = "up"
------------------------------------------------------------------------------
(* apply_session_management_event, one action per message type *)

Ready == life = "up" /\ todo = Nothing

\* Whether a loop mode is known yet is an input: without one, and without a
\* playing state ("omit"), the active renderer gets no entry.
SessionState(a, p) ==
    /\ Ready
    /\ active' = a
    /\ IF a # NoRenderer /\ p # "omit" THEN Report(a, p) ELSE UNCHANGED playing
    /\ SyncFlags(a)
    /\ UNCHANGED <<topology, generation, todo, watchdogs, life>>

AddRenderer(r, ident) ==
    /\ Ready
    /\ IF Listed(r)
       THEN UNCHANGED topology
       ELSE /\ roster' = Append(roster, r)
            /\ identity' = [identity EXCEPT ![r] = ident]
            /\ local' = LocalIn(roster', identity')
    /\ Report(r, "keep")
    /\ SyncFlags(active)
    /\ UNCHANGED <<active, generation, todo, watchdogs, life>>

\* Faulty variant: new device information does not refresh the local id.
UpdateWithoutRefresh(r, ident) ==
    /\ Ready
    /\ IF Listed(r) THEN identity' = [identity EXCEPT ![r] = ident] ELSE UNCHANGED identity
    /\ Report(r, "keep")
    /\ SyncFlags(active)
    /\ UNCHANGED <<roster, local, active, generation, todo, watchdogs, life>>

UpdateRenderer(r, ident) ==
    /\ Ready
    /\ IF Listed(r)
       THEN /\ identity' = [identity EXCEPT ![r] = ident]
            /\ local' = LocalIn(roster, identity')
            /\ UNCHANGED roster
       ELSE UNCHANGED topology
    /\ Report(r, "keep")
    /\ SyncFlags(active)
    /\ UNCHANGED <<active, generation, todo, watchdogs, life>>

\* renderers.retain: an id is listed once (ListedOnce), so at most one goes.
Without(list, r) ==
    IF \A i \in 1..Len(list) : list[i] # r THEN list
    ELSE LET at == CHOOSE i \in 1..Len(list) : list[i] = r
         IN  SubSeq(list, 1, at - 1) \o SubSeq(list, at + 1, Len(list))

RemoveRenderer(r) ==
    /\ Ready
    /\ roster' = Without(roster, r)
    /\ identity' = [identity EXCEPT ![r] = "other"]
    /\ local' = LocalIn(roster', identity')
    /\ playing' = [playing EXCEPT ![r] = "absent"]
    /\ SyncFlags(active)
    /\ UNCHANGED <<active, generation, todo, watchdogs, life>>

\* Faulty variant: the epoch stays, earlier watchdogs are not superseded.
BumpedNever == generation

\* bump_watchdog_generation
Bumped == generation + 1

ActiveRendererChanged(a, p) ==
    /\ Ready /\ generation < MaxGeneration
    /\ active' = a
    /\ generation' = Bumped
    /\ IF a # NoRenderer /\ p # "omit" THEN Report(a, p) ELSE UNCHANGED playing
    /\ SyncFlags(a)
    /\ UNCHANGED <<topology, todo, watchdogs, life>>

\* ActivePeer is judged on the state the event leaves.
ActivePeer(r) == active = r /\ PeerActive

RendererStateUpdated(r, p, gone) ==
    /\ Ready /\ generation < MaxGeneration
    /\ generation' = Bumped
    /\ Report(r, p)
    /\ EnsureFlag(r)
    /\ todo' = [freeze |-> IF gone /\ ActivePeer(r) THEN r ELSE NoRenderer,
                arm |-> IF playing'[r] = "playing" /\ ActivePeer(r)
                        THEN [renderer |-> r, generation |-> generation'] ELSE NoRenderer]
    /\ UNCHANGED <<topology, active, watchdogs, life>>

\* VOLUME_CHANGED, VOLUME_MUTED, MAX_AUDIO_QUALITY_CHANGED and LOOP_MODE_SET
\* write other fields of an entry, which they create when there is none.
OtherFieldUpdated(r) ==
    /\ Ready
    /\ Report(r, "keep")
    /\ EnsureFlag(r)
    /\ UNCHANGED <<topology, active, generation, todo, watchdogs, life>>
------------------------------------------------------------------------------
(* After the lock *)

\* freeze_active_renderer_projection
Freeze(r) ==
    /\ Report(r, "unknown")
    /\ EnsureFlag(r)

FreezeDisconnected ==
    /\ life = "up" /\ todo.freeze # NoRenderer
    /\ Freeze(todo.freeze)
    /\ todo' = [todo EXCEPT !.freeze = NoRenderer]
    /\ UNCHANGED <<topology, active, generation, watchdogs, life>>

ArmWatchdog ==
    /\ life = "up" /\ todo.freeze = NoRenderer /\ todo.arm # NoRenderer
    /\ watchdogs' = watchdogs \cup {[renderer |-> todo.arm.renderer,
                                     generation |-> todo.arm.generation, pc |-> "asleep"]}
    /\ todo' = Nothing
    /\ UNCHANGED <<topology, projection, active, generation, life>>
------------------------------------------------------------------------------
(* run_renderer_watchdog *)

\* Faulty variant: the epoch test is the wrong way round.
FiresIfSuperseded(w) ==
    /\ w.generation # generation
    /\ active = w.renderer /\ PeerActive
    /\ playing[w.renderer] = "playing"

Fires(w) ==
    /\ w.generation = generation
    /\ active = w.renderer /\ PeerActive
    /\ playing[w.renderer] = "playing"

\* The 12 s are over: decide under the lock, which is released afterwards.
WatchdogWakes(w) ==
    /\ w \in watchdogs /\ w.pc = "asleep"
    /\ watchdogs' = (watchdogs \ {w}) \cup
                       (IF Fires(w) THEN {[w EXCEPT !.pc = "firing"]} ELSE {})
    /\ UNCHANGED <<topology, projection, active, generation, todo, life>>

\* The projection is frozen in a second critical section.
WatchdogFreezes(w) ==
    /\ w \in watchdogs /\ w.pc = "firing"
    /\ Freeze(w.renderer)
    /\ watchdogs' = watchdogs \ {w}
    /\ UNCHANGED <<topology, active, generation, todo, life>>

\* disconnect aborts every task the app owns; the loop is aborted before.
Retire ==
    /\ life = "up" /\ life' = "down"
    /\ watchdogs' = {} /\ todo' = Nothing
    /\ UNCHANGED <<topology, projection, active, generation>>
------------------------------------------------------------------------------
ServerEvent ==
    \/ \E a \in Option(Renderers), p \in {"omit", "keep", "playing", "paused"} : SessionState(a, p)
    \/ \E r \in Renderers, ident \in Identities : AddRenderer(r, ident) \/ UpdateRenderer(r, ident)
    \/ \E r \in Renderers : RemoveRenderer(r) \/ OtherFieldUpdated(r)
    \/ \E a \in Option(Renderers), p \in {"omit", "keep"} : ActiveRendererChanged(a, p)
    \/ \E r \in Renderers, p \in {"keep", "playing", "paused"}, gone \in BOOLEAN :
          RendererStateUpdated(r, p, gone)

PostLock == FreezeDisconnected \/ ArmWatchdog

WatchdogStep == \E w \in watchdogs : WatchdogWakes(w) \/ WatchdogFreezes(w)

Next == ServerEvent \/ PostLock \/ WatchdogStep \/ Retire

Spec == Init /\ [][Next]_vars

\* The loop finishes the event it handles and sleeping tasks wake up; nothing
\* is assumed of the server.
FairSpec == Spec /\ WF_vars(PostLock) /\ WF_vars(WatchdogStep)
------------------------------------------------------------------------------
(* Properties *)

FlagsAgree == \A r \in Renderers : playing[r] # "absent" => flag[r] = FlagOf(active, r)

ListedOnce == \A i, j \in 1..Len(roster) : roster[i] = roster[j] => i = j

LocalIsResolved == local = LocalIn(roster, identity)

\* What is derived from the list of renderers follows it on every path.  The
\* cached active flag of every renderer agrees with the active renderer,
\* whichever path created or froze the entry (sync_session_renderer_active_-
\* flags, ensure_session_renderer_state); ids are listed once, and the local id
\* is the one the current list resolves to (refresh_local_renderer_id).
DerivedStateIsCurrent == FlagsAgree /\ ListedOnce /\ LocalIsResolved

\* At most one watchdog can still fire: every other one was superseded by a
\* later update (bump_watchdog_generation), also while one is being armed.
OneWatchdogCanFire ==
    /\ \A v, w \in watchdogs :
          v.pc = "asleep" /\ w.pc = "asleep"
             /\ v.generation = generation /\ w.generation = generation => v = w
    /\ todo.arm # NoRenderer =>
          /\ todo.arm.generation = generation
          /\ \A w \in watchdogs : w.generation # generation

Watched(r) == \E w \in watchdogs : w.renderer = r /\ w.generation = generation

PlayingPeer(r) == ActivePeer(r) /\ playing[r] = "playing"

\* An armed watchdog does its work: the projection of a playing peer does not
\* stay PLAYING unless its epoch is superseded or the runtime is retired
\* (run_renderer_watchdog, with its two critical sections).
WatchedPeerIsResolved ==
    \A r \in Renderers, g \in 0..MaxGeneration :
       PlayingPeer(r) /\ Watched(r) /\ generation = g
          ~> ~PlayingPeer(r) \/ generation # g \/ life = "down"

\* Only the active peer's own update resets its liveness timer: a report about
\* another renderer leaves the watchdog of a playing peer armed
\* (apply_session_management_event: "Any RENDERER_STATE_UPDATED for the active
\* peer resets the timer").
OnlyItsPeerDisarms ==
    [][\A r, q \in Renderers :
          q # r /\ PlayingPeer(r) /\ Watched(r) /\ active' = r /\ playing'[q] # playing[q]
             => generation' = generation]_vars
==============================================================================
