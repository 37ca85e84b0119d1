---------------------------- MODULE LocalTakeover ----------------------------
(***************************************************************************)
(* Who may play when a QConnect session starts while this device is already *)
(* playing: the takeover arbitration of run_session_loop, the authority    *)
(* fences of sync_state.rs, the hosts' publication of the local queue and  *)
(* the yield to an active peer                                             *)
(* (crates/qconnect-app/src/{app,session,sync_state}.rs,                   *)
(* crates/qbzd/src/qconnect, crates/qbz-qt/src).                           *)
(*                                                                         *)
(* The session loop handles one event at a time and awaits between the     *)
(* steps below; the user, the publish tick, the report and the timeout     *)
(* watch of a load run beside it.  Whether a command gets the pending slot *)
(* is left open here (QconnectApp models it).                              *)
(***************************************************************************)
EXTENDS Naturals

CONSTANTS
    Host,      \* the front end: "qbzd" or "qt"
    Uuids,     \* action uuids of QueueLoadTracks; bound: one per publication
    NoUuid     \* no action

ASSUME HostAssumption == Host \in {"qbzd", "qt"}
ASSUME UuidAssumption == NoUuid \notin Uuids

VARIABLES
    audio,      \* the local player is playing
    conflict,   \* sync.local_playback_conflict_pending
    fence,      \* sync.pending_local_queue_takeover
    assertion,  \* sync.local_playback_state_assertion_pending
    active,     \* session.active_renderer_id: "none", "self" or "peer"
    known,      \* session.local_renderer_id is known
    playing,    \* the renderers whose cached state is PLAYING
    loop,       \* the locals of run_session_loop
    pc,         \* where the loop is in the event it handles
    input,      \* takeover_input
    slot,       \* the load that holds the pending slot
    unanswered, \* loads the server has not answered
    tick,       \* a tick publication between its send and its arming
    deed,       \* what the last step did to authority: "none", "adopt" the cloud's
                \* queue, or send SET_ACTIVE_RENDERER, named by its cause
    grabs,      \* history: idle claims since the connection came up
    keep        \* history: the choice to keep local playback still stands

fences == <<conflict, fence, assertion>>
session == <<active, known, playing>>
loads == <<slot, unanswered>>
history == <<grabs, keep>>
control == <<loop, pc, input>>
vars == <<audio, fences, session, control, loads, tick, deed, history>>

Quiet == deed' = "none"

Renderers == {"self", "peer"}
NoFence == [uuid |-> NoUuid, confirmed |-> FALSE, retry |-> FALSE]
Causes == {"idle", "implicit", "explicit", "remote"}
Servers == {"None", "Me", "OtherPlaying", "OtherPaused"}
Input == [server : Servers, wasActive : BOOLEAN, wasPlaying : BOOLEAN,
          active : Renderers \cup {"none"}, plays : BOOLEAN]
NoInput == [server |-> "None", wasActive |-> FALSE, wasPlaying |-> FALSE,
            active |-> "none", plays |-> FALSE]
Locals == [dropped : BOOLEAN, joined : BOOLEAN, attempted : BOOLEAN, autoTake : BOOLEAN,
           localTake : {"no", "implicit", "explicit"}, remoteTake : BOOLEAN,
           resolved : BOOLEAN, queueSeen : BOOLEAN]

TypeOK ==
    /\ {audio, conflict, assertion, known, keep} \subseteq BOOLEAN
    /\ fence \in [uuid : Uuids, confirmed : BOOLEAN, retry : BOOLEAN] \cup {NoFence}
    /\ active \in Renderers \cup {"none"} /\ playing \subseteq Renderers
    /\ loop \in Locals /\ input \in Input
    /\ pc \in {"idle", "apply", "decide", "local", "remote", "auto", "ended"}
    /\ {slot, tick} \subseteq Uuids \cup {NoUuid}
    /\ unanswered \subseteq Uuids
    /\ deed \in Causes \cup {"none", "adopt"} /\ grabs \in 0..2

LocalActive == known /\ active = "self"

PeerActive == known /\ active = "peer"

\* active_peer_renderer_is_playing: an active id that is not known to be ours
ActivePeerPlaying == active \in playing /\ ~LocalActive

\* remote_renderer_commands_are_fenced
Fenced == conflict \/ fence # NoFence \/ assertion

\* Faulty variant: the last fence, the assertion, is forgotten.
YieldsBeforeAssertion == ActivePeerPlaying /\ ~conflict /\ fence = NoFence

\* sync_local_playback_for_renderer_ownership: qbzd asks for the conflict only.
Yields == ActivePeerPlaying /\ (IF Host = "qt" THEN ~Fenced ELSE ~conflict)

\* The tail of an event that may hand playback to the peer.
YieldToPeer == audio' = (audio /\ ~Yields')
------------------------------------------------------------------------------
(* sync_state.rs: the takeover fence *)

ClearFences == conflict' = FALSE /\ fence' = NoFence /\ assertion' = FALSE

\* Faulty variant: arming leaves an assertion of an earlier takeover pending.
ArmOverAssertion(u) ==
    /\ fence' = [uuid |-> u, confirmed |-> FALSE, retry |-> FALSE]
    /\ UNCHANGED assertion

\* arm_local_queue_takeover
Arm(u) ==
    /\ fence' = [uuid |-> u, confirmed |-> FALSE, retry |-> FALSE]
    /\ assertion' = FALSE

\* confirm_local_queue_takeover_action, reject_local_queue_takeover_action
Confirmed(f, u) == IF u # NoUuid /\ f.uuid = u THEN [f EXCEPT !.confirmed = TRUE] ELSE f
Rejected(f, u) ==
    IF u # NoUuid /\ f.uuid = u THEN [f EXCEPT !.confirmed = FALSE, !.retry = TRUE] ELSE f

\* The sink's QueueUpdated: should_materialize_remote_queue and the adoption it
\* allows.  f is the fence at that point; ids tells whether the cloud's queue
\* has the ids the fence expects ("mine") or not ("other").
QueueUpdated(f, ids) ==
    LET accepted == f # NoFence /\ f.confirmed /\ ids = "mine"
    IN  /\ fence' = IF accepted THEN NoFence
                    ELSE IF f.confirmed THEN [f EXCEPT !.retry = TRUE] ELSE f
        /\ assertion' = (assertion \/ accepted)
        /\ deed' = IF f = NoFence /\ ~conflict THEN "adopt" ELSE "none"
        /\ UNCHANGED conflict

Init ==
    /\ audio \in BOOLEAN
    /\ conflict = audio /\ fence = NoFence /\ assertion = FALSE
    /\ active = "none" /\ known = FALSE /\ playing = {}
    /\ loop = [dropped |-> FALSE, joined |-> FALSE, attempted |-> FALSE, autoTake |-> FALSE,
               localTake |-> "no", remoteTake |-> FALSE, resolved |-> FALSE,
               queueSeen |-> FALSE]
    /\ pc = "idle" /\ input = NoInput /\ deed = "none"
    /\ slot = NoUuid /\ unanswered = {} /\ tick = NoUuid
    /\ grabs = 0 /\ keep = FALSE
------------------------------------------------------------------------------
(* The loop's control: after an event come the pending takeovers, in order. *)

AfterRemote(l) == IF l.autoTake THEN "auto" ELSE "idle"
AfterLocal(l) == IF l.remoteTake THEN "remote" ELSE AfterRemote(l)
AfterEvent(l) == IF l.localTake # "no" THEN "local" ELSE AfterLocal(l)

\* One event other than SESSION_STATE, handled by handle_transport_event.
\* It leaves the loop's locals as l.
Event(l) ==
    /\ pc = "idle"
    /\ loop' = l /\ pc' = AfterEvent(l)
    /\ UNCHANGED input

\* send_set_active_renderer does nothing when the target is active already.
Claims(cause) == deed' = IF active = "self" THEN "none" ELSE cause

\* Faulty variant: a peer in an unknown state gets a class of its own.
ClassOfUnknown(a, plays) ==
    IF a = "none" THEN "None" ELSE IF a = "self" /\ known THEN "Me"
    ELSE IF plays THEN "OtherPlaying" ELSE "OtherUnknown"

ClassOf(a, plays) ==
    IF a = "none" THEN "None" ELSE IF a = "self" /\ known THEN "Me"
    ELSE IF plays THEN "OtherPlaying" ELSE "OtherPaused"

Other(server) == server \in {"OtherPlaying", "OtherPaused"}

Conflict(in) == ~loop.resolved /\ in.wasPlaying /\ Other(in.server)

\* capture_session_state_takeover_input, before the event is applied
SessionState(a, plays) ==
    /\ pc = "idle" /\ pc' = "apply" /\ Quiet
    /\ input' = [server |-> ClassOf(a, plays), wasActive |-> LocalActive,
                 wasPlaying |-> audio, active |-> a, plays |-> plays]
    /\ conflict' = (conflict \/ Conflict(input'))
    /\ loop' = [loop EXCEPT !.joined = TRUE]
    /\ UNCHANGED <<audio, fence, assertion, session, loads, tick, history>>

ApplySessionState ==
    /\ pc = "apply" /\ pc' = "decide"
    /\ active' = input.active
    /\ playing' = IF active' = "none" THEN playing
                  ELSE IF input.plays THEN playing \cup {active'} ELSE playing \ {active'}
    /\ Quiet /\ UNCHANGED <<fences, known, loop, input, loads, tick, history>>
    /\ YieldToPeer
------------------------------------------------------------------------------
(* The explicit choice: qbzd has the trait's default, qt asks or has a policy. *)

Choices(server) ==
    IF Host = "qt" THEN {"activeRenderer", "thisDevice", "keepLocal", "cancel"}
    ELSE IF server = "OtherPlaying" THEN {"activeRenderer"} ELSE {"keepLocal"}

\* The decision consumes takeover_input.
Decides == pc = "decide" /\ input' = NoInput

Choose(choice) == Decides /\ Conflict(input) /\ choice \in Choices(input.server)

ContinueOnActiveRenderer ==
    /\ Choose("activeRenderer")
    /\ ClearFences /\ audio' = FALSE
    /\ loop' = [loop EXCEPT !.resolved = TRUE] /\ pc' = AfterEvent(loop')
    /\ keep' = FALSE
    /\ Quiet /\ UNCHANGED <<session, loads, tick, grabs>>

\* Claim the renderer for the remote queue, then stop local audio and release
\* the fences; a refused claim ends the connection instead.
ClaimForRemoteQueue(next) ==
    /\ ClearFences /\ keep' = FALSE
    /\ \/ audio' = FALSE /\ Claims("remote") /\ pc' = next
       \/ pc' = "ended" /\ Quiet /\ UNCHANGED audio

ContinueOnThisDevice ==
    /\ Choose("thisDevice")
    /\ IF loop.queueSeen /\ known
       THEN /\ loop' = [loop EXCEPT !.resolved = TRUE]
            /\ ClaimForRemoteQueue(AfterEvent(loop'))
       ELSE /\ loop' = [loop EXCEPT !.resolved = TRUE, !.remoteTake = TRUE]
            /\ pc' = AfterEvent(loop')
            /\ Quiet /\ UNCHANGED <<audio, fences, keep>>
    /\ UNCHANGED <<session, loads, tick, grabs>>

ContinueLocalPlayback ==
    /\ Choose("keepLocal")
    /\ loop' = [loop EXCEPT !.resolved = TRUE, !.localTake = "explicit"]
    /\ pc' = AfterEvent(loop')
    /\ keep' = audio
    /\ Quiet /\ UNCHANGED <<audio, fences, session, loads, tick, grabs>>

CancelConnection ==
    /\ Choose("cancel")
    /\ ClearFences /\ pc' = "ended" /\ keep' = FALSE
    /\ loop' = [loop EXCEPT !.resolved = TRUE]
    /\ Quiet /\ UNCHANGED <<audio, session, loads, tick, grabs>>
------------------------------------------------------------------------------
(* compute_connection_state, with queue_equal = FALSE as its caller has it *)

ShouldSetQueue(in) ==
    \/ in.server \in {"None", "Me"} /\ (in.wasActive \/ in.wasPlaying)
    \/ in.server = "OtherPaused" /\ in.wasPlaying

\* auto_take_when_idle
TakesIdle(in) == ~loop.dropped /\ in.server = "None" /\ ~loop.attempted /\ ~loop.autoTake

Grab == /\ Claims("idle")
        /\ grabs' = IF active = "self" \/ grabs = 2 THEN grabs ELSE grabs + 1

ArbitrateQueue ==
    /\ Decides /\ ~Conflict(input) /\ ShouldSetQueue(input)
    /\ loop' = [loop EXCEPT !.localTake = "implicit"]
    /\ pc' = AfterEvent(loop')
    /\ conflict' = TRUE /\ keep' = FALSE
    /\ Quiet /\ UNCHANGED <<audio, fence, assertion, session, loads, tick, grabs>>

ArbitrateIdle ==
    /\ Decides /\ ~Conflict(input) /\ ~ShouldSetQueue(input)
    /\ \/ ~TakesIdle(input) /\ Quiet /\ UNCHANGED <<loop, grabs>>
       \/ TakesIdle(input) /\ known /\ loop' = [loop EXCEPT !.attempted = TRUE] /\ Grab
       \/ TakesIdle(input) /\ known /\ Quiet /\ UNCHANGED <<loop, grabs>>  \* the send failed
       \/ TakesIdle(input) /\ ~known /\ loop' = [loop EXCEPT !.autoTake = TRUE]
          /\ Quiet /\ UNCHANGED grabs
    /\ pc' = AfterEvent(loop')
    /\ UNCHANGED <<audio, fences, session, loads, tick, keep>>
------------------------------------------------------------------------------
(* The pending takeovers at the end of every event *)

NotTaken == [loop EXCEPT !.localTake = "no"]

\* Faulty variant: an implicit takeover ignores what the peer does meanwhile.
GivesUpOnSilence == ~audio

GivesUp == ~audio \/ (ActivePeerPlaying /\ loop.localTake # "explicit")

GiveUpLocalTake ==
    /\ pc = "local" /\ GivesUp
    /\ loop' = NotTaken /\ pc' = AfterLocal(loop')
    /\ ClearFences /\ keep' = FALSE
    /\ Quiet /\ UNCHANGED <<audio, session, input, loads, tick, grabs>>

CanTake == pc = "local" /\ ~GivesUp /\ loop.queueSeen /\ known

\* Not ready yet, or SET_ACTIVE_RENDERER was refused: wait for another event.
LocalTakeWaits ==
    /\ pc = "local" /\ ~GivesUp
    /\ pc' = AfterLocal(loop)
    /\ Quiet /\ UNCHANGED <<audio, fences, session, loop, input, loads, tick, history>>

\* Claimed, but nothing to publish or the load was refused.
LocalTakeUnpublished ==
    /\ CanTake
    /\ Claims(loop.localTake)
    /\ loop' = NotTaken /\ pc' = AfterLocal(loop')
    /\ IF loop.localTake = "explicit" THEN ClearFences ELSE UNCHANGED fences
    /\ keep' = FALSE
    /\ UNCHANGED <<audio, session, input, loads, tick, grabs>>

\* A QueueLoadTracks that the link accepted; it holds the pending slot.
SendLoad(u) ==
    /\ slot = NoUuid /\ u \notin unanswered \cup {fence.uuid, tick}
    /\ slot' = u /\ unanswered' = unanswered \cup {u}

LocalTakePublished(u) ==
    /\ CanTake
    /\ Claims(loop.localTake)
    /\ SendLoad(u) /\ Arm(u) /\ conflict' = FALSE
    /\ loop' = [NotTaken EXCEPT !.attempted = TRUE] /\ pc' = AfterLocal(loop')
    /\ UNCHANGED <<audio, session, input, tick, history>>

RemoteTake ==
    /\ pc = "remote"
    /\ IF loop.queueSeen /\ known
       THEN /\ loop' = [loop EXCEPT !.remoteTake = FALSE]
            /\ ClaimForRemoteQueue(AfterRemote(loop'))
       ELSE pc' = AfterRemote(loop) /\ Quiet /\ UNCHANGED <<audio, fences, keep, loop>>
    /\ UNCHANGED <<session, input, loads, tick, grabs>>

AutoTake ==
    /\ pc = "auto" /\ pc' = "idle"
    /\ IF active = "none" /\ ~known
       THEN Quiet /\ UNCHANGED <<loop, grabs>>
       ELSE /\ loop' = [loop EXCEPT !.autoTake = FALSE, !.attempted = TRUE]
            /\ \/ active = "none" /\ Grab
               \/ Quiet /\ UNCHANGED grabs  \* somebody is active, or the send failed
    /\ UNCHANGED <<audio, fences, session, input, loads, tick, keep>>
------------------------------------------------------------------------------
(* The other events of the loop *)

\* ADD_RENDERER, UPDATE_RENDERER and REMOVE_RENDERER change whether we know
\* our own id.
Roster(found) ==
    /\ Event(loop)
    /\ known' = found
    /\ Quiet /\ UNCHANGED <<audio, fences, active, playing, loads, tick, history>>

\* A real local -> peer handoff clears the fences.
ActiveRendererChanged(a) ==
    /\ Event(loop)
    /\ active' = a
    /\ IF LocalActive /\ a = "peer" THEN ClearFences /\ keep' = FALSE
       ELSE UNCHANGED <<fences, keep>>
    /\ Quiet /\ UNCHANGED <<known, playing, loads, tick, grabs>>
    /\ YieldToPeer

RendererStateUpdated(r, plays) ==
    /\ Event(loop)
    /\ playing' = IF plays THEN playing \cup {r} ELSE playing \ {r}
    /\ Quiet /\ UNCHANGED <<fences, active, known, loads, tick, history>>
    /\ YieldToPeer

\* The load was accepted and comes back as QueueTracksLoaded.
QueueLoaded(u) ==
    /\ Event(loop) /\ u \in unanswered
    /\ unanswered' = unanswered \ {u} /\ slot' = NoUuid
    /\ QueueUpdated(LET c == Confirmed(fence, u)
                    IN  IF slot \in {u, NoUuid} THEN c ELSE Rejected(c, slot), "mine")
    /\ UNCHANGED <<audio, session, tick, history>>

\* A rejection with the load's uuid: confirmed like any event that carries it.
\* ids compares the cloud's unchanged queue with the fence's, whichever it is.
\* One that the reducer has canceled already may be ignored altogether.
QueueLoadRejected(u, ids) ==
    /\ Event(loop) /\ u \in unanswered
    /\ unanswered' = unanswered \ {u} /\ slot' = NoUuid
    /\ LET c == Confirmed(fence, u)
           f == IF slot \in {u, NoUuid} THEN c ELSE Rejected(c, slot)
       IN  \/ QueueUpdated(f, ids)
           \/ slot # u /\ fence' = f /\ Quiet /\ UNCHANGED <<conflict, assertion>>
    /\ UNCHANGED <<audio, session, tick, history>>

\* A rejection without a uuid cancels the load in the slot.
QueueErrorWithoutUuid(u, ids) ==
    /\ Event(loop) /\ u \in unanswered
    /\ unanswered' = unanswered \ {u} /\ slot' = NoUuid
    /\ QueueUpdated(Rejected(fence, slot), ids)
    /\ UNCHANGED <<audio, session, tick, history>>

\* Any other queue event; one that carries a uuid cancels the load in the slot.
QueueChanged(ids, tagged, isState) ==
    /\ Event([loop EXCEPT !.queueSeen = @ \/ isState])
    /\ slot' = IF tagged THEN NoUuid ELSE slot
    /\ QueueUpdated(IF tagged THEN Rejected(fence, slot) ELSE fence, ids)
    /\ UNCHANGED <<audio, session, unanswered, tick, history>>

Disconnected ==
    /\ Event([dropped |-> TRUE, joined |-> FALSE, attempted |-> FALSE, autoTake |-> FALSE,
               localTake |-> "no", remoteTake |-> FALSE, resolved |-> loop.resolved,
               queueSeen |-> FALSE])
    /\ conflict' = audio /\ fence' = NoFence /\ assertion' = FALSE
    /\ slot' = NoUuid /\ grabs' = 0 /\ keep' = FALSE
    /\ Quiet /\ UNCHANGED <<audio, session, unanswered, tick>>
------------------------------------------------------------------------------
(* Beside the loop *)

\* Playback starts here unless a peer is active: then it is routed there.
UserStarts ==
    /\ ~audio /\ ~PeerActive
    /\ audio' = TRUE
    /\ Quiet /\ UNCHANGED <<fences, session, control, loads, tick, history>>

UserStops ==
    /\ audio /\ audio' = FALSE /\ keep' = FALSE
    /\ Quiet /\ UNCHANGED <<fences, session, control, loads, tick, grabs>>

\* publish_local_queue_if_changed, for a takeover that needs a retry: the fence
\* is armed only after the send.
TickSends(u) ==
    /\ pc # "ended" /\ tick = NoUuid /\ LocalActive /\ fence.retry
    /\ SendLoad(u) /\ tick' = u
    /\ Quiet /\ UNCHANGED <<audio, fences, session, control, history>>

TickArms ==
    /\ tick # NoUuid /\ tick' = NoUuid
    /\ Arm(tick)
    /\ conflict' = IF Host = "qbzd" THEN FALSE ELSE conflict
    /\ Quiet /\ UNCHANGED <<audio, session, control, loads, history>>

\* report_playback_state: sent for the active renderer only, then confirmed
ReportState ==
    /\ pc # "ended" /\ LocalActive /\ assertion
    /\ assertion' = FALSE /\ keep' = FALSE
    /\ Quiet /\ UNCHANGED <<audio, conflict, fence, session, control, loads, tick, grabs>>

\* watch_pending_action_timeout
LoadTimesOut ==
    /\ slot # NoUuid /\ slot' = NoUuid
    /\ fence' = Rejected(fence, slot)
    /\ Quiet
    /\ UNCHANGED <<audio, conflict, assertion, session, control, unanswered, tick, history>>
------------------------------------------------------------------------------
Arbitration ==
    \/ ApplySessionState
    \/ ContinueOnActiveRenderer \/ ContinueOnThisDevice \/ ContinueLocalPlayback
    \/ CancelConnection
    \/ ArbitrateQueue \/ ArbitrateIdle
    \/ GiveUpLocalTake \/ LocalTakeWaits \/ LocalTakeUnpublished
    \/ \E u \in Uuids : LocalTakePublished(u)
    \/ RemoteTake \/ AutoTake

TransportEvent ==
    \/ \E a \in Renderers, plays \in BOOLEAN : SessionState(a, plays)
    \/ SessionState("none", FALSE)
    \/ \E found \in BOOLEAN : Roster(found)
    \/ \E a \in Renderers \cup {"none"} : ActiveRendererChanged(a)
    \/ \E r \in Renderers, plays \in BOOLEAN : RendererStateUpdated(r, plays)
    \/ \E u \in Uuids : QueueLoaded(u)
    \/ \E u \in Uuids, ids \in {"mine", "other"} :
          QueueLoadRejected(u, ids) \/ QueueErrorWithoutUuid(u, ids)
    \/ \E ids \in {"mine", "other"}, tagged, isState \in BOOLEAN :
          QueueChanged(ids, tagged, isState)
    \/ Disconnected

Beside ==
    \/ UserStarts \/ UserStops
    \/ \E u \in Uuids : TickSends(u)
    \/ TickArms \/ ReportState \/ LoadTimesOut

Next == Arbitration \/ TransportEvent \/ Beside

Spec == Init /\ [][Next]_vars
------------------------------------------------------------------------------
(* Properties *)

\* A device never claims the renderer from a peer that is PLAYING unless the
\* user chose so: neither the idle take nor the local-playing take steals,
\* whatever the peer did since it was decided (run_session_loop).
NeverStealsFromPlayingPeer ==
    [][deed' \in {"idle", "implicit"} => ~ActivePeerPlaying]_vars

\* A chosen local playback survives its takeover: until it is asserted, given
\* up or handed over no peer report stops it, and until its own queue is
\* accepted no cloud queue replaces it (local_playback_should_yield_to_active_-
\* peer, should_materialize_remote_queue).
KeepsChosenPlayback ==
    [][keep /\ keep' => /\ audio => audio'
                        /\ deed' = "adopt" => assertion]_vars

\* Takeovers do not pile up.  An idle session is claimed at most once per
\* connection (auto_take_attempted, pending_auto_take), and a takeover waits for
\* its queue's echo or for its state report, never both: a new one takes the
\* old one's place (arm_local_queue_takeover).
OneTakeoverAtATime == grabs <= 1 /\ ~(assertion /\ fence # NoFence)

\* Once SESSION_STATE and the authoritative queue are in and no takeover is
\* pending, nothing is fenced by the bootstrap conflict any more
\* (run_session_loop: "until SESSION_STATE + the authoritative QueueState
\* establish which side may mutate it").
ConflictIsSettled ==
    pc = "idle" /\ loop.joined /\ loop.queueSeen /\ loop.localTake = "no" /\ ~loop.remoteTake
        => ~conflict

\* A handoff from this device to a peer ends an unfinished local takeover: it
\* is dropped, or given up at once because the peer plays
\* (ACTIVE_RENDERER_CHANGED: "A real local -> peer handoff supersedes any
\* unfinished local queue publication").
HandoffEndsTakeover ==
    [][pc = "idle" /\ LocalActive /\ PeerActive' /\ known' = known
          => loop'.localTake = "no" \/ GivesUp']_vars
==============================================================================
