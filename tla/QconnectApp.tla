----------------------------- MODULE QconnectApp -----------------------------
(***************************************************************************)
(* The command path of crates/qconnect-app/src/app.rs: the single pending- *)
(* action slot, the calls that go through it, the ten second watch on each *)
(* of them, the session loop that correlates server events with the slot,  *)
(* and disconnect.  Callers, timers and the session loop are concurrent    *)
(* tasks; each TLA+ action is one critical section of the state lock (or   *)
(* one await) of one of them.                                              *)
(*                                                                         *)
(* An action uuid is taken again only when no part of the system mentions  *)
(* it any more, so a finite set of uuids stands for an unbounded supply.   *)
(***************************************************************************)
EXTENDS Naturals, Sequences

CONSTANTS
    Uuids,       \* uuids of this client's actions
    Remote,      \* an action uuid of another controller
    NoUuid,      \* an event that carries no action uuid
    NoAction,    \* the slot is free
    Commands,    \* kinds that callers pass to send_queue_command
    OneShots,    \* kinds whose sender gives the slot back at once
    ForeignTypes,\* types of the events other controllers cause
    MaxInbox     \* bound: transport events waiting for the session loop

Read == "AskForQueueState"

\* Kinds admitted while a queue read holds the slot.
Controls == {"SetPlayerState", "SetActiveRenderer", "AskForRendererState",
             "SetVolume", "MuteVolume", "SetLoopMode"}

Writes == {"QueueLoadTracks", "QueueAddTracks", "QueueRemoveTracks", "JoinSession"}

Kinds == {Read} \cup Controls \cup Writes

SessionTypes == {"RendererStateUpdated", "LoopModeSet", "VolumeChanged",
                 "TargetActivated", "OtherSessionEvent"}

\* "QueuePartial" stands for the deltas after which the client always pulls a
\* snapshot: tracks reordered, removed, or added from autoplay.
QueueTypes == {"QueueState", "QueueDelta", "QueuePartial", "QueueError"}

Styles == {"command", "oneShot", "loopResync", "timerResync"}

Steps == {"idle", "gate", "sending", "announcing", "releasing"}

ASSUME UuidAssumption ==
    /\ Remote \notin Uuids /\ NoUuid \notin Uuids /\ Remote # NoUuid
    /\ NoAction \notin Uuids \cup [uuid : Uuids, kind : Kinds]

ASSUME KindAssumption ==
    /\ Commands \subseteq Kinds
    /\ OneShots \subseteq {Read, "AskForRendererState", "SetActiveRenderer", "JoinSession"}
    /\ ForeignTypes \subseteq SessionTypes \cup (QueueTypes \ {"QueueError"})
    /\ MaxInbox \in Nat \ {0}

VARIABLES
    slot,        \* state.pending: the action that owns the slot, or NoAction
    canceled,    \* state.concurrency_canceled_action_uuid, or NoUuid
    calls,       \* where each send_queue_command call stands
    timers,      \* actions with a watch_pending_action_timeout task asleep
    lapsed,      \* timed-out writes whose watch task is about to resync
    wire,        \* commands handed to the transport and not yet answered
    link,        \* the web socket
    inbox,       \* transport events the session loop has not handled
    loop,        \* what the session loop does
    life,        \* how far app.disconnect has got
    verdict      \* history: what the application was told about each action

vars == <<slot, canceled, calls, timers, lapsed, wire, link, inbox, loop, life, verdict>>
------------------------------------------------------------------------------
Action == [uuid : Uuids, kind : Kinds]

Call == [pc : Steps, kind : Kinds, style : Styles, bypass : BOOLEAN]

Idle == [pc |-> "idle", kind |-> Read, style |-> "command", bypass |-> FALSE]

Event == [type : SessionTypes \cup QueueTypes \cup {"Disconnected"},
          uuid : Uuids \cup {Remote, NoUuid}]

Sent == [uuid : Uuids, kind : Kinds, at : {"queued", "received"}]

TypeOK ==
    /\ slot \in Action \cup {NoAction}
    /\ canceled \in Uuids \cup {NoUuid}
    /\ calls \in [Uuids -> Call]
    /\ timers \subseteq Uuids
    /\ lapsed \subseteq Uuids
    /\ wire \subseteq Sent
    /\ link \in {"up", "down", "dead"}
    /\ inbox \in Seq(Event)
    /\ loop \in {"ready", "resync", "sending", "stopped"}
    /\ life \in {"up", "aborting", "closing", "down"}
    /\ verdict \in [Uuids -> {"none", "completed", "canceled", "timedOut"}]

Holds(u) == slot # NoAction /\ slot.uuid = u

ReadPending == slot # NoAction /\ slot.kind = Read

\* Faulty variant: connect never accepts background tasks again.
AcceptingNever == FALSE

\* Background tasks are accepted only while the app is connected.
Accepting == life = "up"

Fresh(u) ==
    /\ calls[u] = Idle
    /\ ~Holds(u) /\ canceled # u
    /\ u \notin timers /\ u \notin lapsed
    /\ \A s \in wire : s.uuid # u
    /\ \A i \in 1..Len(inbox) : inbox[i].uuid # u

Init ==
    /\ slot = NoAction
    /\ canceled = NoUuid
    /\ calls = [u \in Uuids |-> Idle]
    /\ timers = {} /\ lapsed = {}
    /\ wire = {}
    /\ link = "up"
    /\ inbox = <<>>
    /\ loop = "ready"
    /\ life = "up"
    /\ verdict = [u \in Uuids |-> "none"]
------------------------------------------------------------------------------
(* send_queue_command *)

Bypass(k) ==
    \/ ReadPending /\ k \in Controls
    \/ slot = NoAction /\ k = "MuteVolume"

\* Faulty variant: an occupied slot does not refuse the command.
AdmitAnyway(u, k, style) ==
    /\ slot' = IF Bypass(k) THEN slot ELSE [uuid |-> u, kind |-> k]
    /\ calls' = [calls EXCEPT ![u] = [pc |-> "sending", kind |-> k,
                                      style |-> style, bypass |-> Bypass(k)]]
    /\ verdict' = [verdict EXCEPT ![u] = "none"]

\* Under one lock: decide whether the command goes around the slot, and
\* otherwise take the slot.  An occupied slot refuses the command.
Admit(u, k, style) ==
    /\ Bypass(k) \/ slot = NoAction
    /\ slot' = IF Bypass(k) THEN slot ELSE [uuid |-> u, kind |-> k]
    /\ calls' = [calls EXCEPT ![u] = [pc |-> "sending", kind |-> k,
                                      style |-> style, bypass |-> Bypass(k)]]
    /\ verdict' = [verdict EXCEPT ![u] = "none"]

SendQueueCommand(u, k) ==
    /\ k \in Commands /\ Fresh(u)
    /\ Admit(u, k, "command")
    /\ UNCHANGED <<canceled, timers, lapsed, wire, link, inbox, loop, life>>

\* ask_for_queue_state, ask_for_active_renderer_state, the bootstrap's join.
SendOneShot(u, k) ==
    /\ k \in OneShots \ {"SetActiveRenderer"} /\ Fresh(u)
    /\ Admit(u, k, "oneShot")
    /\ UNCHANGED <<canceled, timers, lapsed, wire, link, inbox, loop, life>>

\* send_set_active_renderer first evicts a transport control from the slot,
\* in a critical section of its own.
EvictTransportControl(u) ==
    /\ "SetActiveRenderer" \in OneShots /\ Fresh(u)
    /\ slot' = IF slot # NoAction /\ slot.kind = "SetPlayerState" THEN NoAction ELSE slot
    /\ calls' = [calls EXCEPT ![u] = [pc |-> "gate", kind |-> "SetActiveRenderer",
                                      style |-> "oneShot", bypass |-> FALSE]]
    /\ UNCHANGED <<canceled, timers, lapsed, wire, link, inbox, loop, life, verdict>>

SendSetActiveRenderer(u) ==
    /\ calls[u].pc = "gate"
    /\ Admit(u, "SetActiveRenderer", "oneShot")
    /\ UNCHANGED <<canceled, timers, lapsed, wire, link, inbox, loop, life>>

\* The slot was taken between the two critical sections by an action that the
\* command may not bypass.
RefuseSetActiveRenderer(u) ==
    /\ calls[u].pc = "gate"
    /\ slot # NoAction /\ ~Bypass("SetActiveRenderer")
    /\ calls' = [calls EXCEPT ![u] = Idle]
    /\ UNCHANGED <<slot, canceled, timers, lapsed, wire, link, inbox, loop, life, verdict>>

\* Faulty variant: the loop also awaits the watch of its own resync.
LoopAfterWatch(u) ==
    IF calls[u].style = "loopResync" /\ calls[u].pc # "announcing" THEN "ready" ELSE loop

\* The session loop awaits the calls it makes itself.
LoopAfter(u) == IF calls[u].style = "loopResync" THEN "ready" ELSE loop

\* Faulty variant: nothing is cleared.
SlotKept(u) == slot

SlotAfterClear(u) == IF Holds(u) THEN NoAction ELSE slot

TransportUp == life \in {"up", "aborting"} /\ link # "dead"

\* The transport only queues the envelope: it may leave on a later connection.
SendOk(u) ==
    /\ calls[u].pc = "sending" /\ TransportUp
    /\ wire' = wire \cup {[uuid |-> u, kind |-> calls[u].kind, at |-> "queued"]}
    /\ LET next == IF ~calls[u].bypass THEN "announcing"
                   ELSE IF calls[u].style = "oneShot" THEN "releasing" ELSE "idle"
       IN  calls' = [calls EXCEPT ![u] = IF next = "idle" THEN Idle ELSE [@ EXCEPT !.pc = next]]
    /\ loop' = IF calls[u].bypass THEN LoopAfter(u) ELSE loop
    /\ UNCHANGED <<slot, canceled, timers, lapsed, link, inbox, life, verdict>>

SendErr(u) ==
    /\ calls[u].pc = "sending" /\ ~TransportUp
    /\ slot' = SlotAfterClear(u)
    /\ calls' = [calls EXCEPT ![u] = Idle]
    /\ loop' = LoopAfter(u)
    /\ UNCHANGED <<canceled, timers, lapsed, wire, link, inbox, life, verdict>>

\* PendingActionStarted is emitted, then the watch is spawned; a watch offered
\* while the app tears down is aborted at once.
SpawnWatch(u) ==
    /\ calls[u].pc = "announcing"
    /\ timers' = IF Accepting THEN timers \cup {u} ELSE timers
    /\ calls' = [calls EXCEPT ![u] = IF @.style = "oneShot" THEN [@ EXCEPT !.pc = "releasing"]
                                     ELSE Idle]
    /\ loop' = LoopAfter(u)
    /\ UNCHANGED <<slot, canceled, lapsed, wire, link, inbox, life, verdict>>

\* clear_pending_if_matches at the end of a one-shot sender.
ReleaseOneShot(u) ==
    /\ calls[u].pc = "releasing"
    /\ slot' = SlotAfterClear(u)
    /\ calls' = [calls EXCEPT ![u] = Idle]
    /\ UNCHANGED <<canceled, timers, lapsed, wire, link, inbox, loop, life, verdict>>
------------------------------------------------------------------------------
(* watch_pending_action_timeout and trigger_queue_state_resync *)

WatchExpires(u) ==
    /\ u \in timers
    /\ timers' = timers \ {u}
    /\ slot' = SlotAfterClear(u)
    /\ verdict' = IF Holds(u) THEN [verdict EXCEPT ![u] = "timedOut"] ELSE verdict
    /\ lapsed' = IF Holds(u) /\ slot.kind # Read THEN lapsed \cup {u} ELSE lapsed
    /\ UNCHANGED <<canceled, calls, wire, link, inbox, loop, life>>

\* Bound: the finite set of uuids is exhausted; the resync is given up.
UuidsUsedUp == \A v \in Uuids : ~Fresh(v)

\* A resync is silently skipped when another action already owns the slot.
ResyncAfterTimeout(u) ==
    /\ u \in lapsed
    /\ lapsed' = lapsed \ {u}
    /\ \/ (slot # NoAction \/ UuidsUsedUp) /\ UNCHANGED <<slot, calls, verdict>>
       \/ \E v \in Uuids : Fresh(v) /\ slot = NoAction /\ Admit(v, Read, "timerResync")
    /\ UNCHANGED <<canceled, timers, wire, link, inbox, loop, life>>

ResyncAfterEvent ==
    /\ loop = "resync"
    /\ \/ (slot # NoAction \/ UuidsUsedUp) /\ loop' = "ready" /\ UNCHANGED <<slot, calls, verdict>>
       \/ /\ \E v \in Uuids : Fresh(v) /\ slot = NoAction /\ Admit(v, Read, "loopResync")
          /\ loop' = "sending"
    /\ UNCHANGED <<canceled, timers, lapsed, wire, link, inbox, life>>
------------------------------------------------------------------------------
(* apply_server_event *)

Correlate(ev) ==
    CASE slot = NoAction      -> "NoPending"
      [] slot # NoAction /\ ev.uuid = NoUuid -> "EventWithoutActionUuid"
      [] slot # NoAction /\ ev.uuid # NoUuid /\ ev.uuid = slot.uuid -> "Matched"
      [] OTHER                -> "Concurrent"

\* session_management_event_completes_pending_action
SessionEventCompletes(ev) ==
    /\ slot # NoAction
    /\ \/ slot.kind = "SetPlayerState"    /\ ev.type = "RendererStateUpdated"
       \/ slot.kind = "SetLoopMode"       /\ ev.type = "LoopModeSet"
       \/ slot.kind = "SetVolume"         /\ ev.type = "VolumeChanged"
       \/ slot.kind = "SetActiveRenderer" /\ ev.type = "TargetActivated"

HandleSessionEvent ==
    /\ loop = "ready" /\ inbox # <<>>
    /\ LET ev == Head(inbox)
           done == \/ ~ReadPending /\ Correlate(ev) = "Matched"
                   \/ SessionEventCompletes(ev)
       IN  /\ ev.type \in SessionTypes
           /\ slot' = IF done THEN NoAction ELSE slot
           /\ verdict' = IF done THEN [verdict EXCEPT ![slot.uuid] = "completed"] ELSE verdict
    /\ inbox' = Tail(inbox)
    /\ UNCHANGED <<canceled, calls, timers, lapsed, wire, link, loop, life>>

\* A matched action completes; a read only on its snapshot or its error.
Completes(ev) ==
    /\ Correlate(ev) = "Matched"
    /\ ReadPending => ev.type \in {"QueueState", "QueueError"}

\* Faulty variant: a foreign queue event overtakes reads as well.
OvertakesAny(ev) == Correlate(ev) = "Concurrent"

\* A foreign queue event overtakes a write, never a read.
Overtakes(ev) == Correlate(ev) = "Concurrent" /\ ~ReadPending

\* A rejected queue load may come back without its uuid.
RejectsLoad(ev) ==
    /\ Correlate(ev) = "EventWithoutActionUuid"
    /\ ev.type = "QueueError" /\ slot.kind = "QueueLoadTracks"

\* Faulty variant: the event's uuid is remembered, not the canceled action's.
CanceledIsEvent(ev) == IF Overtakes(ev) THEN ev.uuid ELSE canceled

CanceledAfter(ev) == IF Overtakes(ev) THEN slot.uuid ELSE canceled

\* The error of the action the last conflict canceled is not applied.
IgnoredError(ev) ==
    ev.type = "QueueError" /\ ev.uuid # NoUuid /\ CanceledAfter(ev) = ev.uuid

NeedsResync(ev) ==
    \/ Overtakes(ev) /\ ev.type # "QueueState"
    \/ RejectsLoad(ev)
    \/ ~IgnoredError(ev) /\ ev.type = "QueuePartial"

HandleQueueEvent ==
    /\ loop = "ready" /\ inbox # <<>>
    /\ LET ev == Head(inbox)
           drops == Overtakes(ev) \/ RejectsLoad(ev)
       IN  /\ ev.type \in QueueTypes
           /\ slot' = IF Completes(ev) \/ drops THEN NoAction ELSE slot
           /\ verdict' = IF Completes(ev) THEN [verdict EXCEPT ![slot.uuid] = "completed"]
                         ELSE IF drops THEN [verdict EXCEPT ![slot.uuid] = "canceled"]
                         ELSE verdict
           /\ canceled' = IF IgnoredError(ev) THEN NoUuid ELSE CanceledAfter(ev)
           /\ loop' = IF NeedsResync(ev) THEN "resync" ELSE "ready"
    /\ inbox' = Tail(inbox)
    /\ UNCHANGED <<calls, timers, lapsed, wire, link, life>>

\* handle_transport_event on Disconnected.
HandleDisconnected ==
    /\ loop = "ready" /\ inbox # <<>> /\ Head(inbox).type = "Disconnected"
    /\ slot' = NoAction
    /\ inbox' = Tail(inbox)
    /\ UNCHANGED <<canceled, calls, timers, lapsed, wire, link, loop, life, verdict>>
------------------------------------------------------------------------------
(* QconnectApp::disconnect *)

\* The host aborts its session loop and calls disconnect, whose
\* abort_background_tasks stops the watches; a resync that either of them runs
\* stops where it is.
AbortTasks ==
    /\ life = "up" /\ life' = "aborting"
    /\ loop' = "stopped"
    /\ timers' = {} /\ lapsed' = {}
    /\ calls' = [u \in Uuids |-> IF calls[u].style \in {"loopResync", "timerResync"}
                                  THEN Idle ELSE calls[u]]
    /\ UNCHANGED <<slot, canceled, wire, link, inbox, verdict>>

\* Nobody receives the transport's last events.
CloseTransport ==
    /\ life = "aborting" /\ life' = "closing"
    /\ link' = "down" /\ wire' = {} /\ inbox' = <<>>
    /\ UNCHANGED <<slot, canceled, calls, timers, lapsed, loop, verdict>>

\* The host drops the app now; a caller may still hold a handle to it.
ClearOnDisconnect ==
    /\ life = "closing" /\ life' = "down"
    /\ slot' = NoAction
    /\ UNCHANGED <<canceled, calls, timers, lapsed, wire, link, inbox, loop, verdict>>
------------------------------------------------------------------------------
(* The web socket and the server: external *)

Room == Len(inbox) < MaxInbox

Deliver(type, u) == inbox' = Append(inbox, [type |-> type, uuid |-> u])

Transmit(s) ==
    /\ link = "up" /\ s \in wire /\ s.at = "queued"
    /\ wire' = (wire \ {s}) \cup {[s EXCEPT !.at = "received"]}
    /\ UNCHANGED <<slot, canceled, calls, timers, lapsed, link, inbox, loop, life, verdict>>

\* The events with which the server may answer a command.
Answers(s) ==
    CASE s.kind = Read -> {<<"QueueState", s.uuid>>, <<"QueueError", s.uuid>>}
      [] s.kind = "QueueLoadTracks" ->
            {<<"QueueDelta", s.uuid>>, <<"QueueError", s.uuid>>, <<"QueueError", NoUuid>>}
      [] s.kind = "QueueAddTracks" -> {<<"QueueDelta", s.uuid>>, <<"QueueError", s.uuid>>}
      [] s.kind = "QueueRemoveTracks" -> {<<"QueuePartial", s.uuid>>, <<"QueueError", s.uuid>>}
      [] s.kind \in {"SetPlayerState", "AskForRendererState"} -> {<<"RendererStateUpdated", NoUuid>>}
      [] s.kind = "SetLoopMode" -> {<<"LoopModeSet", NoUuid>>}
      [] s.kind = "SetVolume" -> {<<"VolumeChanged", NoUuid>>}
      [] s.kind = "SetActiveRenderer" -> {<<"TargetActivated", NoUuid>>}
      [] OTHER -> {<<"OtherSessionEvent", NoUuid>>, <<"OtherSessionEvent", s.uuid>>}

Answer(s) ==
    /\ link = "up" /\ s \in wire /\ s.at = "received" /\ Room
    /\ \E a \in Answers(s) : Deliver(a[1], a[2])
    /\ wire' = wire \ {s}
    /\ UNCHANGED <<slot, canceled, calls, timers, lapsed, link, loop, life, verdict>>

ForeignEvent(type) ==
    /\ link = "up" /\ Room /\ type \in ForeignTypes
    /\ Deliver(type, IF type \in QueueTypes THEN Remote ELSE NoUuid)
    /\ UNCHANGED <<slot, canceled, calls, timers, lapsed, wire, link, loop, life, verdict>>

\* What the server had received is lost with the connection; what is still
\* queued in the transport is not.
LinkDrops ==
    /\ link = "up" /\ Room
    /\ link' = "down"
    /\ wire' = {s \in wire : s.at = "queued"}
    /\ Deliver("Disconnected", NoUuid)
    /\ UNCHANGED <<slot, canceled, calls, timers, lapsed, loop, life, verdict>>

LinkReconnects ==
    /\ link = "down" /\ life \in {"up", "aborting"}
    /\ link' = "up"
    /\ UNCHANGED <<slot, canceled, calls, timers, lapsed, wire, inbox, loop, life, verdict>>

\* The transport task ends after its last attempt; its channel closes.
LinkGivesUp ==
    /\ link = "down" /\ life \in {"up", "aborting"}
    /\ link' = "dead" /\ wire' = {}
    /\ UNCHANGED <<slot, canceled, calls, timers, lapsed, inbox, loop, life, verdict>>
------------------------------------------------------------------------------
CallerStep(u) ==
    \/ \E k \in Kinds : SendQueueCommand(u, k) \/ SendOneShot(u, k)
    \/ EvictTransportControl(u)

CallStep(u) ==
    \/ SendSetActiveRenderer(u) \/ RefuseSetActiveRenderer(u)
    \/ SendOk(u) \/ SendErr(u) \/ SpawnWatch(u) \/ ReleaseOneShot(u)

WatchStep(u) == WatchExpires(u) \/ ResyncAfterTimeout(u)

LoopStep == HandleSessionEvent \/ HandleQueueEvent \/ HandleDisconnected \/ ResyncAfterEvent

DisconnectStep == CloseTransport \/ ClearOnDisconnect

LinkStep == LinkDrops \/ LinkReconnects \/ LinkGivesUp

ServerStep == \/ \E s \in wire : Transmit(s) \/ Answer(s)
              \/ \E type \in ForeignTypes : ForeignEvent(type)

Next ==
    \/ \E u \in Uuids : CallerStep(u) \/ CallStep(u) \/ WatchStep(u)
    \/ LoopStep
    \/ AbortTasks \/ DisconnectStep
    \/ LinkStep \/ ServerStep

Spec == Init /\ [][Next]_vars

\* Spawned tasks keep running, sleeps end and disconnect finishes; nothing is
\* assumed of callers, of the network or of the server.
Fairness ==
    /\ \A u \in Uuids : WF_vars(CallStep(u)) /\ WF_vars(WatchStep(u))
    /\ WF_vars(LoopStep) /\ WF_vars(DisconnectStep)

FairSpec == Spec /\ Fairness
------------------------------------------------------------------------------
(* Properties *)

\* Whoever owns the slot, something will end its ownership without the
\* server's help: the call is still on its way, or a timeout watch is
\* asleep, or disconnect is about to clear the slot (send_queue_command,
\* own_background_task and disconnect running side by side).
HeldSlotIsWatched ==
    slot # NoAction =>
        \/ calls[slot.uuid].pc \in {"sending", "announcing"} /\ ~calls[slot.uuid].bypass
        \/ slot.uuid \in timers
        \/ life \in {"aborting", "closing"}

\* The owner of the slot is an action that went through the slot and has had
\* no verdict yet; after disconnect it can only be a call whose send is about
\* to fail (send_queue_command reserving on a handle the host still holds).
OwnerIsGenuine ==
    /\ \A u \in Uuids : Holds(u) =>
          /\ verdict[u] = "none"
          /\ calls[u].pc = "idle" \/ (calls[u].pc # "gate" /\ ~calls[u].bypass)
    /\ life = "down" /\ slot # NoAction => calls[slot.uuid].pc = "sending"

\* The slot implements the promise made to callers (module ActionLifecycle):
\* no hand-over between actions, at most one verdict per action and only for
\* the action that leaves the slot, however replies, foreign events, the
\* timeout and disconnect race.
Owner == IF slot = NoAction THEN NoAction ELSE slot.uuid

Lifecycle == INSTANCE ActionLifecycle WITH owner <- Owner, NoOwner <- NoAction

LifecycleRefined == Lifecycle!LifecycleSpec

\* The session loop handles the event at the head of the inbox in this step.
Handled == loop = "ready" /\ inbox # <<>> /\ inbox' = Tail(inbox)

\* The ways in which a snapshot read may leave the slot.
ReadReleased ==
    \/ /\ Handled
       /\ \/ Head(inbox).type = "Disconnected"
          \/ /\ Head(inbox).type \in {"QueueState", "QueueError"}
             /\ Head(inbox).uuid = slot.uuid
    \/ slot.uuid \in timers \ timers'
    \/ calls[slot.uuid].pc \in {"sending", "releasing"} /\ calls'[slot.uuid].pc = "idle"
    \/ life = "closing"

\* While a snapshot read is outstanding, foreign traffic neither releases it
\* nor lets a write overtake it: on a live connection the read leaves the slot
\* only by its own reply, its own timeout, or the sender that gives it back
\* (apply_server_event, send_set_active_renderer, clear_pending_if_matches).
ReadKeepsItsSlot == [][ReadPending /\ slot' # slot => ReadReleased]_vars

\* The answer to a one-shot read, whose sender gave the slot back, leaves
\* whatever action owns the slot by then alone (ask_for_queue_state: "the
\* reply is not reducer-correlated").
OneShotReplyIsUncorrelated ==
    [][Handled /\ Head(inbox).type = "QueueState" /\ Head(inbox).uuid \in Uuids
         /\ ~Holds(Head(inbox).uuid) => slot' = slot]_vars

\* The server's late rejection of a write that a conflict already canceled is
\* ignored, whatever the client has started since (apply_server_event).
LateErrorIsIgnored ==
    [][Handled /\ Head(inbox).type = "QueueError" /\ Head(inbox).uuid \in Uuids
         /\ verdict[Head(inbox).uuid] = "canceled" => IgnoredError(Head(inbox))]_vars

\* No action blocks the slot forever, even against a silent server: the
\* 10 s watch, the failed send or disconnect always frees it.
SlotIsFreed == \A u \in Uuids : Holds(u) ~> ~Holds(u)

\* The session loop never stays inside the resync it triggers itself, so
\* server events keep being handled.
LoopReturns == loop \in {"resync", "sending"} ~> loop \in {"ready", "stopped"}
==============================================================================
