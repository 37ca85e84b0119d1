----------------------------- MODULE Delegation -----------------------------
(***************************************************************************)
(* The delegation coordinator of QConnect and the daemon's host under it.  *)
(* A LAN candidate becomes a guest that replaces the owner (or an earlier  *)
(* guest); when its credentials expire or its transport dies, the owner is *)
(* restored; a shutdown stops whatever is installed.  Every candidate and  *)
(* every restore has a generation and a task of its own, and a newer one   *)
(* cancels the one that is pending.  Each section under the commit gate is *)
(* one step; between two steps a task may be cancelled, time out, or be    *)
(* aborted by the shutdown.                                                *)
(*                                                                         *)
(* The host keeps the owner's queue in a snapshot while a guest plays, and *)
(* one lane (transition_gate) serialises its transitions.  Fence, drain    *)
(* and epochs behind the lane are AuthorityCell's.  ConnectService adds    *)
(* the service that connects, listens and disconnects.                     *)
(***************************************************************************)
EXTENDS Naturals, FiniteSets

CONSTANT MaxGeneration  \* the largest generation next_generation can hold

ASSUME GenerationAssumption == MaxGeneration \in Nat

VARIABLES lifecycle,    \* CoordinatorState.lifecycle
          generation,   \* next_generation
          pending,      \* the pending candidate or restore
          active,       \* the coordinator's view of the authority
          cancelled,    \* generations whose watch channel says cancelled
          task,         \* per generation: its task
          stop,         \* the shutdown in progress
          expired,      \* generations whose credentials have expired
          lane,         \* holder of transition_gate
          authority,    \* the installed stamp and its runtime
          snapshot,     \* owner_snapshot: whose queue it holds
          queue         \* whose queue the player holds

coordinator == <<lifecycle, generation, pending, active, cancelled>>
host == <<lane, authority, snapshot, queue>>

Generations == 1..MaxGeneration

Stamp(by, id) == [by |-> by, id |-> id]
NoStamp == Stamp("none", 0)
Guest(g) == Stamp("guest", g)
Restored(g) == Stamp("restore", g)
Connected(n) == Stamp("connect", n)

NotPending == [generation |-> 0, kind |-> "none", over |-> 0]
Owner == [generation |-> 0, required |-> FALSE]
Free == Stamp("none", 0)
NoTask == [pc |-> "idle", over |-> 0, expected |-> NoStamp, captured |-> "none"]
NoStop == [pc |-> "idle", by |-> "none", late |-> FALSE]

DelegationInit ==
    /\ lifecycle = "disabled"
    /\ generation = 0
    /\ pending = NotPending
    /\ active = Owner
    /\ cancelled = {}
    /\ task = [g \in Generations |-> NoTask]
    /\ stop = NoStop
    /\ expired = {}
    /\ lane = Free
    /\ authority = NoStamp
    /\ snapshot = "none"
    /\ queue = "owner"

Goto(g, pc) == task' = [task EXCEPT ![g].pc = pc]
Ended(ends) == [g \in Generations |-> IF g \in ends THEN [task[g] EXCEPT !.pc = "done"] ELSE task[g]]

\* A task's guard on the lane goes with what it prepared.
LetGo(g) == lane' = IF lane = Stamp("task", g) THEN Free ELSE lane

Live(g) == task[g].pc \notin {"idle", "done"}

-----------------------------------------------------------------------------
(* The coordinator's state.                                                *)

Replaced == {pending.generation} \ {0}
Delegated == {active.generation} \ {0}

IsPending(g, kind) == lifecycle = "enabled" /\ pending.generation = g /\ pending.kind = kind

\* disable_for_generation_exhaustion: the delegated authority stays as it is.
Exhaust(guest) ==
    /\ lifecycle' = "disabled"
    /\ pending' = NotPending
    /\ cancelled' = cancelled \cup Replaced \cup Delegated \cup guest
    /\ UNCHANGED generation

\* A restore of the owner over guest g becomes the pending transaction.
PendRestore(g, ends) ==
    IF generation = MaxGeneration THEN Exhaust({g}) /\ task' = Ended(ends)
    ELSE /\ generation' = generation + 1
         /\ pending' = [generation |-> generation + 1, kind |-> "restore", over |-> g]
         /\ cancelled' = cancelled \cup Replaced \cup Delegated \cup {g}
         /\ task' = [Ended(ends) EXCEPT ![generation + 1] = [NoTask EXCEPT !.pc = "restore", !.over = g]]
         /\ UNCHANGED lifecycle

\* Faulty variant: the generation is counted past its largest value.
AdmitUnchecked ==
    /\ lifecycle = "enabled"
    /\ generation' = generation + 1
    /\ pending' = [generation |-> generation + 1, kind |-> "candidate", over |-> 0]
    /\ cancelled' = cancelled \cup Replaced
    /\ task' = [task EXCEPT ![generation + 1] = [NoTask EXCEPT !.pc = "prepare"]]
    /\ UNCHANGED <<lifecycle, active>>

\* admit: the pending transaction is cancelled, the active authority stays.
Admit ==
    /\ lifecycle = "enabled"
    /\ IF generation = MaxGeneration THEN Exhaust({}) /\ UNCHANGED task
       ELSE /\ generation' = generation + 1
            /\ pending' = [generation |-> generation + 1, kind |-> "candidate", over |-> 0]
            /\ cancelled' = cancelled \cup Replaced
            /\ task' = [task EXCEPT ![generation + 1] = [NoTask EXCEPT !.pc = "prepare"]]
            /\ UNCHANGED lifecycle
    /\ UNCHANGED active

\* Faulty variant: while a candidate is pending the restore is not even owed.
StartRestoreForgotten(g, ends) ==
    /\ lifecycle = "enabled" /\ active.generation = g
    /\ IF pending.kind = "candidate" \/ pending.over = g
       THEN task' = Ended(ends) /\ UNCHANGED coordinator
       ELSE active' = [active EXCEPT !.required = TRUE] /\ PendRestore(g, ends)

\* start_restore: it is owed from now on; a pending candidate goes first.
StartRestore(g, ends) ==
    /\ lifecycle = "enabled" /\ active.generation = g
    /\ active' = [active EXCEPT !.required = TRUE]
    /\ IF pending.kind = "candidate" \/ pending.over = g
       THEN task' = Ended(ends) /\ UNCHANGED <<lifecycle, generation, pending, cancelled>>
       ELSE PendRestore(g, ends)

\* Faulty variant: a failed candidate forgets the restore that waits for it.
FailPendingForgets(g) ==
    /\ task' = Ended({g})
    /\ pending' = IF pending.generation = g THEN NotPending ELSE pending
    /\ UNCHANGED <<lifecycle, generation, cancelled>>

\* fail_pending, and prepare_required_restore for what was owed meanwhile.
FailPending(g) ==
    IF pending.generation = g /\ lifecycle = "enabled" /\ active.required
    THEN PendRestore(active.generation, {g})
    ELSE /\ task' = Ended({g})
         /\ pending' = IF pending.generation = g THEN NotPending ELSE pending
         /\ UNCHANGED <<lifecycle, generation, cancelled>>

-----------------------------------------------------------------------------
(* A candidate's task.                                                     *)

\* prepare_delegation: what it expects to replace is read first.
Prepare(g) ==
    /\ task[g].pc = "prepare"
    /\ task' = [task EXCEPT ![g].pc = IF authority = NoStamp THEN "fail" ELSE "preparing",
                            ![g].expected = authority]
    /\ UNCHANGED <<coordinator, stop, expired, host>>

Prepared(g) ==
    /\ task[g].pc = "preparing"
    /\ g \notin cancelled
    /\ Goto(g, "prepared")
    /\ UNCHANGED <<coordinator, stop, expired, host>>

\* An error, the deadline, the cancellation or a panic stops a step.
PrepareStops(g) ==
    /\ task[g].pc \in {"prepare", "preparing"}
    /\ Goto(g, "fail")
    /\ UNCHANGED <<coordinator, stop, expired, host>>

\* set_candidate_stage, to Validated and to Activating.
Validate(g) ==
    /\ task[g].pc = "prepared"
    /\ Goto(g, IF IsPending(g, "candidate") /\ g \notin expired THEN "validated" ELSE "discard")
    /\ UNCHANGED <<coordinator, stop, expired, host>>

StartActivation(g) ==
    /\ task[g].pc = "validated"
    /\ Goto(g, IF IsPending(g, "candidate") THEN "activate" ELSE "discard")
    /\ UNCHANGED <<coordinator, stop, expired, host>>

\* activate_delegation: the lane first, and what it expects checked behind it.
TakeLane(g) ==
    /\ task[g].pc = "activate"
    /\ lane = Free
    /\ IF authority = task[g].expected
       THEN lane' = Stamp("task", g) /\ Goto(g, "capture")
       ELSE UNCHANGED lane /\ Goto(g, "discard")
    /\ UNCHANGED <<coordinator, stop, expired, authority, snapshot, queue>>

\* The owner's queue is captured; over a guest the snapshot exists already.
Capture(g) ==
    /\ task[g].pc = "capture"
    /\ authority = task[g].expected
    /\ task' = [task EXCEPT ![g].pc = "join",
                            ![g].captured = IF authority.by = "guest" THEN "none" ELSE queue]
    /\ UNCHANGED <<coordinator, stop, expired, host>>

\* The join is sent and the cloud makes this renderer active.
Joined(g) ==
    /\ task[g].pc = "join"
    /\ g \notin cancelled
    /\ authority = task[g].expected
    /\ Goto(g, "commit")
    /\ UNCHANGED <<coordinator, stop, expired, host>>

ActivationStops(g) ==
    /\ task[g].pc \in {"activate", "capture", "join"}
    /\ Goto(g, "discard")
    /\ UNCHANGED <<coordinator, stop, expired, host>>

MayCommit(g) == g \notin cancelled /\ g \notin expired /\ IsPending(g, "candidate")

\* commit_delegation: the swap, and the snapshot the activation captured.
InstallGuest(g) ==
    /\ authority' = Guest(g)
    /\ snapshot' = IF task[g].captured = "none" THEN snapshot ELSE task[g].captured
    /\ lane' = Stamp("retire", g)
    /\ UNCHANGED queue

\* The commit under the gate.  The credentials may expire while it runs
\* (late): then the restore is prepared in the same section.
Commit(g) ==
    /\ task[g].pc = "commit"
    /\ MayCommit(g) /\ authority = task[g].expected
    /\ InstallGuest(g)
    /\ \E late \in BOOLEAN :
          /\ active' = [generation |-> g, required |-> late]
          /\ expired' = IF late THEN expired \cup {g} ELSE expired
          /\ IF late THEN PendRestore(g, {g})
             ELSE /\ pending' = NotPending
                  /\ cancelled' = cancelled \cup Delegated
                  /\ Goto(g, "watch")
                  /\ UNCHANGED <<lifecycle, generation>>
    /\ UNCHANGED stop

CommitRefused(g) ==
    /\ task[g].pc = "commit"
    /\ ~MayCommit(g) \/ authority # task[g].expected
    /\ Goto(g, "discard")
    /\ UNCHANGED <<coordinator, stop, expired, host>>

\* Faulty variant: a discarded candidate keeps the lane.
DiscardHolding(g) ==
    /\ task[g].pc = "discard"
    /\ Goto(g, "fail")
    /\ UNCHANGED <<coordinator, stop, expired, host>>

\* discard_delegation, bounded by the cleanup timeout, holds the lane until then.
Discard(g) ==
    /\ task[g].pc = "discard"
    /\ LetGo(g)
    /\ Goto(g, "fail")
    /\ UNCHANGED <<coordinator, stop, expired, authority, snapshot, queue>>

Fail(g) ==
    /\ task[g].pc = "fail"
    /\ FailPending(g)
    /\ UNCHANGED <<active, stop, expired, host>>

\* The monitor of an installed guest ends: the guest was replaced, or expired.
MonitorEnds(g) ==
    /\ task[g].pc = "watch"
    /\ \/ /\ g \in expired
          /\ StartRestore(g, {g})
       \/ /\ g \in cancelled \/ (g \in expired /\ (lifecycle # "enabled" \/ active.generation # g))
          /\ Goto(g, "done")
          /\ UNCHANGED coordinator
    /\ UNCHANGED <<stop, expired, host>>
-----------------------------------------------------------------------------
(* A restore's task: it retries until it succeeds or is superseded.        *)

RestorePending(g) ==
    pending = [generation |-> g, kind |-> "restore", over |-> task[g].over] /\ active.generation = task[g].over

\* prepare_owner: only a guest can be restored from.
ReadGuest(g) ==
    /\ task[g].pc = "restore"
    /\ task' = [task EXCEPT ![g].pc = IF authority.by = "guest" THEN "reconnect" ELSE "failed",
                            ![g].expected = authority]
    /\ UNCHANGED <<coordinator, stop, expired, host>>

\* The owner's own transport, its presence and its session, over the network.
Reconnect(g) ==
    /\ task[g].pc = "reconnect"
    /\ g \notin cancelled
    /\ Goto(g, "rejoin")
    /\ UNCHANGED <<coordinator, stop, expired, host>>

TakeLaneBack(g) ==
    /\ task[g].pc = "rejoin"
    /\ lane = Free
    /\ IF authority = task[g].expected
       THEN lane' = Stamp("task", g) /\ Goto(g, "recommit")
       ELSE UNCHANGED lane /\ Goto(g, "failed")
    /\ UNCHANGED <<coordinator, stop, expired, authority, snapshot, queue>>

\* A step fails or runs into the deadline: the attempt is recorded as failed.
RestoreStumbles(g) ==
    /\ task[g].pc \in {"reconnect", "rejoin"}
    /\ Goto(g, "failed")
    /\ UNCHANGED <<coordinator, stop, expired, host>>

\* The cancellation wins every wait of the restore; a panic goes to fail_pending.
RestoreStops(g) ==
    /\ \/ /\ task[g].pc \in {"restore", "reconnect", "rejoin", "backoff"}
          /\ g \in cancelled
          /\ Goto(g, "done")
       \/ /\ task[g].pc = "reconnect"
          /\ Goto(g, "fail")
    /\ UNCHANGED <<coordinator, stop, expired, host>>

\* commit_owner under the gate: stamp and queue in one section.  It is refused
\* while the queue is locked by another, and the snapshot is put back.
CommitOwner(g) ==
    /\ task[g].pc = "recommit"
    /\ IF g \notin cancelled /\ lifecycle = "enabled" /\ RestorePending(g)
       THEN \/ /\ authority = task[g].expected /\ snapshot # "none"
               /\ authority' = Restored(g)
               /\ queue' = snapshot
               /\ snapshot' = "none"
               /\ lane' = Stamp("retire", g)
               /\ pending' = NotPending
               /\ active' = Owner
               /\ Goto(g, "done")
               /\ UNCHANGED <<lifecycle, generation, cancelled>>
            \/ Goto(g, "discard owner") /\ UNCHANGED <<coordinator, host>>
       ELSE Goto(g, "discard owner") /\ UNCHANGED <<coordinator, host>>
    /\ UNCHANGED <<stop, expired>>

\* discard_owner, bounded by the cleanup timeout, holds the lane until then.
DiscardOwner(g) ==
    /\ task[g].pc = "discard owner"
    /\ LetGo(g)
    /\ Goto(g, IF g \in cancelled THEN "done" ELSE "failed")
    /\ UNCHANGED <<coordinator, stop, expired, authority, snapshot, queue>>

\* record_restore_failure_and_wait: superseded restores end here.
RecordFailure(g) ==
    /\ task[g].pc = "failed"
    /\ Goto(g, IF lifecycle = "enabled" /\ RestorePending(g) THEN "backoff" ELSE "done")
    /\ UNCHANGED <<coordinator, stop, expired, host>>

Retry(g) ==
    /\ task[g].pc = "backoff"
    /\ Goto(g, IF lifecycle = "enabled" /\ RestorePending(g) THEN "restore" ELSE "done")
    /\ UNCHANGED <<coordinator, stop, expired, host>>

-----------------------------------------------------------------------------
(* What is installed, and the world around it.                             *)

Playback == Stamp("playback", 0)

\* PendingActivation.release: the old transport has stopped, or the cleanup
\* timeout dropped the wait.  An owner's playback is restored behind the lane.
Released(l) == IF l.by = "retire" /\ authority = Restored(l.id) THEN {Free, Playback} ELSE {Free}

ReleaseRetired ==
    /\ lane.by = "retire"
    /\ lane' \in Released(lane)
    /\ UNCHANGED <<coordinator, task, stop, expired, authority, snapshot, queue>>

\* The restoration of playback ends, fails or reaches its deadline.
EndPlayback ==
    /\ lane = Playback
    /\ lane' = Free
    /\ UNCHANGED <<coordinator, task, stop, expired, authority, snapshot, queue>>

\* The guest's loop runs and loads the guest's queue.
GuestLoads ==
    /\ authority.by = "guest" /\ lane = Free
    /\ queue' = "guest"
    /\ UNCHANGED <<coordinator, task, stop, expired, lane, authority, snapshot>>

\* The guest's loop gives up (transport lost, rejoin refused, events missed).
GuestFails ==
    /\ authority.by = "guest"
    /\ lane # Stamp("retire", authority.id)
    /\ StartRestore(authority.id, {})
    /\ UNCHANGED <<stop, expired, host>>

\* Credentials reach their end; where nothing looks at them it may wait.
Expire(g) ==
    /\ g \notin expired
    /\ task[g].pc \in {"prepared", "commit", "watch"}
    /\ expired' = expired \cup {g}
    /\ UNCHANGED <<coordinator, task, stop, host>>

-----------------------------------------------------------------------------
(* The shutdown.                                                           *)

\* shutdown: admission ends under the gate.  It does nothing while disabled.
BeginShutdown ==
    IF lifecycle = "disabled"
    THEN /\ stop' = [NoStop EXCEPT !.pc = "over"]
         /\ UNCHANGED coordinator
    ELSE /\ lifecycle' = "shutting down"
         /\ pending' = NotPending
         /\ cancelled' = cancelled \cup Replaced \cup Delegated
         /\ stop' = [NoStop EXCEPT !.pc = "join", !.by = "coordinator"]
         /\ UNCHANGED <<generation, active>>

JoinTasks ==
    /\ stop.pc = "join"
    /\ \A g \in Generations : ~Live(g) /\ lane # Stamp("retire", g)
    /\ stop' = [stop EXCEPT !.pc = "gate"]
    /\ UNCHANGED <<coordinator, task, expired, host>>

\* The cleanup timeout: what an aborted task holds is dropped, and released so.
AbortTasks ==
    /\ stop.pc = "join"
    /\ stop' = [stop EXCEPT !.pc = "gate"]
    /\ task' = Ended({g \in Generations : Live(g)})
    /\ IF lane.by \in {"task", "retire"} THEN lane' \in Released(lane) ELSE UNCHANGED lane
    /\ UNCHANGED <<coordinator, expired, authority, snapshot, queue>>

\* shutdown_authority: the lane and the fence, then the authority is cleared.
ShutdownTakesLane ==
    /\ stop.pc = "gate"
    /\ lane = Free
    /\ lane' = Stamp("shutdown", 0)
    /\ stop' = [stop EXCEPT !.pc = "clear"]
    /\ UNCHANGED <<coordinator, task, expired, authority, snapshot, queue>>

ClearAuthority ==
    /\ stop.pc = "clear"
    /\ authority' = NoStamp
    /\ stop' = [stop EXCEPT !.pc = "restore"]
    /\ UNCHANGED <<coordinator, task, expired, lane, snapshot, queue>>

\* restore_owner_snapshot: the snapshot is dropped only after the queue has it.
RestoreSnapshot ==
    /\ stop.pc = "restore"
    /\ IF snapshot = "none"
       THEN lane' = Free /\ stop' = [stop EXCEPT !.pc = "end"] /\ UNCHANGED queue
       ELSE /\ queue' = snapshot
            /\ stop' = [stop EXCEPT !.pc = "drop"]
            /\ UNCHANGED lane
    /\ UNCHANGED <<coordinator, task, expired, authority, snapshot>>

DropSnapshot ==
    /\ stop.pc = "drop"
    /\ snapshot' = "none"
    /\ lane' \in {Free, Playback}
    /\ stop' = [stop EXCEPT !.pc = "end"]
    /\ UNCHANGED <<coordinator, task, expired, authority, queue>>

\* The caller's timeout drops shutdown_authority at any of its waits.
ShutdownTimesOut ==
    /\ stop.pc \in {"gate", "clear", "restore", "drop"}
    /\ stop' = [stop EXCEPT !.pc = "end", !.late = TRUE]
    /\ lane' = IF stop.pc = "gate" THEN lane ELSE Free
    /\ UNCHANGED <<coordinator, task, expired, authority, snapshot, queue>>

\* The coordinator is disabled whether or not the host finished in time.
EndShutdown ==
    /\ stop.pc = "end"
    /\ stop' = [stop EXCEPT !.pc = "over"]
    /\ IF stop.by = "coordinator"
       THEN /\ lifecycle' = "disabled"
            /\ pending' = NotPending
            /\ active' = Owner
            /\ UNCHANGED <<generation, cancelled>>
       ELSE UNCHANGED coordinator
    /\ UNCHANGED <<task, expired, host>>

CandidateTask(g) ==
    \/ Prepare(g) \/ Prepared(g) \/ PrepareStops(g) \/ Validate(g) \/ StartActivation(g)
    \/ TakeLane(g) \/ Capture(g) \/ Joined(g) \/ ActivationStops(g)
    \/ Commit(g) \/ CommitRefused(g) \/ Discard(g) \/ MonitorEnds(g)

RestoreTask(g) ==
    \/ ReadGuest(g) \/ Reconnect(g) \/ TakeLaneBack(g) \/ RestoreStumbles(g) \/ RestoreStops(g)
    \/ CommitOwner(g) \/ DiscardOwner(g) \/ RecordFailure(g) \/ Retry(g)

Shutdown ==
    \/ JoinTasks \/ AbortTasks \/ ShutdownTakesLane \/ ClearAuthority \/ RestoreSnapshot
    \/ DropSnapshot \/ ShutdownTimesOut \/ EndShutdown

DelegationNext ==
    \/ \E g \in Generations : CandidateTask(g) \/ RestoreTask(g) \/ Fail(g) \/ Expire(g)
    \/ ReleaseRetired \/ EndPlayback \/ GuestLoads \/ GuestFails \/ Shutdown
=============================================================================
