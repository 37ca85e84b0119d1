--------------------------- MODULE ConnectService ---------------------------
(***************************************************************************)
(* The daemon's QConnect service around the delegation coordinator: the    *)
(* intent to be enabled with its epoch, the lifecycle gate that serialises *)
(* connects and disconnects, the owner that a connect installs, and the    *)
(* LAN listener through which candidates arrive.  A disable invalidates    *)
(* the connect that holds the gate before it waits for the gate itself.    *)
(***************************************************************************)
EXTENDS Delegation, Sequences

CONSTANT MaxRequests    \* bound: connects and disconnects that are asked for

ASSUME RequestsAssumption == MaxRequests \in Nat

VARIABLES intent,       \* QconnectEnableIntent
          requests,     \* connects and disconnects asked for so far
          withdrawing,  \* disables that have not reached the gate yet
          gate,         \* lifecycle_gate: its holder, then who waits in order
          service,      \* the holder of the gate
          claim,        \* inner.connecting_token, 0 for none
          listener,     \* the stamp the LAN callback was built with
          offered,      \* a handoff has passed the callback's check
          incomplete,   \* teardown_incomplete
          outcome       \* how the latest finished request ended

calls == <<intent, requests, withdrawing, gate, service, claim, incomplete, outcome>>
lan == <<listener, offered>>
vars == <<coordinator, task, stop, expired, host, calls, lan>>

Resting == [pc |-> "start", stamp |-> NoStamp]

Init == /\ DelegationInit
        /\ intent = [on |-> FALSE, epoch |-> 0]
        /\ requests = 0
        /\ withdrawing = 0
        /\ gate = <<>>
        /\ service = Resting
        /\ claim = 0
        /\ listener = NoStamp
        /\ offered = FALSE
        /\ incomplete = FALSE
        /\ outcome = "none"

Token(t) == intent = [on |-> TRUE, epoch |-> t]     \* is_current
Connect(t) == [op |-> "connect", token |-> t]
Disconnect == [op |-> "disconnect", token |-> 0]

Holder(op) == gate # <<>> /\ Head(gate).op = op
Mine == Head(gate).token

\* The holder returns and the gate goes to the next in line.
Return(how) ==
    /\ gate' = Tail(gate)
    /\ service' = Resting
    /\ outcome' = how

Step(pc) == service' = [service EXCEPT !.pc = pc] /\ UNCHANGED <<gate, outcome>>

-----------------------------------------------------------------------------
(* The requests.                                                           *)

\* connect: enable() keeps its epoch while enabled; then the gate.
AskConnect ==
    /\ requests < MaxRequests
    /\ requests' = requests + 1
    /\ intent' = IF intent.on THEN intent ELSE [on |-> TRUE, epoch |-> intent.epoch + 1]
    /\ gate' = Append(gate, Connect(intent'.epoch))
    /\ UNCHANGED <<coordinator, task, stop, expired, host, withdrawing, service, claim, incomplete, outcome, lan>>

\* disconnect: the intent ends at once, before the gate is asked for.
AskDisconnect ==
    /\ requests < MaxRequests
    /\ requests' = requests + 1
    /\ intent' = [on |-> FALSE, epoch |-> intent.epoch + 1]
    /\ withdrawing' = withdrawing + 1
    /\ UNCHANGED <<coordinator, task, stop, expired, host, gate, service, claim, incomplete, outcome, lan>>

\* Its second section clears whatever claim there is by then.
Withdraw ==
    /\ withdrawing > 0
    /\ withdrawing' = withdrawing - 1
    /\ claim' = 0
    /\ gate' = Append(gate, Disconnect)
    /\ UNCHANGED <<coordinator, task, stop, expired, host, intent, requests, service, incomplete, outcome, lan>>

\* A connect whose token is no longer current stops waiting for the gate.
StopWaiting ==
    /\ \E i \in 2..Len(gate) :
          /\ gate[i].op = "connect" /\ ~Token(gate[i].token)
          /\ gate' = SubSeq(gate, 1, i - 1) \o SubSeq(gate, i + 1, Len(gate))
    /\ UNCHANGED <<coordinator, task, stop, expired, host, intent, requests, withdrawing,
                   service, claim, incomplete, outcome, lan>>

-----------------------------------------------------------------------------
(* connect_with_token, behind the gate.                                    *)

ClaimConnect ==
    /\ Holder("connect") /\ service.pc = "start"
    /\ \/ /\ ~Token(Mine)
          /\ Return("cancelled") /\ UNCHANGED claim
       \/ /\ Token(Mine) /\ incomplete
          /\ Return("failed") /\ UNCHANGED claim
       \/ /\ Token(Mine) /\ ~incomplete /\ lane # Playback
          /\ IF authority # NoStamp THEN Return("connected") /\ UNCHANGED claim
             ELSE IF claim = Mine THEN Return("failed") /\ UNCHANGED claim
             ELSE claim' = Mine /\ Step("dial")
       \/ /\ Token(Mine) /\ ~incomplete /\ lane # Playback   \* a rollback failed, or no API
          /\ Return("failed")
          /\ claim' \in {claim, IF authority = NoStamp THEN 0 ELSE claim}
    /\ UNCHANGED <<coordinator, task, stop, expired, host, intent, requests, withdrawing, incomplete, lan>>

\* An error before the install: the claim is cleared if the token is current.
DialFails ==
    /\ Holder("connect") /\ service.pc = "dial"
    /\ Return(IF Token(Mine) THEN "failed" ELSE "cancelled")
    /\ claim' = IF Token(Mine) /\ authority = NoStamp THEN 0 ELSE claim
    /\ UNCHANGED <<coordinator, task, stop, expired, host, intent, requests, withdrawing, incomplete, lan>>

\* The install is one commit_if_current section: it must still hold the claim.
\* A refusal clears the claim too, unless somebody else's runtime is in place.
InstallOwner ==
    /\ Holder("connect") /\ service.pc = "dial"
    /\ Token(Mine)
    /\ claim' = IF authority = NoStamp THEN 0 ELSE claim
    /\ IF authority = NoStamp /\ claim = Mine
       THEN /\ authority' = Connected(requests)
            /\ service' = [pc |-> "bootstrap", stamp |-> Connected(requests)]
            /\ UNCHANGED <<gate, outcome>>
       ELSE Return("superseded") /\ UNCHANGED authority
    /\ UNCHANGED <<coordinator, task, stop, expired, lane, snapshot, queue,
                   intent, requests, withdrawing, incomplete, lan>>

\* declare_owner_ready_if, under the coordinator's gate.
DeclareOwnerReady ==
    /\ Holder("connect") /\ service.pc = "bootstrap"
    /\ Token(Mine)
    /\ IF lifecycle = "disabled" /\ pending = NotPending /\ active = Owner
       THEN /\ lifecycle' = "enabled"
            /\ Step("listen")
            /\ UNCHANGED <<generation, pending, active, cancelled, stop>>
       ELSE BeginShutdown /\ Step("undo")
    /\ UNCHANGED <<task, expired, host, intent, requests, withdrawing, claim, incomplete, lan>>

\* The bootstrap fails, or the token is found cancelled at a later check.
ConnectFails ==
    /\ Holder("connect")
    /\ service.pc = "bootstrap" \/ (service.pc = "listen" /\ ~Token(Mine))
    /\ Step("retire")
    /\ UNCHANGED <<coordinator, task, stop, expired, host, intent, requests, withdrawing, claim, incomplete, lan>>

\* start_lan: the listener is bound to this connect's stamp, or binding fails.
StartListener ==
    /\ Holder("connect") /\ service.pc = "listen"
    /\ Token(Mine)
    /\ IF authority = service.stamp
       THEN /\ listener' \in IF listener = NoStamp THEN {NoStamp, service.stamp} ELSE {listener}
            /\ Return("connected")
       ELSE Step("retire") /\ UNCHANGED listener
    /\ UNCHANGED <<coordinator, task, stop, expired, host, intent, requests, withdrawing,
                   claim, incomplete, offered>>

\* retire_initial_owner_if_current, after the coordinator's shutdown if there is one.
RetireOwner ==
    /\ Holder("connect")
    /\ service.pc = "retire" \/ (service.pc = "undo" /\ stop.pc = "over")
    /\ authority' = IF authority = service.stamp THEN NoStamp ELSE authority
    /\ stop' = NoStop
    /\ Return(IF ~Token(Mine) THEN "cancelled" ELSE IF service.pc = "undo" THEN "superseded" ELSE "failed")
    /\ UNCHANGED <<coordinator, task, expired, lane, snapshot, queue, intent, requests,
                   withdrawing, claim, incomplete, lan>>

-----------------------------------------------------------------------------
(* disconnect_with_owner_policy_locked, behind the gate.                   *)

\* Faulty variant: the listener is left to the coordinator's shutdown.
CloseListenerLater ==
    /\ Holder("disconnect") /\ service.pc = "start"
    /\ IF intent.on THEN Return("superseded by enable") /\ UNCHANGED claim
       ELSE ~offered /\ claim' = 0 /\ Step("await")
    /\ UNCHANGED <<coordinator, task, stop, expired, host, intent, requests, withdrawing, incomplete, lan>>

\* An enable asked for while the disconnect waited is newer; else stop_lan,
\* which waits for the callback that is running.
CloseListener ==
    /\ Holder("disconnect") /\ service.pc = "start"
    /\ IF intent.on
       THEN Return("superseded by enable") /\ UNCHANGED <<claim, listener>>
       ELSE /\ ~offered
            /\ claim' = 0
            /\ listener' = NoStamp
            /\ Step("await")
    /\ UNCHANGED <<coordinator, task, stop, expired, host, intent, requests, withdrawing, incomplete, offered>>

\* A restoration of playback from before is awaited, then the coordinator.
StopCoordinator ==
    /\ Holder("disconnect") /\ service.pc = "await"
    /\ lane # Playback
    /\ BeginShutdown
    /\ Step("stop")
    /\ UNCHANGED <<task, expired, host, intent, requests, withdrawing, claim, incomplete, lan>>

\* What is left installed is shut down directly, once.
StopDirectly ==
    /\ Holder("disconnect") /\ service.pc = "stop" /\ stop.pc = "over"
    /\ authority # NoStamp \/ snapshot # "none"
    /\ stop' = [NoStop EXCEPT !.pc = "gate", !.by = "service"]
    /\ Step("stop directly")
    /\ UNCHANGED <<coordinator, task, expired, host, intent, requests, withdrawing, claim, incomplete, lan>>

\* Faulty variant: the teardown is complete once the authority is cleared.
DisconnectedOnceCleared ==
    /\ Holder("disconnect") /\ stop.pc = "over"
    /\ service.pc = "stop directly" \/ (service.pc = "stop" /\ authority = NoStamp /\ snapshot = "none")
    /\ incomplete' = (authority # NoStamp)
    /\ stop' = NoStop
    /\ Return(IF incomplete' THEN "failed" ELSE "disconnected")
    /\ UNCHANGED <<coordinator, task, expired, host, intent, requests, withdrawing, claim, lan>>

\* teardown_incomplete: a direct teardown that ran out of time is not safe.
Disconnected ==
    /\ Holder("disconnect") /\ stop.pc = "over"
    /\ service.pc = "stop directly" \/ (service.pc = "stop" /\ authority = NoStamp /\ snapshot = "none")
    /\ incomplete' = ((service.pc = "stop directly" /\ stop.late) \/ authority # NoStamp)
    /\ stop' = NoStop
    /\ Return(IF incomplete' THEN "failed" ELSE "disconnected")
    /\ UNCHANGED <<coordinator, task, expired, host, intent, requests, withdrawing, claim, lan>>

-----------------------------------------------------------------------------
(* The LAN callback: its check, and the admission it then blocks on.       *)

Offer ==
    /\ ~offered
    /\ listener # NoStamp
    /\ intent.on /\ authority = listener
    /\ offered' = TRUE
    /\ UNCHANGED <<coordinator, task, stop, expired, host, calls, listener>>

Handoff ==
    /\ offered
    /\ offered' = FALSE
    /\ \/ Admit
       \/ lifecycle # "enabled" /\ UNCHANGED <<coordinator, task>>
    /\ UNCHANGED <<stop, expired, host, calls, listener>>

Service ==
    \/ Withdraw \/ StopWaiting \/ ClaimConnect \/ DialFails \/ InstallOwner \/ DeclareOwnerReady
    \/ ConnectFails \/ StartListener \/ RetireOwner \/ CloseListener \/ StopCoordinator
    \/ StopDirectly \/ Disconnected

Next ==
    \/ AskConnect \/ AskDisconnect \/ Service \/ Offer \/ Handoff
    \/ DelegationNext /\ UNCHANGED <<calls, lan>>

Spec == Init /\ [][Next]_vars

\* An attempt at a restore fails: network, deadline, panic or a busy queue.
Stumbles(g) ==
    \/ RestoreStumbles(g)
    \/ task[g].pc = "reconnect" /\ task'[g].pc = "fail"
    \/ task[g].pc = "recommit" /\ task'[g].pc = "discard owner"
          /\ g \notin cancelled /\ authority = task[g].expected

\* The holder of the gate, the tasks and the callback run.  Restores are
\* retried; from some time on their attempts no longer fail.
Fairness ==
    /\ WF_vars(Service)
    /\ WF_vars(Shutdown /\ UNCHANGED <<calls, lan>>)
    /\ WF_vars((ReleaseRetired \/ EndPlayback) /\ UNCHANGED <<calls, lan>>)
    /\ WF_vars(Handoff)
    /\ \A g \in Generations : WF_vars((CandidateTask(g) \/ RestoreTask(g) \/ Fail(g)) /\ UNCHANGED <<calls, lan>>)
    /\ <>[][\A g \in Generations : ~Stumbles(g)]_vars

FairSpec == Spec /\ Fairness

-----------------------------------------------------------------------------
(* Properties.                                                             *)

Stamps == {NoStamp} \cup {Connected(n) : n \in 1..MaxRequests}
             \cup {Guest(g) : g \in Generations} \cup {Restored(g) : g \in Generations}

CandidatePcs == {"prepare", "preparing", "prepared", "validated", "activate", "capture", "join",
                 "commit", "discard", "watch"}
RestorePcs == {"restore", "reconnect", "rejoin", "recommit", "discard owner", "failed", "backoff"}

\* Types of the coordinator, the host and the service.
TypeOK ==
    /\ lifecycle \in {"disabled", "enabled", "shutting down"}
    /\ generation \in 0..MaxGeneration
    /\ pending \in [generation : 0..MaxGeneration, kind : {"none", "candidate", "restore"},
                    over : 0..MaxGeneration]
    /\ active \in [generation : 0..MaxGeneration, required : BOOLEAN]
    /\ cancelled \subseteq Generations /\ expired \subseteq Generations
    /\ task \in [Generations -> [pc : {"idle", "fail", "done"} \cup CandidatePcs \cup RestorePcs,
                                 over : 0..MaxGeneration, expected : Stamps,
                                 captured : {"none", "owner", "guest"}]]
    /\ stop \in [pc : {"idle", "join", "gate", "clear", "restore", "drop", "end", "over"},
                 by : {"none", "coordinator", "service"}, late : BOOLEAN]
    /\ lane \in {Free, Playback, Stamp("shutdown", 0)}
                   \cup [by : {"task", "retire"}, id : Generations]
    /\ authority \in Stamps /\ listener \in Stamps
    /\ snapshot \in {"none", "owner", "guest"} /\ queue \in {"owner", "guest"}
    /\ intent \in [on : BOOLEAN, epoch : 0..MaxRequests]
    /\ requests \in 0..MaxRequests /\ withdrawing \in 0..MaxRequests
    /\ gate \in Seq([op : {"connect", "disconnect"}, token : 0..MaxRequests])
    /\ service \in [pc : {"start", "dial", "bootstrap", "listen", "undo", "retire", "await",
                          "stop", "stop directly"}, stamp : Stamps]
    /\ claim \in 0..MaxRequests
    /\ offered \in BOOLEAN /\ incomplete \in BOOLEAN
    /\ outcome \in {"none", "connected", "cancelled", "failed", "superseded",
                    "superseded by enable", "disconnected"}

\* While delegation is enabled, the coordinator and the host agree which guest
\* is installed: no cancelled or late task ever moves one without the other.
\* And an installed guest always has something that will end it: the monitor of
\* its credentials, or a restore that is owed and whose transaction is running.
GuestIsAccountedFor ==
    LET g == active.generation
    IN  lifecycle = "enabled" =>
            /\ \A h \in Generations : g = h <=> authority = Guest(h)
            /\ g # 0 => \/ task[g].pc = "watch"
                        \/ /\ active.required
                           /\ pending.kind = "candidate" \/ pending.over = g
                           /\ Live(pending.generation)

\* The owner's queue is never lost: the player has it or the snapshot does,
\* whatever is cancelled, refused, timed out or aborted in between; and a
\* guest's queue is never played under the owner's authority.
OwnerKeepsQueue ==
    /\ "owner" \in {queue, snapshot} /\ snapshot # "guest"
    /\ authority.by \in {"connect", "restore"} => queue = "owner"

\* Once the last disconnect has returned and reported success, nothing is left:
\* no authority, no listener, no guest's queue, no delegation, and no task but
\* what the exhaustion of generations has cancelled and left behind.
OffMeansOff ==
    gate = <<>> /\ withdrawing = 0 /\ ~intent.on /\ ~incomplete =>
        /\ authority = NoStamp /\ listener = NoStamp
        /\ queue = "owner" /\ snapshot = "none"
        /\ lifecycle = "disabled"
        /\ \A g \in Generations : Live(g) => generation = MaxGeneration /\ g \in cancelled

\* Nothing hangs: the lane is always given back, by its holder, by a timeout or
\* by a drop, and every connect and every disconnect returns.
NothingHangs == []<>(lane = Free) /\ (gate # <<>> ~> gate = <<>>)

\* An expired guest does not stay: a restore or another guest replaces it, or
\* delegation is shut down.
ExpiredGuestLeaves ==
    \A g \in Generations :
        active.generation = g /\ g \in expired /\ lifecycle = "enabled"
            ~> active.generation # g \/ lifecycle # "enabled"

-----------------------------------------------------------------------------
(* What the code's comments say.                                           *)

\* The listener never outlives the exact authority runtime it projects: while
\* the status says "listening" its callback accepts a handoff.
ListeningMeansAccepting ==
    lifecycle = "enabled" /\ pending = NotPending /\ active = Owner /\ intent.on
        /\ listener # NoStamp => authority = listener

\* An enable that was asked for while a disable waited is newer and wins: it is
\* not refused in favour of what it superseded.
NewerEnableWins == gate = <<>> /\ withdrawing = 0 /\ intent.on => outcome # "superseded"
=============================================================================
