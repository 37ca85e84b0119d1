---------------------------- MODULE AuthorityCell ----------------------------
(***************************************************************************)
(* The authority cell of QConnect: which runtime (the owner's, a guest's,  *)
(* or none) may act on the player.  Actions are admitted lock-free, by a   *)
(* permit that is counted between two looks at the cell; a handoff closes  *)
(* admission (the fence), waits until no permit is left (the drain) and    *)
(* only then replaces the authority.  The LAN projection publishes the     *)
(* session of the installed authority under a lock of its own.             *)
(*                                                                         *)
(* An actor is one task that asks for permits again and again; a handoff   *)
(* slot is one task that changes the authority: a delegation, a restore of *)
(* the owner, a shutdown, and, outside the fence, the initial connect and  *)
(* the retirement of an owner runtime.  The atomics are sequentially       *)
(* consistent here.                                                        *)
(***************************************************************************)
EXTENDS Naturals, FiniteSets

CONSTANTS Actors,       \* tasks that ask for permits
          Handoffs,     \* tasks that change the authority
          Kinds,        \* the kinds of permit the actors ask for
          Changes,      \* the changes of authority the handoff tasks make
          MaxEpoch      \* bound: epochs a run may reserve

ASSUME CellAssumption ==
    /\ MaxEpoch \in Nat
    /\ IsFiniteSet(Handoffs)
    /\ Kinds \subseteq {"owner", "exact", "transport", "runtime"}
    /\ Changes \subseteq {"delegate", "restore", "shutdown", "connect", "retire"}
    /\ Actors \cap Handoffs = {}
    /\ "no one" \notin Handoffs

VARIABLES next,         \* next_epoch
          current,      \* AuthorityState.current
          through,      \* AuthorityState.installed_through_epoch
          fences,       \* owner_action_fences
          counted,      \* the actors active_actions counts
          lane,         \* holder of transition_gate
          inner,        \* holder of the service's inner mutex
          runtime,      \* inner.runtime's stamp
          slot,         \* holder of the projection's mutex
          installed,    \* the projection's InstalledSessionProjection
          shown,        \* the stamp whose session the LAN wire shows
          actor,        \* per actor: the permit it asks for or holds
          handoff,      \* per task: the change it makes
          era,          \* history: effective changes of the authority state
          overtaken     \* history: epochs that may never be current again

vars == <<next, current, through, fences, counted, lane, inner, runtime, slot,
          installed, shown, actor, handoff, era, overtaken>>
cell == <<next, current, through, era, overtaken>>
service == <<inner, runtime>>
projection == <<slot, installed, shown>>

NoStamp == [epoch |-> 0, guest |-> FALSE]
Stamps == [epoch : Nat, guest : BOOLEAN]
NoOne == "no one"
State == [current |-> current, through |-> through]
NoToken == [current |-> NoStamp, through |-> 0, era |-> 0]
Unmarked(token) == [current |-> token.current, through |-> token.through]

IdleActor(token) == [pc |-> "idle", kind |-> "owner", seen |-> Unmarked(NoToken),
                     token |-> token, woken |-> FALSE, then |-> "idle"]
IdleHandoff == [pc |-> "idle", kind |-> "shutdown", expected |-> NoStamp,
                stamp |-> NoStamp, woken |-> FALSE]

Init == /\ next = 1
        /\ current = NoStamp
        /\ through = 0
        /\ fences = 0
        /\ counted = {}
        /\ lane = NoOne
        /\ inner = NoOne
        /\ runtime = NoStamp
        /\ slot = NoOne
        /\ installed = [stamp |-> NoStamp, session |-> FALSE]
        /\ shown = NoStamp
        /\ actor = [a \in Actors |-> IdleActor(NoToken)]
        /\ handoff = [h \in Handoffs |-> IdleHandoff]
        /\ era = 0
        /\ overtaken = {}

-----------------------------------------------------------------------------
(* The cell's own operations.                                              *)

\* A clear still owes the reservation of its fence epoch.
Owed(h) == /\ handoff[h].kind \in {"shutdown", "retire"}
           /\ handoff[h].pc # "idle"
           /\ handoff[h].stamp = NoStamp

CanReserve == next + Cardinality({h \in Handoffs : Owed(h)}) <= MaxEpoch

\* current and installed_through_epoch change together, under the state mutex.
Become(stamp, fence) ==
    /\ current' = stamp
    /\ through' = fence
    /\ era' = IF stamp = current /\ fence = through THEN era ELSE era + 1

\* Faulty variant: compares with the current authority instead of the high-water mark.
NewerThanCurrent(stamp) == stamp.epoch > current.epoch

Newer(stamp) == stamp.epoch > through

Raised(fence) == IF fence > through THEN fence ELSE through

\* A task that waits: its future exists, it looks, and it polls the future.
Registered == {"await look", "drain", "drowsy", "asleep"}

\* Faulty variant: only sleeping waiters are woken, as if they registered after
\* the look at the fence.
ResumeSleepers == [a \in Actors |-> [actor[a] EXCEPT !.woken = @ \/ actor[a].pc = "asleep"]]

\* notify_waiters on owner_actions_resumed and on actions_drained: the futures
\* that exist by then are woken, polled or not.
ResumeAll == [a \in Actors |-> [actor[a] EXCEPT !.woken = @ \/ actor[a].pc \in Registered]]
WakeDrains == [h \in Handoffs |-> [handoff[h] EXCEPT !.woken = @ \/ handoff[h].pc \in Registered]]

\* owner_token_for: a guest's state has no owner token.
OwnerState == ~current.guest

\* Faulty variant: an exact token is compared by its authority alone.
AdmissibleByStamp(a) == CASE actor[a].kind = "owner"     -> State = actor[a].seen
                          [] actor[a].kind = "exact"     -> current = actor[a].seen.current
                          [] actor[a].kind = "runtime"   -> current = actor[a].seen.current
                          [] actor[a].kind = "transport" -> TRUE

\* What each kind of permit asks of the authority it sees.
Admissible(a) == CASE actor[a].kind = "owner"     -> State = actor[a].seen
                   [] actor[a].kind = "exact"     -> State = actor[a].seen
                   [] actor[a].kind = "runtime"   -> current = actor[a].seen.current
                   [] actor[a].kind = "transport" -> TRUE

-----------------------------------------------------------------------------
(* Admission of one action.                                                *)

Known == {current} \cup {handoff[h].stamp : h \in Handoffs}

Ask(a, kind) ==
    /\ actor[a].pc = "idle"
    /\ kind = "exact" => actor[a].token # NoToken
    /\ \E stamp \in IF kind = "runtime" THEN Known \ {NoStamp} ELSE {NoStamp} :
          actor' = [actor EXCEPT ![a].pc = "look", ![a].kind = kind,
                        ![a].seen = IF kind = "exact" THEN Unmarked(actor[a].token)
                                    ELSE [current |-> stamp, through |-> 0]]
    /\ UNCHANGED <<cell, service, projection, fences, counted, lane, handoff>>

\* A fenced exact observation waits for the fence to go; the others give up.
Fenced(a) == IF actor[a].kind = "exact" THEN "await" ELSE "idle"

Refuse(a, then) == actor' = [actor EXCEPT ![a] =
    IF then = "idle" THEN IdleActor(@.token) ELSE [@ EXCEPT !.pc = then]]

FirstLook(a) ==
    /\ actor[a].pc = "look"
    /\ IF fences # 0 THEN Refuse(a, Fenced(a))
       ELSE actor' = [actor EXCEPT ![a].pc = "observe"]
    /\ UNCHANGED <<cell, service, projection, fences, counted, lane, handoff>>

Observe(a) ==
    /\ actor[a].pc = "observe"
    /\ \/ /\ actor[a].kind = "owner"
          /\ OwnerState
          /\ actor' = [actor EXCEPT ![a].pc = "count", ![a].seen = State]
       \/ /\ actor[a].kind # "owner"
          /\ Admissible(a)
          /\ actor' = [actor EXCEPT ![a].pc = "count"]
       \/ /\ IF actor[a].kind = "owner" THEN ~OwnerState ELSE ~Admissible(a)
          /\ Refuse(a, "idle")
    /\ UNCHANGED <<cell, service, projection, fences, counted, lane, handoff>>

CountIn(a) ==
    /\ actor[a].pc = "count"
    /\ counted' = counted \cup {a}
    /\ actor' = [actor EXCEPT ![a].pc = "relook"]
    /\ UNCHANGED <<cell, service, projection, fences, lane, handoff>>

\* Faulty variant: the fence is not looked at again after the count.
SecondLookSkipped(a) ==
    /\ actor[a].pc = "relook"
    /\ actor' = [actor EXCEPT ![a].pc = "confirm"]
    /\ UNCHANGED <<cell, service, projection, fences, counted, lane, handoff>>

SecondLook(a) ==
    /\ actor[a].pc = "relook"
    /\ actor' = [actor EXCEPT ![a] =
          IF fences # 0 THEN [@ EXCEPT !.pc = "leave", !.then = Fenced(a)]
          ELSE [@ EXCEPT !.pc = "confirm"]]
    /\ UNCHANGED <<cell, service, projection, fences, counted, lane, handoff>>

\* Faulty variant: the authority is not compared again after the count.
AdmitUnconfirmed(a) ==
    /\ actor[a].pc = "confirm"
    /\ actor' = [actor EXCEPT ![a].pc = "acting"]
    /\ UNCHANGED <<cell, service, projection, fences, counted, lane, handoff>>

\* The permit is granted; an owner permit carries the token of its generation.
Admit(a) ==
    /\ actor[a].pc = "confirm"
    /\ Admissible(a)
    /\ actor' = [actor EXCEPT ![a].pc = "acting",
                     ![a].token = IF actor[a].kind = "owner"
                                  THEN [current |-> current, through |-> through, era |-> era]
                                  ELSE @]
    /\ UNCHANGED <<cell, service, projection, fences, counted, lane, handoff>>

Reject(a) ==
    /\ actor[a].pc = "confirm"
    /\ ~Admissible(a)
    /\ actor' = [actor EXCEPT ![a].pc = "leave"]
    /\ UNCHANGED <<cell, service, projection, fences, counted, lane, handoff>>

\* Faulty variant: a rejected permit is taken back without the notification.
CountOutSilently(a) ==
    /\ actor[a].pc \in {"acting", "leave"}
    /\ counted' = counted \ {a}
    /\ IF counted' = {} /\ actor[a].pc = "acting"
       THEN actor' = [actor EXCEPT ![a].pc = "notify"]
       ELSE Refuse(a, actor[a].then)
    /\ UNCHANGED <<cell, service, projection, fences, lane, handoff>>

\* The permit drops, or a rejected one is taken back: the last one out notifies.
CountOut(a) ==
    /\ actor[a].pc \in {"acting", "leave"}
    /\ counted' = counted \ {a}
    /\ IF counted' = {} THEN actor' = [actor EXCEPT ![a].pc = "notify"]
       ELSE Refuse(a, actor[a].then)
    /\ UNCHANGED <<cell, service, projection, fences, lane, handoff>>

NotifyDrained(a) ==
    /\ actor[a].pc = "notify"
    /\ handoff' = WakeDrains
    /\ Refuse(a, actor[a].then)
    /\ UNCHANGED <<cell, service, projection, fences, counted, lane>>

\* wait_for_owner_actions_resumed: register, look, sleep.
RegisterWaiter(a) ==
    /\ actor[a].pc = "await"
    /\ actor' = [actor EXCEPT ![a].pc = "await look", ![a].then = "idle"]
    /\ UNCHANGED <<cell, service, projection, fences, counted, lane, handoff>>

LookThenSleep(a) ==
    /\ actor[a].pc = "await look"
    /\ actor' = [actor EXCEPT ![a] = IF fences = 0 THEN [@ EXCEPT !.pc = "look", !.woken = FALSE]
                                     ELSE [@ EXCEPT !.pc = "drowsy"]]
    /\ UNCHANGED <<cell, service, projection, fences, counted, lane, handoff>>

FallAsleep(a) ==
    /\ actor[a].pc = "drowsy"
    /\ actor' = [actor EXCEPT ![a].pc = "asleep"]
    /\ UNCHANGED <<cell, service, projection, fences, counted, lane, handoff>>

WakeWaiter(a) ==
    /\ actor[a].pc = "asleep"
    /\ actor[a].woken
    /\ actor' = [actor EXCEPT ![a].pc = "await", ![a].woken = FALSE]
    /\ UNCHANGED <<cell, service, projection, fences, counted, lane, handoff>>

-----------------------------------------------------------------------------
(* A change of authority behind the fence.                                 *)

Goto(h, pc) == handoff' = [handoff EXCEPT ![h].pc = pc]

\* prepare_delegation and prepare_owner: what the candidate expects to replace.
Prepare(h, kind) ==
    /\ handoff[h].pc = "idle"
    /\ kind \in {"delegate", "restore"}
    /\ current # NoStamp
    /\ kind = "restore" => current.guest
    /\ CanReserve
    /\ handoff' = [handoff EXCEPT ![h] =
          [pc |-> "lane", kind |-> kind, expected |-> current, woken |-> FALSE,
           stamp |-> [epoch |-> next, guest |-> kind = "delegate"]]]
    /\ next' = next + 1
    /\ UNCHANGED <<current, through, era, overtaken, service, projection, fences, counted, lane, actor>>

BeginShutdown(h) ==
    /\ handoff[h].pc = "idle"
    /\ CanReserve
    /\ handoff' = [handoff EXCEPT ![h].pc = "lane", ![h].kind = "shutdown"]
    /\ UNCHANGED <<cell, service, projection, fences, counted, lane, actor>>

TakeLane(h) ==
    /\ handoff[h].pc = "lane"
    /\ lane = NoOne
    /\ lane' = h
    /\ Goto(h, "check")
    /\ UNCHANGED <<cell, service, projection, fences, counted, actor>>

StillExpected(h) == handoff[h].kind = "shutdown" \/ current = handoff[h].expected

\* Faulty variant: the fence is lowered again by everyone who found it not raised.
RaiseNoFence(h) ==
    /\ handoff[h].pc = "check"
    /\ IF StillExpected(h)
       THEN fences' = fences + 1 /\ Goto(h, "register")
       ELSE fences' = fences /\ Goto(h, "lower")
    /\ UNCHANGED <<cell, service, projection, counted, lane, actor>>

RaiseFence(h) ==
    /\ handoff[h].pc = "check"
    /\ IF StillExpected(h)
       THEN fences' = fences + 1 /\ Goto(h, "register")
       ELSE fences' = fences /\ Goto(h, "unlock")
    /\ UNCHANGED <<cell, service, projection, counted, lane, actor>>

\* wait_for_actions_drained: register, look, sleep.
RegisterDrain(h) ==
    /\ handoff[h].pc = "register"
    /\ Goto(h, "drain")
    /\ UNCHANGED <<cell, service, projection, fences, counted, lane, actor>>

Drain(h) ==
    /\ handoff[h].pc = "drain"
    /\ handoff' = [handoff EXCEPT ![h] = IF counted = {} THEN [@ EXCEPT !.pc = "drained", !.woken = FALSE]
                                         ELSE [@ EXCEPT !.pc = "drowsy"]]
    /\ UNCHANGED <<cell, service, projection, fences, counted, lane, actor>>

SleepDrain(h) ==
    /\ handoff[h].pc = "drowsy"
    /\ Goto(h, "asleep")
    /\ UNCHANGED <<cell, service, projection, fences, counted, lane, actor>>

WakeDrain(h) ==
    /\ handoff[h].pc = "asleep"
    /\ handoff[h].woken
    /\ handoff' = [handoff EXCEPT ![h].pc = "register", ![h].woken = FALSE]
    /\ UNCHANGED <<cell, service, projection, fences, counted, lane, actor>>

\* The second check of acquire_transition_guard_and_fence: its error drops the
\* fence, then the guard.
Revalidate(h) ==
    /\ handoff[h].pc = "drained"
    /\ Goto(h, IF ~StillExpected(h) THEN "lower"
               ELSE IF handoff[h].kind = "shutdown" THEN "hide" ELSE "commit")
    /\ UNCHANGED <<cell, service, projection, fences, counted, lane, actor>>

\* validate_delegation fails, is cancelled, or finds another authority: the
\* candidate is discarded, guard first, fence second.
Discard(h) ==
    /\ handoff[h].pc = "commit"
    /\ \/ handoff[h].kind = "delegate"
       \/ current # handoff[h].expected
       \/ runtime # handoff[h].expected
    /\ Goto(h, "discard")
    /\ UNCHANGED <<cell, service, projection, fences, counted, lane, actor>>

Commit(h) ==
    /\ handoff[h].pc = "commit"
    /\ inner = NoOne
    /\ current = handoff[h].expected
    /\ runtime = handoff[h].expected
    /\ inner' = h
    /\ Goto(h, "hide")
    /\ UNCHANGED <<cell, runtime, projection, fences, counted, lane, actor>>

\* Faulty variant: the old session stays on the wire until the new one is known.
HideNothing(h) ==
    /\ handoff[h].pc = "hide"
    /\ slot = NoOne
    /\ slot' = h
    /\ Goto(h, IF handoff[h].kind = "shutdown" THEN "clear" ELSE "install")
    /\ UNCHANGED <<cell, service, installed, shown, fences, counted, lane, actor>>

\* Fail closed: the LAN shows nothing while the authority is being replaced.
Hide(h) ==
    /\ handoff[h].pc = "hide"
    /\ slot = NoOne
    /\ slot' = h
    /\ shown' = NoStamp
    /\ Goto(h, IF handoff[h].kind = "shutdown" THEN "clear" ELSE "install")
    /\ UNCHANGED <<cell, service, installed, fences, counted, lane, actor>>

Outside(h) == handoff[h].kind \in {"connect", "retire"}

Install(h) ==
    /\ handoff[h].pc = "install"
    /\ Newer(handoff[h].stamp)
    /\ Become(handoff[h].stamp, handoff[h].stamp.epoch)
    /\ overtaken' = overtaken \cup 1..(handoff[h].stamp.epoch - 1)
    /\ Goto(h, "show")
    /\ UNCHANGED <<next, service, projection, fences, counted, lane, actor>>

\* Overtaken: the old session is shown again if its authority is still current.
InstallRefused(h) ==
    /\ handoff[h].pc = "install"
    /\ ~Newer(handoff[h].stamp)
    /\ installed' = IF installed.stamp = current THEN installed
                    ELSE [stamp |-> NoStamp, session |-> FALSE]
    /\ shown' = IF installed.stamp = current /\ installed.session THEN current ELSE NoStamp
    /\ slot' = NoOne
    /\ inner' = NoOne
    /\ handoff' = [handoff EXCEPT ![h] =
          IF Outside(h) THEN IdleHandoff ELSE [@ EXCEPT !.pc = "discard"]]
    /\ UNCHANGED <<cell, runtime, fences, counted, lane, actor>>

\* A handoff knows its session; the initial owner waits for its SESSION_STATE.
Show(h) ==
    /\ handoff[h].pc = "show"
    /\ installed' = [stamp |-> handoff[h].stamp, session |-> ~Outside(h)]
    /\ shown' = IF Outside(h) THEN NoStamp ELSE handoff[h].stamp
    /\ slot' = NoOne
    /\ inner' = NoOne
    /\ runtime' = handoff[h].stamp
    /\ handoff' = [handoff EXCEPT ![h] =
          IF Outside(h) THEN IdleHandoff ELSE [@ EXCEPT !.pc = "lower"]]
    /\ UNCHANGED <<cell, fences, counted, lane, actor>>

\* clear: reserve the fence epoch, then take the authority.
ReserveClear(h) ==
    /\ handoff[h].pc = "clear"
    /\ handoff' = [handoff EXCEPT ![h].pc = "take",
                       ![h].stamp = [epoch |-> next, guest |-> FALSE]]
    /\ next' = next + 1
    /\ UNCHANGED <<current, through, era, overtaken, service, projection, fences, counted, lane, actor>>

TakeAuthority(h) ==
    /\ handoff[h].pc = "take"
    /\ Become(NoStamp, Raised(handoff[h].stamp.epoch))
    /\ overtaken' = overtaken \cup 1..handoff[h].stamp.epoch \cup {current.epoch}
    /\ installed' = [stamp |-> NoStamp, session |-> FALSE]
    /\ slot' = NoOne
    /\ Goto(h, "take runtime")
    /\ UNCHANGED <<next, service, shown, fences, counted, lane, actor>>

\* The runtime goes too: a shutdown takes whatever is there, under the lock; a
\* failed connect still holds it; an exhausted loop took its own before.
TakeRuntime(h) ==
    /\ handoff[h].pc = "take runtime"
    /\ inner = h \/ Outside(h) \/ inner = NoOne
    /\ inner' = IF inner = h THEN NoOne ELSE inner
    /\ runtime' = IF inner = h \/ ~Outside(h) THEN NoStamp ELSE runtime
    /\ handoff' = [handoff EXCEPT ![h] =
          IF Outside(h) THEN IdleHandoff ELSE [@ EXCEPT !.pc = "lower"]]
    /\ UNCHANGED <<cell, projection, fences, counted, lane, actor>>

\* DeferredActivationRelease: the fence, the runtime's start, then the guard.
LowerFence(h) ==
    /\ handoff[h].pc \in {"lower", "lower last"}
    /\ fences' = fences - 1
    /\ actor' = IF fences = 1 THEN ResumeAll ELSE actor
    /\ handoff' = [handoff EXCEPT ![h] =
          IF @.pc = "lower last" THEN IdleHandoff ELSE [@ EXCEPT !.pc = "unlock"]]
    /\ UNCHANGED <<cell, service, projection, counted, lane>>

Unlock(h) ==
    /\ handoff[h].pc \in {"unlock", "discard"}
    /\ lane' = NoOne
    /\ handoff' = [handoff EXCEPT ![h] =
          IF @.pc = "unlock" THEN IdleHandoff ELSE [@ EXCEPT !.pc = "lower last"]]
    /\ UNCHANGED <<cell, service, projection, fences, counted, actor>>

-----------------------------------------------------------------------------
(* Changes of authority outside the fence.                                 *)

\* connect installs the initial owner when there is no runtime.
BeginConnect(h) ==
    /\ handoff[h].pc = "idle"
    /\ runtime = NoStamp
    /\ CanReserve
    /\ handoff' = [handoff EXCEPT ![h] =
          [pc |-> "owner install", kind |-> "connect", expected |-> NoStamp, woken |-> FALSE,
           stamp |-> [epoch |-> next, guest |-> FALSE]]]
    /\ next' = next + 1
    /\ UNCHANGED <<current, through, era, overtaken, service, projection, fences, counted, lane, actor>>

ConnectInstall(h) ==
    /\ handoff[h].pc = "owner install"
    /\ inner = NoOne
    /\ IF runtime = NoStamp
       THEN inner' = h /\ Goto(h, "hide")
       ELSE inner' = inner /\ handoff' = [handoff EXCEPT ![h] = IdleHandoff]
    /\ UNCHANGED <<cell, runtime, projection, fences, counted, lane, actor>>

\* A failed connect, or an owner loop whose reconnects are exhausted, retires
\* exactly its own runtime.
BeginRetire(h) ==
    /\ handoff[h].pc = "idle"
    /\ runtime # NoStamp /\ ~runtime.guest
    /\ CanReserve
    /\ handoff' = [handoff EXCEPT ![h].pc = "retire runtime", ![h].kind = "retire",
                       ![h].expected = runtime]
    /\ UNCHANGED <<cell, service, projection, fences, counted, lane, actor>>

\* Under the inner lock: the connect keeps it until the authority is cleared,
\* the loop takes its runtime out and lets go.
RetireRuntime(h) ==
    /\ handoff[h].pc = "retire runtime"
    /\ inner = NoOne
    /\ \/ /\ runtime # handoff[h].expected
          /\ handoff' = [handoff EXCEPT ![h] = IdleHandoff]
          /\ UNCHANGED service
       \/ /\ runtime = handoff[h].expected
          /\ Goto(h, "retire")
          /\ \/ inner' = h /\ runtime' = runtime
             \/ inner' = inner /\ runtime' = NoStamp
    /\ UNCHANGED <<cell, projection, fences, counted, lane, actor>>

\* clear_if_current: a replacement is left alone.
Retire(h) ==
    /\ handoff[h].pc = "retire"
    /\ slot = NoOne
    /\ IF current = handoff[h].expected
       THEN /\ slot' = h
            /\ shown' = NoStamp
            /\ Goto(h, "clear")
       ELSE /\ UNCHANGED <<slot, shown>>
            /\ Goto(h, "take runtime")
    /\ UNCHANGED <<cell, service, installed, fences, counted, lane, actor>>

\* The owner's SESSION_STATE arrives for the runtime with this stamp.
ConfirmOwnerSession ==
    /\ slot = NoOne
    /\ current # NoStamp /\ ~current.guest
    /\ installed.stamp = current
    /\ installed' = [installed EXCEPT !.session = TRUE]
    /\ shown' = current
    /\ UNCHANGED <<cell, service, slot, fences, counted, lane, actor, handoff>>

-----------------------------------------------------------------------------
Ongoing(a) == \/ FirstLook(a) \/ Observe(a) \/ CountIn(a) \/ SecondLook(a)
              \/ Admit(a) \/ Reject(a) \/ CountOut(a) \/ NotifyDrained(a)
              \/ RegisterWaiter(a) \/ LookThenSleep(a) \/ FallAsleep(a)
              \/ WakeWaiter(a)

Changing(h) == \/ TakeLane(h) \/ RaiseFence(h) \/ RegisterDrain(h) \/ Drain(h) \/ SleepDrain(h)
               \/ WakeDrain(h) \/ Revalidate(h) \/ Discard(h) \/ Commit(h)
               \/ Hide(h) \/ Install(h) \/ InstallRefused(h) \/ Show(h)
               \/ ReserveClear(h) \/ TakeAuthority(h) \/ TakeRuntime(h)
               \/ LowerFence(h) \/ Unlock(h)
               \/ ConnectInstall(h) \/ RetireRuntime(h) \/ Retire(h)

Starting(h) == \/ \E kind \in Changes : Prepare(h, kind)
               \/ "shutdown" \in Changes /\ BeginShutdown(h)
               \/ "connect" \in Changes /\ BeginConnect(h)
               \/ "retire" \in Changes /\ BeginRetire(h)

Next == \/ \E a \in Actors : Ongoing(a) \/ \E kind \in Kinds : Ask(a, kind)
        \/ \E h \in Handoffs : Starting(h) \/ Changing(h)
        \/ ConfirmOwnerSession

Spec == Init /\ [][Next]_vars

\* An admitted action ends and a task that runs goes on; the lane is a tokio
\* mutex, which is fair.  Nobody has to ask, and nobody has to start a change.
Fairness == /\ \A a \in Actors : WF_vars(Ongoing(a))
            /\ \A h \in Handoffs : WF_vars(Changing(h)) /\ SF_vars(TakeLane(h))

FairSpec == Spec /\ Fairness

-----------------------------------------------------------------------------
(* Properties.                                                             *)

ActorPcs == {"idle", "look", "observe", "count", "relook", "confirm", "acting", "leave",
             "notify", "await", "await look", "drowsy", "asleep"}
HandoffPcs == {"idle", "lane", "check", "register", "drain", "drowsy", "asleep", "drained", "commit",
               "hide", "install", "show", "clear", "take", "lower", "lower last", "unlock",
               "discard", "owner install", "retire", "retire runtime", "take runtime"}

Actor == [pc : ActorPcs, kind : {"owner", "exact", "transport", "runtime"},
          seen : [current : Stamps, through : Nat],
          token : [current : Stamps, through : Nat, era : Nat],
          woken : BOOLEAN, then : {"idle", "await"}]
Handoff == [pc : HandoffPcs, kind : {"delegate", "restore", "shutdown", "connect", "retire"},
            expected : Stamps, stamp : Stamps, woken : BOOLEAN]

\* Every variable has its type: the fence count never underflows.
TypeOK ==
    /\ next \in Nat /\ through \in Nat /\ fences \in Nat /\ era \in Nat
    /\ current \in Stamps /\ runtime \in Stamps /\ shown \in Stamps
    /\ installed \in [stamp : Stamps, session : BOOLEAN]
    /\ counted \subseteq Actors
    /\ overtaken \subseteq Nat
    /\ {lane, inner, slot} \subseteq Handoffs \cup {NoOne}
    /\ actor \in [Actors -> Actor]
    /\ handoff \in [Handoffs -> Handoff]

\* Behind the drain: the fence is up and every older permit has been returned.
Drained(h) == /\ ~Outside(h)
              /\ handoff[h].pc \in {"drained", "commit", "hide", "install", "show",
                                    "clear", "take", "take runtime", "lower"}

\* While a handoff captures, restores or replaces, no admitted action runs: an
\* increment is either seen by the drain or rolled back before it acts.
NobodyActsDuringHandoff ==
    \A h \in Handoffs, a \in Actors : Drained(h) => actor[a].pc # "acting"

\* Work of the owner never runs while a guest has the authority, and work of a
\* guest's runtime never after that guest lost it.
ActsForItsAuthority ==
    \A a \in Actors : actor[a].pc = "acting" =>
        /\ actor[a].kind \in {"owner", "exact"} => ~current.guest
        /\ actor[a].kind = "runtime" /\ actor[a].seen.current.guest
              => current = actor[a].seen.current

\* A stamp that was replaced, or reserved before a clear, is never current
\* (again): a late candidate cannot win.
OvertakenStaysOut == current # NoStamp => current.epoch \notin overtaken

\* The LAN never shows the session of anything but the current authority, not
\* even between the steps of an install or of a clear.
LanShowsCurrent == shown # NoStamp => shown = current

\* An exact permit is granted only if the authority never changed since its
\* token was minted, not even to something else and back.
TokensAreExact ==
    [][\A a \in Actors :
          actor[a].pc = "confirm" /\ actor'[a].pc = "acting" /\ actor[a].kind = "exact"
             => actor[a].token.era = era]_vars

\* A handoff that closed admission finishes: the drain is always notified.
HandoffsEnd == \A h \in Handoffs : fences > 0 /\ lane = h ~> lane # h

\* An exact continuation that waits behind a fence is always resumed.
WaitersResume == \A a \in Actors : actor[a].pc = "asleep" ~> actor[a].pc # "asleep"
=============================================================================
