-------------------------- MODULE QconnectApp_proofs --------------------------
(***************************************************************************)
(* What holds of the pending-action slot for every set of uuids, every     *)
(* choice of the commands callers use and every bound on the inbox.        *)
(*                                                                         *)
(* The argument: the owner of the slot went through Admit (OwnerIsGenuine) *)
(* and its call is therefore the one that will spawn the watch or clear    *)
(* the slot (HeldSlotIsWatched); having had no verdict yet, it is settled  *)
(* at most once, which is what the abstract lifecycle asks for.            *)
(***************************************************************************)
EXTENDS QconnectApp, TLAPS

\* HeldSlotIsWatched alone is not inductive: when a send ends, only
\* OwnerIsGenuine tells whether the call that ends owns the slot.
IndInv == TypeOK /\ HeldSlotIsWatched /\ OwnerIsGenuine

\* What Admit establishes, whoever calls it (send_queue_command under its
\* first lock): types, and an owner that is genuine and on its way.
LEMMA AdmitLemma ==
    ASSUME IndInv, NEW u \in Uuids, NEW k \in Kinds, NEW style \in Styles,
           Admit(u, k, style), ~Holds(u), UNCHANGED <<timers, life>>
    PROVE  /\ slot' \in Action \cup {NoAction}
           /\ calls' \in [Uuids -> Call]
           /\ verdict' \in [Uuids -> {"none", "completed", "canceled", "timedOut"}]
           /\ HeldSlotIsWatched' /\ OwnerIsGenuine'
<1> USE UuidAssumption DEF IndInv, TypeOK, Action, Call, Admit, Holds
<1>1. slot' \in Action \cup {NoAction}
  OBVIOUS
<1>2. calls' \in [Uuids -> Call]
  BY DEF Steps, Bypass, ReadPending
<1>3. verdict' \in [Uuids -> {"none", "completed", "canceled", "timedOut"}]
  OBVIOUS
<1>4. HeldSlotIsWatched'
  BY <1>1, <1>2 DEF HeldSlotIsWatched
<1>5. OwnerIsGenuine'
  BY <1>1, <1>2 DEF OwnerIsGenuine, Steps
<1> QED
  BY <1>1, <1>2, <1>3, <1>4, <1>5

\* The web socket, the server and what the loop reads from them touch neither
\* the slot nor anything that watches it.
LEMMA OutsideLemma ==
    ASSUME LinkStep \/ ServerStep
    PROVE  UNCHANGED <<slot, calls, timers, lapsed, canceled, loop, life, verdict>>
  BY DEF LinkStep, ServerStep, LinkDrops, LinkReconnects, LinkGivesUp, Transmit, Answer,
         ForeignEvent

LEMMA InitInv == Init => IndInv
  BY UuidAssumption
  DEF Init, IndInv, TypeOK, HeldSlotIsWatched, OwnerIsGenuine, Holds, Call, Idle,
      Steps, Kinds, Styles, Event

LEMMA OutsideStep == ASSUME IndInv, LinkStep \/ ServerStep PROVE IndInv'
<1> USE DEF IndInv, TypeOK
<1>1. /\ wire' \subseteq Sent /\ link' \in {"up", "down", "dead"}
      /\ inbox' \in Seq(Event)
  <2>1. CASE LinkDrops
    BY <2>1 DEF LinkDrops, Deliver, Event
  <2>2. CASE LinkReconnects \/ LinkGivesUp
    BY <2>2 DEF LinkReconnects, LinkGivesUp
  <2>3. ASSUME NEW s \in wire, Transmit(s) PROVE <1>1!:
    BY <2>3 DEF Transmit, Sent
  <2>4. ASSUME NEW s \in wire, Answer(s) PROVE <1>1!:
    BY <2>4 DEF Answer, Answers, Deliver, Event, Sent, SessionTypes, QueueTypes
  <2>5. ASSUME NEW type \in ForeignTypes, ForeignEvent(type) PROVE <1>1!:
    BY <2>5, KindAssumption DEF ForeignEvent, Deliver, Event
  <2> QED
    BY <2>1, <2>2, <2>3, <2>4, <2>5 DEF LinkStep, ServerStep
<1> QED
  BY <1>1, OutsideLemma DEF HeldSlotIsWatched, OwnerIsGenuine, Holds

LEMMA CallerInv == ASSUME IndInv, NEW u \in Uuids, CallerStep(u) PROVE IndInv'
<1>1. ASSUME NEW k \in Kinds, SendQueueCommand(u, k) \/ SendOneShot(u, k) PROVE IndInv'
  BY <1>1, AdmitLemma DEF SendQueueCommand, SendOneShot, Fresh, Styles, IndInv, TypeOK
<1>2. CASE EvictTransportControl(u)
  <2>1. TypeOK'
    BY <1>2 DEF EvictTransportControl, IndInv, TypeOK, Call, Steps, Kinds, Controls, Styles
  <2>2. HeldSlotIsWatched' /\ OwnerIsGenuine'
    BY <1>2 DEF EvictTransportControl, Fresh, Holds, IndInv, TypeOK, Action,
                HeldSlotIsWatched, OwnerIsGenuine
  <2> QED
    BY <2>1, <2>2 DEF IndInv
<1> QED
  BY <1>1, <1>2 DEF CallerStep

LEMMA CallInv == ASSUME IndInv, NEW u \in Uuids, CallStep(u) PROVE IndInv'
<1> USE DEF IndInv, TypeOK, Holds, SlotAfterClear, LoopAfter
<1>1. CASE SendSetActiveRenderer(u)
  BY <1>1, AdmitLemma
  DEF SendSetActiveRenderer, OwnerIsGenuine, Kinds, Controls, Styles
<1>2. CASE RefuseSetActiveRenderer(u)
  <2>1. TypeOK'
    BY <1>2 DEF RefuseSetActiveRenderer, Call, Idle, Steps, Kinds, Styles
  <2>2. HeldSlotIsWatched' /\ OwnerIsGenuine'
    BY <1>2 DEF RefuseSetActiveRenderer, Idle, Action, HeldSlotIsWatched, OwnerIsGenuine
  <2> QED
    BY <2>1, <2>2
<1>3. CASE SendOk(u)
  <2>1. TypeOK'
    BY <1>3 DEF SendOk, Call, Idle, Sent, Steps, Kinds, Styles
  <2>2. HeldSlotIsWatched' /\ OwnerIsGenuine'
    BY <1>3 DEF SendOk, TransportUp, Idle, Call, Action, HeldSlotIsWatched, OwnerIsGenuine
  <2> QED
    BY <2>1, <2>2
<1>4. CASE SendErr(u)
  <2>1. TypeOK'
    BY <1>4 DEF SendErr, Call, Idle, Steps, Kinds, Styles
  <2>2. HeldSlotIsWatched' /\ OwnerIsGenuine'
    BY <1>4 DEF SendErr, Idle, Action, HeldSlotIsWatched, OwnerIsGenuine
  <2> QED
    BY <2>1, <2>2
<1>5. CASE SpawnWatch(u)
  <2>1. TypeOK'
    BY <1>5 DEF SpawnWatch, Call, Idle, Steps, Kinds, Styles
  <2>2. HeldSlotIsWatched' /\ OwnerIsGenuine'
    BY <1>5 DEF SpawnWatch, Accepting, Idle, Call, Action, HeldSlotIsWatched, OwnerIsGenuine
  <2> QED
    BY <2>1, <2>2
<1>6. CASE ReleaseOneShot(u)
  <2>1. TypeOK'
    BY <1>6 DEF ReleaseOneShot, Call, Idle, Steps, Kinds, Styles
  <2>2. HeldSlotIsWatched' /\ OwnerIsGenuine'
    BY <1>6 DEF ReleaseOneShot, Idle, Action, HeldSlotIsWatched, OwnerIsGenuine
  <2> QED
    BY <2>1, <2>2
<1> QED
  BY <1>1, <1>2, <1>3, <1>4, <1>5, <1>6 DEF CallStep

LEMMA WatchInv == ASSUME IndInv, NEW u \in Uuids, WatchStep(u) PROVE IndInv'
<1>1. CASE WatchExpires(u)
  BY <1>1 DEF WatchExpires, SlotAfterClear, Holds, IndInv, TypeOK, Action,
              HeldSlotIsWatched, OwnerIsGenuine
<1>2. CASE ResyncAfterTimeout(u)
  <2>1. CASE UNCHANGED <<slot, calls, verdict>>
    BY <1>2, <2>1 DEF ResyncAfterTimeout, Holds, IndInv, TypeOK, HeldSlotIsWatched,
                      OwnerIsGenuine
  <2>2. ASSUME NEW v \in Uuids, Fresh(v), Admit(v, Read, "timerResync") PROVE IndInv'
    BY <1>2, <2>2, AdmitLemma
    DEF ResyncAfterTimeout, Fresh, Kinds, Styles, IndInv, TypeOK
  <2> QED
    BY <1>2, <2>1, <2>2 DEF ResyncAfterTimeout
<1> QED
  BY <1>1, <1>2 DEF WatchStep

LEMMA LoopInv == ASSUME IndInv, LoopStep PROVE IndInv'
<1>1. CASE ResyncAfterEvent
  <2>1. CASE UNCHANGED <<slot, calls, verdict>>
    BY <1>1, <2>1 DEF ResyncAfterEvent, Holds, IndInv, TypeOK, HeldSlotIsWatched,
                      OwnerIsGenuine
  <2>2. ASSUME NEW v \in Uuids, Fresh(v), Admit(v, Read, "loopResync") PROVE IndInv'
    BY <1>1, <2>2, AdmitLemma
    DEF ResyncAfterEvent, Fresh, Kinds, Styles, IndInv, TypeOK
  <2> QED
    BY <1>1, <2>1, <2>2 DEF ResyncAfterEvent
<1>2. CASE HandleSessionEvent \/ HandleQueueEvent \/ HandleDisconnected
  <2>1. /\ inbox' \in Seq(Event)
        /\ slot' \in {slot, NoAction}
        /\ UNCHANGED <<calls, timers, lapsed, wire, link, life>>
    BY <1>2 DEF HandleSessionEvent, HandleQueueEvent, HandleDisconnected, IndInv, TypeOK
  <2>2. slot' = slot => verdict' = verdict
    BY <1>2 DEF HandleSessionEvent, HandleQueueEvent, HandleDisconnected,
                SessionEventCompletes, Completes, Overtakes, RejectsLoad, Correlate
  <2>3. TypeOK'
    BY <1>2, <2>1 DEF HandleSessionEvent, HandleQueueEvent, HandleDisconnected, IndInv,
       TypeOK, Action, Event, Correlate, Overtakes, CanceledAfter, SessionEventCompletes,
       SessionTypes, QueueTypes
  <2>4. HeldSlotIsWatched' /\ OwnerIsGenuine'
    BY <2>1, <2>2 DEF IndInv, HeldSlotIsWatched, OwnerIsGenuine, Holds
  <2> QED
    BY <2>3, <2>4 DEF IndInv
<1> QED
  BY <1>1, <1>2 DEF LoopStep

LEMMA DisconnectInv == ASSUME IndInv, AbortTasks \/ DisconnectStep PROVE IndInv'
<1> USE DEF IndInv, TypeOK, Holds, HeldSlotIsWatched, OwnerIsGenuine
<1>1. CASE AbortTasks
  BY <1>1 DEF AbortTasks, Call, Idle, Steps, Kinds, Styles, Action
<1>2. CASE CloseTransport
  BY <1>2 DEF CloseTransport, Event
<1>3. CASE ClearOnDisconnect
  BY <1>3 DEF ClearOnDisconnect
<1> QED
  BY <1>1, <1>2, <1>3 DEF DisconnectStep

LEMMA StutterInv == ASSUME IndInv, UNCHANGED vars PROVE IndInv'
  BY DEF vars, IndInv, TypeOK, HeldSlotIsWatched, OwnerIsGenuine, Holds

\* The inductive invariant holds of every reachable state.
THEOREM Invariance == Spec => []IndInv
<1>1. Init => IndInv
  BY InitInv
<1>2. IndInv /\ [Next]_vars => IndInv'
  BY CallerInv, CallInv, WatchInv, LoopInv, DisconnectInv, OutsideStep, StutterInv DEF Next
<1> QED
  BY <1>1, <1>2, PTL DEF Spec

\* Type correctness of the slot, the calls, the timers and the inbox.
THEOREM TypeCorrect == Spec => []TypeOK
<1>1. IndInv => TypeOK
  BY DEF IndInv
<1> QED
  BY <1>1, Invariance, PTL

\* Whatever callers, timers, the session loop and disconnect do, an owned slot
\* is on its way to be freed (send_queue_command, own_background_task).
THEOREM Watched == Spec => []HeldSlotIsWatched
<1>1. IndInv => HeldSlotIsWatched
  BY DEF IndInv
<1> QED
  BY <1>1, Invariance, PTL

\* Only an action that went through Admit and was told nothing yet owns the
\* slot (send_queue_command, clear_pending_if_matches).
THEOREM Genuine == Spec => []OwnerIsGenuine
<1>1. IndInv => OwnerIsGenuine
  BY DEF IndInv
<1> QED
  BY <1>1, Invariance, PTL
-------------------------------------------------------------------------------
(* The slot implements the abstract lifecycle *)

AbstractStep == [Lifecycle!LifecycleNext]_(Lifecycle!lifecycleVars)

LEMMA OwnerIsUuid ==
    ASSUME TypeOK
    PROVE  /\ Owner = NoAction <=> slot = NoAction
           /\ \A u \in Uuids : Owner = u <=> Holds(u)
  BY UuidAssumption DEF Owner, Holds, TypeOK, Action

\* Taking the slot is Reserve, going beside it is GoAround.
LEMMA AdmitRefines ==
    ASSUME TypeOK, TypeOK', NEW u \in Uuids, NEW k \in Kinds, NEW style \in Styles,
           Admit(u, k, style), ~Holds(u)
    PROVE  AbstractStep
<1>1. CASE Bypass(k)
  <2>1. Lifecycle!GoAround(u)
    BY <1>1, OwnerIsUuid DEF Admit, Owner, Lifecycle!GoAround
  <2> QED
    BY <2>1 DEF AbstractStep, Lifecycle!LifecycleNext
<1>2. CASE ~Bypass(k)
  <2>1. Lifecycle!Reserve(u)
    BY <1>2, UuidAssumption DEF Admit, Owner, Lifecycle!Reserve, TypeOK, Action
  <2> QED
    BY <2>1 DEF AbstractStep, Lifecycle!LifecycleNext
<1> QED
  BY <1>1, <1>2

\* Clearing the slot, or leaving it alone, without a word to the caller.
LEMMA WithdrawRefines ==
    ASSUME TypeOK, slot' \in {slot, NoAction}, verdict' = verdict
    PROVE  AbstractStep
<1>1. CASE slot' = slot
  BY <1>1 DEF AbstractStep, Lifecycle!lifecycleVars, Owner
<1>2. CASE slot # NoAction /\ slot' = NoAction
  <2>1. Lifecycle!Withdraw
    BY <1>2, OwnerIsUuid DEF Lifecycle!Withdraw, Owner
  <2> QED
    BY <2>1 DEF AbstractStep, Lifecycle!LifecycleNext
<1> QED
  BY <1>1, <1>2

\* A verdict goes to the owner, and takes the slot from it.
LEMMA SettleRefines ==
    ASSUME IndInv, slot # NoAction, slot' = NoAction,
           NEW v \in {"completed", "canceled", "timedOut"},
           verdict' = [verdict EXCEPT ![slot.uuid] = v]
    PROVE  AbstractStep
<1>1. slot.uuid \in Uuids /\ Holds(slot.uuid)
  BY DEF IndInv, TypeOK, Action, Holds
<1>2. Lifecycle!Settle(slot.uuid, v)
  BY <1>1 DEF Lifecycle!Settle, Owner, IndInv, OwnerIsGenuine
<1> QED
  BY <1>1, <1>2 DEF AbstractStep, Lifecycle!LifecycleNext, Lifecycle!Verdicts

LEMMA StepRefines == ASSUME IndInv, IndInv', [Next]_vars PROVE AbstractStep
<1> USE DEF IndInv
<1>1. ASSUME NEW u \in Uuids, CallerStep(u) PROVE AbstractStep
  <2>1. CASE EvictTransportControl(u)
    BY <2>1, WithdrawRefines DEF EvictTransportControl
  <2>2. CASE \E k \in Kinds : SendQueueCommand(u, k) \/ SendOneShot(u, k)
    BY <2>2, AdmitRefines DEF SendQueueCommand, SendOneShot, Fresh, Styles
  <2> QED
    BY <1>1, <2>1, <2>2 DEF CallerStep
<1>2. ASSUME NEW u \in Uuids, CallStep(u) PROVE AbstractStep
  <2>1. CASE SendSetActiveRenderer(u)
    <3>1. ~Holds(u)
      BY <2>1 DEF SendSetActiveRenderer, OwnerIsGenuine
    <3> QED
      BY <2>1, <3>1, AdmitRefines DEF SendSetActiveRenderer, Kinds, Controls, Styles
  <2>2. CASE ~SendSetActiveRenderer(u)
    <3>1. slot' \in {slot, NoAction} /\ verdict' = verdict
      BY <1>2, <2>2 DEF CallStep, RefuseSetActiveRenderer, SendOk, SendErr, SpawnWatch,
                        ReleaseOneShot, SlotAfterClear
    <3> QED
      BY <3>1, WithdrawRefines
  <2> QED
    BY <2>1, <2>2
<1>3. ASSUME NEW u \in Uuids, WatchStep(u) PROVE AbstractStep
  <2>1. CASE WatchExpires(u) /\ Holds(u)
    BY <2>1, SettleRefines DEF WatchExpires, SlotAfterClear, Holds
  <2>2. CASE WatchExpires(u) /\ ~Holds(u)
    BY <2>2, WithdrawRefines DEF WatchExpires, SlotAfterClear
  <2>3. CASE ResyncAfterTimeout(u)
    BY <2>3, AdmitRefines, WithdrawRefines
    DEF ResyncAfterTimeout, Fresh, Kinds, Styles
  <2> QED
    BY <1>3, <2>1, <2>2, <2>3 DEF WatchStep
<1>4. CASE LoopStep
  <2>1. CASE ResyncAfterEvent
    BY <2>1, AdmitRefines, WithdrawRefines DEF ResyncAfterEvent, Fresh, Kinds, Styles
  <2>2. CASE HandleDisconnected
    BY <2>2, WithdrawRefines DEF HandleDisconnected
  <2>3. CASE HandleSessionEvent
    BY <2>3, SettleRefines, WithdrawRefines
    DEF HandleSessionEvent, Correlate, SessionEventCompletes
  <2>4. CASE HandleQueueEvent
    BY <2>4, SettleRefines, WithdrawRefines
    DEF HandleQueueEvent, Completes, Overtakes, RejectsLoad, Correlate
  <2> QED
    BY <1>4, <2>1, <2>2, <2>3, <2>4 DEF LoopStep
<1>5. CASE AbortTasks \/ DisconnectStep
  BY <1>5, WithdrawRefines DEF AbortTasks, DisconnectStep, CloseTransport, ClearOnDisconnect
<1>6. CASE LinkStep \/ ServerStep \/ UNCHANGED vars
  BY <1>6, WithdrawRefines, OutsideLemma DEF vars
<1> QED
  BY <1>1, <1>2, <1>3, <1>4, <1>5, <1>6 DEF Next

\* The pending slot implements ActionLifecycle: whatever the server, the
\* timers, the callers and disconnect do, the slot is never handed over and
\* an action has at most one verdict.
THEOREM Refinement == Spec => LifecycleRefined
<1>1. Init => Lifecycle!LifecycleInit
  BY DEF Init, Lifecycle!LifecycleInit, Owner
<1>2. IndInv /\ IndInv' /\ [Next]_vars => [Lifecycle!LifecycleNext]_(Lifecycle!lifecycleVars)
  BY StepRefines DEF AbstractStep
<1> QED
  BY <1>1, <1>2, Invariance, PTL DEF Spec, LifecycleRefined, Lifecycle!LifecycleSpec
-------------------------------------------------------------------------------
(* An outstanding snapshot read *)

LEMMA ReadStep ==
    ASSUME TypeOK, ReadPending, slot' # slot, [Next]_vars
    PROVE  ReadReleased
<1> USE DEF ReadPending, ReadReleased, Handled
<1>1. ASSUME NEW u \in Uuids, CallerStep(u) PROVE FALSE
  BY <1>1 DEF CallerStep, SendQueueCommand, SendOneShot, EvictTransportControl, Admit, Bypass,
              Read
<1>2. ASSUME NEW u \in Uuids, CallStep(u) PROVE ReadReleased
  BY <1>2 DEF CallStep, SendSetActiveRenderer, RefuseSetActiveRenderer, SendOk, SendErr,
              SpawnWatch, ReleaseOneShot, Admit, Bypass, SlotAfterClear, Holds, Idle, TypeOK
<1>3. ASSUME NEW u \in Uuids, WatchStep(u) PROVE ReadReleased
  BY <1>3 DEF WatchStep, WatchExpires, ResyncAfterTimeout, Admit, SlotAfterClear, Holds
<1>4. CASE LoopStep
  <2>1. CASE ResyncAfterEvent \/ HandleDisconnected
    BY <2>1 DEF ResyncAfterEvent, HandleDisconnected, Admit
  <2>2. CASE HandleSessionEvent
    BY <2>2 DEF HandleSessionEvent, SessionEventCompletes, Read
  <2>3. CASE HandleQueueEvent
    BY <2>3 DEF HandleQueueEvent, Completes, Overtakes, RejectsLoad, Correlate, Read
  <2> QED
    BY <1>4, <2>1, <2>2, <2>3 DEF LoopStep
<1>5. CASE AbortTasks \/ DisconnectStep
  BY <1>5 DEF AbortTasks, DisconnectStep, CloseTransport, ClearOnDisconnect
<1>6. CASE LinkStep \/ ServerStep \/ UNCHANGED vars
  BY <1>6, OutsideLemma DEF vars
<1> QED
  BY <1>1, <1>2, <1>3, <1>4, <1>5, <1>6 DEF Next

\* On a live connection an outstanding snapshot read is released only by its
\* own reply, its own timeout or its own sender (apply_server_event).
THEOREM ReadSafe == Spec => ReadKeepsItsSlot
<1>1. TypeOK /\ [Next]_vars => [ReadPending /\ slot' # slot => ReadReleased]_vars
  BY ReadStep
<1> QED
  BY <1>1, TypeCorrect, PTL DEF Spec, ReadKeepsItsSlot
===============================================================================
