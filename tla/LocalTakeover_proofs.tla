------------------------- MODULE LocalTakeover_proofs -------------------------
(***************************************************************************)
(* Safety of the takeover arbitration for any number of load uuids.        *)
(***************************************************************************)
EXTENDS LocalTakeover, TLAPS

USE HostAssumption, UuidAssumption

FlagsOK == {audio, conflict, assertion, known, keep} \subseteq BOOLEAN

Armed == [uuid : Uuids, confirmed : BOOLEAN, retry : BOOLEAN]

Fence == Armed \cup {NoFence}

LEMMA ArmedIsFence == Armed \subseteq Fence /\ NoFence \notin Armed /\ NoFence \in Fence
  BY DEF Fence, Armed, NoFence

\* Confirming or rejecting leaves an armed fence armed and no fence as it is.
LEMMA FenceTests ==
  ASSUME NEW f \in Fence, NEW u
  PROVE  /\ Confirmed(f, u) \in Fence /\ (Confirmed(f, u) = NoFence <=> f = NoFence)
         /\ Rejected(f, u) \in Fence /\ (Rejected(f, u) = NoFence <=> f = NoFence)
<1>1. CASE f \in Armed
  <2>1. [f EXCEPT !.confirmed = TRUE] \in Armed
    BY <1>1 DEF Armed
  <2>2. [f EXCEPT !.confirmed = FALSE, !.retry = TRUE] \in Armed
    BY <1>1 DEF Armed
  <2> QED
    BY <1>1, <2>1, <2>2, ArmedIsFence DEF Confirmed, Rejected
<1>2. CASE f = NoFence
  BY <1>2, ArmedIsFence DEF Confirmed, Rejected, NoFence
<1> QED
  BY <1>1, <1>2 DEF Fence

\* What a queue update does to the fences: it keeps an armed fence or turns it
\* into an assertion, and adopts the cloud's queue only where nothing is fenced.
LEMMA QueueUpdatedLemma ==
  ASSUME NEW f \in Fence, NEW ids, QueueUpdated(f, ids), conflict \in BOOLEAN, assertion \in BOOLEAN
  PROVE  /\ conflict' = conflict /\ assertion' \in BOOLEAN /\ fence' \in Fence
         /\ deed' \in {"none", "adopt"}
         /\ deed' = "adopt" => f = NoFence /\ ~conflict
         /\ f = NoFence => fence' = NoFence /\ assertion' = assertion
         /\ f # NoFence => (fence' = NoFence /\ assertion') \/ (fence' # NoFence /\ assertion' = assertion)
<1>1. CASE f = NoFence
  BY <1>1 DEF QueueUpdated, NoFence, Fence
<1>2. CASE f \in Armed
  BY <1>2, ArmedIsFence DEF QueueUpdated, NoFence, Fence, Armed
<1> QED
  BY <1>1, <1>2 DEF Fence
------------------------------------------------------------------------------
(* The invariant *)

SessionOK == active \in Renderers \cup {"none"} /\ playing \subseteq Renderers

LoopOK ==
    /\ loop \in Locals /\ input \in Input
    /\ pc \in {"idle", "apply", "decide", "local", "remote", "auto", "ended"}

LoadsOK == {slot, tick} \subseteq Uuids \cup {NoUuid} /\ unanswered \subseteq Uuids

\* The loop is at a pending takeover only if there is one, and it decides on
\* the session that it captured.
PcOK ==
    /\ pc = "auto" => loop.autoTake
    /\ pc = "local" => loop.localTake # "no"
    /\ pc \in {"apply", "decide"} /\ input.server = "None" => input.active = "none"
    /\ pc = "decide" => active = input.active

\* An idle session is taken only while nothing has been attempted.
GrabsOK == grabs \in {0, 1} /\ (grabs = 1 => loop.attempted /\ ~loop.autoTake)

OneFence == ~(assertion /\ fence # NoFence)

\* In the desktop host a choice to keep local playback is behind some fence, from
\* the conflict that raised it to the assertion that ends it.
KeepFenced == Host = "qt" /\ keep => Fenced

ConflictRaised == Host = "qt" /\ pc \in {"apply", "decide"} /\ Conflict(input) => conflict

KeepOK == KeepFenced /\ ConflictRaised

TakeInv ==
    /\ FlagsOK /\ fence \in Fence /\ SessionOK /\ LoopOK /\ LoadsOK
    /\ deed \in Causes \cup {"none", "adopt"}
    /\ PcOK /\ GrabsOK /\ OneFence /\ KeepOK

LEMMA InitTake == Init => TakeInv
<1> SUFFICES ASSUME Init PROVE TakeInv
  OBVIOUS
<1> USE DEF Init
<1>1. FlagsOK /\ fence \in Fence /\ SessionOK /\ LoadsOK /\ deed \in Causes \cup {"none", "adopt"}
  BY ArmedIsFence DEF FlagsOK, SessionOK, LoadsOK
<1>2. LoopOK
  BY DEF LoopOK, Locals, Input, NoInput, Servers, Renderers
<1> QED
  BY <1>1, <1>2 DEF TakeInv, PcOK, GrabsOK, OneFence, KeepOK, KeepFenced, ConflictRaised

\* Where the loop goes next.
LEMMA AfterLemma ==
  ASSUME NEW l \in Locals
  PROVE  /\ AfterRemote(l) \in {"idle", "auto"} /\ (AfterRemote(l) = "auto" => l.autoTake)
         /\ AfterLocal(l) \in {"idle", "auto", "remote"} /\ (AfterLocal(l) = "auto" => l.autoTake)
         /\ AfterEvent(l) \in {"idle", "auto", "remote", "local"}
         /\ (AfterEvent(l) = "auto" => l.autoTake)
         /\ (AfterEvent(l) = "local" => l.localTake # "no")
  BY DEF AfterRemote, AfterLocal, AfterEvent

\* The assignments to the loop's locals keep their types.
LEMMA LocalsTyped ==
  ASSUME LoopOK
  PROVE  /\ [loop EXCEPT !.joined = TRUE] \in Locals
         /\ [loop EXCEPT !.resolved = TRUE] \in Locals
         /\ [loop EXCEPT !.resolved = TRUE, !.remoteTake = TRUE] \in Locals
         /\ [loop EXCEPT !.resolved = TRUE, !.localTake = "explicit"] \in Locals
         /\ [loop EXCEPT !.localTake = "implicit"] \in Locals
         /\ [loop EXCEPT !.attempted = TRUE] \in Locals
         /\ [loop EXCEPT !.autoTake = TRUE] \in Locals
         /\ [loop EXCEPT !.autoTake = FALSE, !.attempted = TRUE] \in Locals
         /\ [loop EXCEPT !.remoteTake = FALSE] \in Locals
         /\ NotTaken \in Locals /\ [NotTaken EXCEPT !.attempted = TRUE] \in Locals
  BY DEF LoopOK, Locals, NotTaken

\* The loop's locals and place.
LEMMA LoopStep == FlagsOK /\ LoopOK /\ PcOK /\ [Next]_vars => LoopOK' /\ PcOK'
<1> SUFFICES ASSUME FlagsOK, LoopOK, PcOK, [Next]_vars PROVE LoopOK' /\ PcOK'
  OBVIOUS
<1>0. NoInput \in Input
  BY DEF NoInput, Input, Servers, Renderers
<1>1. ASSUME NEW l \in Locals, Event(l) PROVE LoopOK' /\ PcOK'
  BY <1>1, AfterLemma DEF Event, LoopOK, PcOK
<1>2. ASSUME NEW l \in Locals, loop' = l, Decides, pc' \in {AfterEvent(l), "ended"}
      PROVE  LoopOK' /\ PcOK'
  BY <1>0, <1>2, AfterLemma DEF Decides, LoopOK, PcOK
<1>3. ASSUME NEW l \in Locals, loop' = l, input' = input,
             pc' \in {AfterLocal(l), AfterRemote(l), "idle", "ended"}
      PROVE  LoopOK' /\ PcOK'
  BY <1>3, AfterLemma DEF LoopOK, PcOK
<1>4. ASSUME NEW a \in Renderers \cup {"none"}, NEW plays \in BOOLEAN, SessionState(a, plays)
      PROVE  LoopOK' /\ PcOK'
  <2>1. ClassOf(a, plays) \in Servers /\ (ClassOf(a, plays) = "None" => a = "none")
    BY DEF ClassOf, Servers
  <2>2. LocalActive \in BOOLEAN /\ audio \in BOOLEAN
    BY DEF LocalActive, FlagsOK
  <2>3. input' \in Input /\ (input'.server = "None" => input'.active = "none")
    BY <1>4, <2>1, <2>2 DEF SessionState, Input
  <2> QED
    BY <1>4, <2>3, LocalsTyped DEF SessionState, LoopOK, PcOK
<1>5. CASE ApplySessionState
  BY <1>5 DEF ApplySessionState, LoopOK, PcOK
<1>6. CASE ContinueOnActiveRenderer \/ ContinueOnThisDevice \/ ContinueLocalPlayback
           \/ CancelConnection
  BY <1>2, <1>6, LocalsTyped DEF ContinueOnActiveRenderer, ContinueOnThisDevice,
     ContinueLocalPlayback, CancelConnection, Choose, ClaimForRemoteQueue
<1>7. CASE ArbitrateQueue \/ ArbitrateIdle
  <2>1. loop \in Locals
    BY DEF LoopOK
  <2> QED
    BY <1>2, <1>7, <2>1, LocalsTyped DEF ArbitrateQueue, ArbitrateIdle
<1>8. CASE \/ GiveUpLocalTake \/ LocalTakeWaits \/ LocalTakeUnpublished
           \/ \E u \in Uuids : LocalTakePublished(u)
  <2>1. loop \in Locals
    BY DEF LoopOK
  <2> QED
    BY <1>3, <1>8, <2>1, LocalsTyped DEF GiveUpLocalTake, LocalTakeWaits, LocalTakeUnpublished,
       LocalTakePublished
<1>9. CASE RemoteTake \/ AutoTake
  <2>1. loop \in Locals
    BY DEF LoopOK
  <2> QED
    BY <1>3, <1>9, <2>1, LocalsTyped DEF RemoteTake, AutoTake, ClaimForRemoteQueue
<1>10. ASSUME \/ \E found \in BOOLEAN : Roster(found)
              \/ \E a \in Renderers \cup {"none"} : ActiveRendererChanged(a)
              \/ \E r \in Renderers, plays \in BOOLEAN : RendererStateUpdated(r, plays)
              \/ \E u \in Uuids : QueueLoaded(u)
              \/ \E u \in Uuids, ids \in {"mine", "other"} :
                    QueueLoadRejected(u, ids) \/ QueueErrorWithoutUuid(u, ids)
       PROVE  LoopOK' /\ PcOK'
  <2>1. Event(loop) /\ loop \in Locals
    BY <1>10 DEF Roster, ActiveRendererChanged, RendererStateUpdated, QueueLoaded,
       QueueLoadRejected, QueueErrorWithoutUuid, LoopOK
  <2> QED
    BY <1>1, <2>1
<1>11. ASSUME NEW ids, NEW tagged, NEW isState \in BOOLEAN, QueueChanged(ids, tagged, isState)
       PROVE  LoopOK' /\ PcOK'
  <2>1. [loop EXCEPT !.queueSeen = @ \/ isState] \in Locals
    BY DEF LoopOK, Locals
  <2> QED
    BY <1>1, <1>11, <2>1 DEF QueueChanged
<1>12. CASE Disconnected
  <2>1. loop.resolved \in BOOLEAN
    BY DEF LoopOK, Locals
  <2>2. PICK l \in Locals : Event(l)
    BY <1>12, <2>1 DEF Disconnected, Locals
  <2> QED
    BY <1>1, <2>2
<1>13. ASSUME Beside \/ UNCHANGED vars PROVE LoopOK' /\ PcOK'
  <2>1. UNCHANGED <<session, control>>
    BY <1>13 DEF Beside, vars, UserStarts, UserStops, TickSends, TickArms, ReportState, LoadTimesOut
  <2> QED
    BY <2>1 DEF session, control, LoopOK, PcOK
<1> QED
  BY <1>4, <1>5, <1>6, <1>7, <1>8, <1>9, <1>10, <1>11, <1>12, <1>13
     DEF Next, Arbitration, TransportEvent

LEMMA SessionStep == SessionOK /\ LoopOK /\ [Next]_vars => SessionOK'
<1> SUFFICES ASSUME SessionOK, LoopOK, [Next]_vars PROVE SessionOK'
  OBVIOUS
<1> USE DEF SessionOK
<1>1. CASE UNCHANGED session
  BY <1>1 DEF session
<1>2. CASE ApplySessionState
  <2>1. input.active \in Renderers \cup {"none"}
    BY DEF LoopOK, Input
  <2> QED
    BY <1>2, <2>1 DEF ApplySessionState
<1>3. ASSUME NEW a \in Renderers \cup {"none"}, ActiveRendererChanged(a) PROVE SessionOK'
  BY <1>3 DEF ActiveRendererChanged
<1>4. ASSUME NEW r \in Renderers, NEW plays \in BOOLEAN, RendererStateUpdated(r, plays)
      PROVE  SessionOK'
  BY <1>4 DEF RendererStateUpdated
<1>5. ASSUME NEW found \in BOOLEAN, Roster(found) PROVE SessionOK'
  BY <1>5 DEF Roster
<1>6. Beside \/ UNCHANGED vars => UNCHANGED session
  BY DEF Beside, vars, UserStarts, UserStops, TickSends, TickArms, ReportState, LoadTimesOut
<1>7. Arbitration => ApplySessionState \/ UNCHANGED session
  BY DEF Arbitration, ContinueOnActiveRenderer, ContinueOnThisDevice, ContinueLocalPlayback,
     CancelConnection, ArbitrateQueue, ArbitrateIdle, GiveUpLocalTake, LocalTakeWaits,
     LocalTakeUnpublished, LocalTakePublished, RemoteTake, AutoTake
<1> QED
  BY <1>1, <1>2, <1>3, <1>4, <1>5, <1>6, <1>7 DEF Next, TransportEvent, SessionState, QueueLoaded,
     QueueLoadRejected, QueueErrorWithoutUuid, QueueChanged, Disconnected

LEMMA LoadsStep == LoadsOK /\ [Next]_vars => LoadsOK'
<1> SUFFICES ASSUME LoadsOK, [Next]_vars PROVE LoadsOK'
  OBVIOUS
<1> USE DEF LoadsOK, loads
<1>1. CASE Beside \/ UNCHANGED vars
  BY <1>1 DEF Beside, vars, UserStarts, UserStops, TickSends, TickArms, ReportState, LoadTimesOut,
     SendLoad
<1>2. CASE Arbitration
  BY <1>2 DEF Arbitration, ApplySessionState, ContinueOnActiveRenderer, ContinueOnThisDevice,
     ContinueLocalPlayback, CancelConnection, ArbitrateQueue, ArbitrateIdle, GiveUpLocalTake,
     LocalTakeWaits, LocalTakeUnpublished, LocalTakePublished, RemoteTake, AutoTake, SendLoad
<1>3. CASE TransportEvent
  BY <1>3 DEF TransportEvent, SessionState, Roster, ActiveRendererChanged, RendererStateUpdated,
     QueueLoaded, QueueLoadRejected, QueueErrorWithoutUuid, QueueChanged, Disconnected
<1> QED
  BY <1>1, <1>2, <1>3 DEF Next

\* The locals that say whether an idle session may still be taken.
LEMMA GrabsStep == TakeInv /\ [Next]_vars => GrabsOK'
<1> SUFFICES ASSUME TakeInv, [Next]_vars PROVE GrabsOK'
  OBVIOUS
<1> USE DEF GrabsOK
<1>0. GrabsOK /\ loop \in Locals /\ PcOK
  BY DEF TakeInv, LoopOK
<1>1. CASE grabs' = grabs /\ loop'.autoTake = loop.autoTake
           /\ loop'.attempted \in {loop.attempted, TRUE}
  BY <1>0, <1>1
<1>2. CASE ArbitrateIdle
  <2>1. CASE UNCHANGED <<loop, grabs>>
    BY <1>0, <2>1
  <2>2. CASE TakesIdle(input) /\ loop' = [loop EXCEPT !.attempted = TRUE] /\ Grab
    <3>1. grabs = 0 /\ ~loop.autoTake
      BY <1>0, <2>2 DEF TakesIdle
    <3> QED
      BY <1>0, <2>2, <3>1 DEF Grab, Locals
  <2>3. CASE TakesIdle(input) /\ loop' = [loop EXCEPT !.autoTake = TRUE] /\ UNCHANGED grabs
    <3>1. grabs = 0
      BY <1>0, <2>3 DEF TakesIdle
    <3> QED
      BY <2>3, <3>1
  <2> QED
    BY <1>2, <2>1, <2>2, <2>3 DEF ArbitrateIdle
<1>3. CASE AutoTake
  <2>1. loop.autoTake
    BY <1>0, <1>3 DEF AutoTake, PcOK
  <2>2. grabs = 0
    BY <1>0, <2>1
  <2> DEFINE taken == [loop EXCEPT !.autoTake = FALSE, !.attempted = TRUE]
  <2>3. taken.attempted /\ ~taken.autoTake
    BY <1>0 DEF Locals
  <2> HIDE DEF taken
  <2>4. UNCHANGED <<loop, grabs>> \/ (loop' = taken /\ (Grab \/ UNCHANGED grabs))
    BY <1>3 DEF AutoTake, taken
  <2> QED
    BY <2>2, <2>3, <2>4 DEF Grab
<1>4. CASE Disconnected
  BY <1>4 DEF Disconnected
<1>5. CASE Beside \/ UNCHANGED vars
  <2>1. UNCHANGED <<loop, grabs>>
    BY <1>5 DEF Beside, vars, control, history, UserStarts, UserStops, TickSends, TickArms,
       ReportState, LoadTimesOut
  <2> QED
    BY <1>1, <2>1
<1>6. CASE Arbitration /\ ~ArbitrateIdle /\ ~AutoTake
  BY <1>0, <1>1, <1>6 DEF Arbitration, ApplySessionState, ContinueOnActiveRenderer,
     ContinueOnThisDevice, ContinueLocalPlayback, CancelConnection, ArbitrateQueue,
     GiveUpLocalTake, LocalTakeWaits, LocalTakeUnpublished, LocalTakePublished, RemoteTake,
     NotTaken, history, Locals
<1>7. CASE TransportEvent /\ ~Disconnected
  BY <1>0, <1>1, <1>7 DEF TransportEvent, SessionState, Roster, ActiveRendererChanged,
     RendererStateUpdated, QueueLoaded, QueueLoadRejected, QueueErrorWithoutUuid, QueueChanged,
     Event, history, Locals
<1> QED
  BY <1>2, <1>3, <1>4, <1>5, <1>6, <1>7 DEF Next

\* The fences, and the choice they protect.
FencesOK == FlagsOK /\ fence \in Fence /\ OneFence /\ KeepFenced

Plain == {audio', known'} \subseteq BOOLEAN

LEMMA FencesCleared == ClearFences /\ ~keep' /\ Plain /\ keep' \in BOOLEAN => FencesOK'
  BY ArmedIsFence DEF ClearFences, Plain, FencesOK, FlagsOK, OneFence, KeepFenced

LEMMA FencesKept ==
  FencesOK /\ UNCHANGED fences /\ Plain /\ (keep' = keep \/ keep' = FALSE) => FencesOK'
<1> SUFFICES ASSUME FencesOK, UNCHANGED fences, Plain, keep' = keep \/ keep' = FALSE PROVE FencesOK'
  OBVIOUS
<1>1. keep' \in BOOLEAN
  BY Zenon DEF FencesOK, FlagsOK
<1>2. FlagsOK'
  BY <1>1 DEF fences, Plain, FencesOK, FlagsOK
<1>3. keep' => keep
  BY <1>1
<1> QED
  BY <1>2, <1>3 DEF fences, FencesOK, OneFence, KeepFenced, Fenced

LEMMA FencesArmed ==
  ASSUME FencesOK, NEW u \in Uuids, Arm(u), conflict' \in BOOLEAN, Plain, keep' = keep
  PROVE  FencesOK'
<1>1. fence' \in Armed /\ assertion' = FALSE
  BY DEF Arm, Armed
<1>2. FlagsOK'
  <2>1. assertion' \in BOOLEAN
    BY <1>1, Zenon
  <2>2. keep' \in BOOLEAN
    BY DEF FencesOK, FlagsOK
  <2> QED
    BY <2>1, <2>2 DEF Plain, FlagsOK
<1>3. fence' \in Fence /\ fence' # NoFence
  BY <1>1, ArmedIsFence
<1> QED
  BY <1>1, <1>2, <1>3 DEF FencesOK, OneFence, KeepFenced, Fenced

\* An event may confirm or reject the fence before the queue update is seen.
LEMMA FencesUpdated ==
  ASSUME FencesOK, NEW f \in Fence, f = NoFence <=> fence = NoFence, NEW ids, QueueUpdated(f, ids),
         Plain, keep' = keep
  PROVE  FencesOK'
<1>1. conflict \in BOOLEAN /\ assertion \in BOOLEAN
  BY DEF FencesOK, FlagsOK
<1>2. /\ conflict' = conflict /\ assertion' \in BOOLEAN /\ fence' \in Fence
      /\ f = NoFence => fence' = NoFence /\ assertion' = assertion
      /\ f # NoFence => (fence' = NoFence /\ assertion') \/ (fence' # NoFence /\ assertion' = assertion)
  BY <1>1, QueueUpdatedLemma
<1>3. FlagsOK'
  BY <1>2 DEF Plain, FencesOK, FlagsOK
<1>4. OneFence'
  BY <1>2 DEF FencesOK, OneFence
<1>5. KeepFenced'
  BY <1>2 DEF FencesOK, KeepFenced, Fenced
<1> QED
  BY <1>2, <1>3, <1>4, <1>5 DEF FencesOK

LEMMA FencesRaised ==
  ASSUME FencesOK, UNCHANGED <<fence, assertion>>, Plain, conflict' \in BOOLEAN,
         conflict => conflict', keep' \in BOOLEAN, keep' => keep \/ conflict'
  PROVE  FencesOK'
  BY DEF Plain, FencesOK, FlagsOK, OneFence, KeepFenced, Fenced

LEMMA ArbitrationFences == TakeInv /\ Arbitration => FencesOK'
<1> SUFFICES ASSUME TakeInv, Arbitration PROVE FencesOK'
  OBVIOUS
<1>0. FencesOK /\ ConflictRaised /\ audio \in BOOLEAN /\ known \in BOOLEAN /\ keep \in BOOLEAN
  BY DEF TakeInv, FencesOK, KeepOK, FlagsOK
<1>1. CASE ApplySessionState
  <2>1. Plain
    BY <1>0, <1>1 DEF ApplySessionState, Plain, YieldToPeer
  <2> QED
    BY <1>0, <1>1, <2>1, FencesKept DEF ApplySessionState, history, fences
<1>2. CASE ContinueOnActiveRenderer \/ CancelConnection
  <2>1. Plain
    BY <1>0, <1>2 DEF ContinueOnActiveRenderer, CancelConnection, Plain, session
  <2> QED
    BY <1>2, <2>1, FencesCleared DEF ContinueOnActiveRenderer, CancelConnection
<1>3. CASE ContinueOnThisDevice \/ RemoteTake
  <2>1. Plain
    BY <1>0, <1>3 DEF ContinueOnThisDevice, RemoteTake, ClaimForRemoteQueue, Plain, session
  <2>2. \/ ClearFences /\ keep' = FALSE
        \/ UNCHANGED <<fences, keep>>
    BY <1>3 DEF ContinueOnThisDevice, RemoteTake, ClaimForRemoteQueue
  <2> QED
    BY <1>0, <2>1, <2>2, FencesCleared, FencesKept
<1>4. CASE ContinueLocalPlayback
  <2>1. Plain /\ keep' = audio
    BY <1>0, <1>4 DEF ContinueLocalPlayback, Plain, session
  <2>2. Host = "qt" => conflict
    BY <1>0, <1>4 DEF ContinueLocalPlayback, Choose, Decides, ConflictRaised
  <2>3. UNCHANGED fences
    BY <1>4 DEF ContinueLocalPlayback
  <2> QED
    BY <1>0, <2>1, <2>2, <2>3 DEF fences, Plain, FencesOK, FlagsOK, OneFence, KeepFenced, Fenced
<1>5. CASE ArbitrateQueue
  <2>1. Plain
    BY <1>0, <1>5 DEF ArbitrateQueue, Plain, session
  <2> QED
    BY <1>0, <1>5, <2>1, FencesRaised DEF ArbitrateQueue
<1>6. CASE ArbitrateIdle \/ AutoTake \/ LocalTakeWaits
  <2>1. Plain
    BY <1>0, <1>6 DEF ArbitrateIdle, AutoTake, LocalTakeWaits, Plain, session
  <2> QED
    BY <1>0, <1>6, <2>1, FencesKept DEF ArbitrateIdle, AutoTake, LocalTakeWaits, history
<1>7. CASE GiveUpLocalTake \/ LocalTakeUnpublished
  <2>1. Plain
    BY <1>0, <1>7 DEF GiveUpLocalTake, LocalTakeUnpublished, Plain, session
  <2>2. (ClearFences \/ UNCHANGED fences) /\ keep' = FALSE
    BY <1>7 DEF GiveUpLocalTake, LocalTakeUnpublished
  <2> QED
    BY <1>0, <2>1, <2>2, FencesCleared, FencesKept
<1>8. ASSUME NEW u \in Uuids, LocalTakePublished(u) PROVE FencesOK'
  <2>1. Plain
    BY <1>0, <1>8 DEF LocalTakePublished, Plain, session
  <2> QED
    BY <1>0, <1>8, <2>1, FencesArmed DEF LocalTakePublished, history
<1> QED
  BY <1>1, <1>2, <1>3, <1>4, <1>5, <1>6, <1>7, <1>8 DEF Arbitration

LEMMA EventFences == TakeInv /\ TransportEvent => FencesOK'
<1> SUFFICES ASSUME TakeInv, TransportEvent PROVE FencesOK'
  OBVIOUS
<1>0. /\ FencesOK /\ fence \in Fence
      /\ {audio, known, keep, conflict, assertion} \subseteq BOOLEAN
  BY DEF TakeInv, FencesOK, KeepOK, FlagsOK
<1>1. ASSUME NEW a, NEW plays, SessionState(a, plays) PROVE FencesOK'
  <2>1. Plain /\ conflict' \in BOOLEAN
    BY <1>0, <1>1 DEF SessionState, Plain, session
  <2> QED
    BY <1>0, <1>1, <2>1, FencesRaised DEF SessionState, history
<1>2. ASSUME NEW found \in BOOLEAN, Roster(found) PROVE FencesOK'
  <2>1. Plain
    BY <1>0, <1>2 DEF Roster, Plain
  <2> QED
    BY <1>0, <1>2, <2>1, FencesKept DEF Roster, history
<1>3. ASSUME NEW a, ActiveRendererChanged(a) PROVE FencesOK'
  <2>1. Plain
    BY <1>0, <1>3 DEF ActiveRendererChanged, Plain, YieldToPeer
  <2>2. \/ ClearFences /\ keep' = FALSE
        \/ UNCHANGED <<fences, keep>>
    BY <1>3 DEF ActiveRendererChanged
  <2> QED
    BY <1>0, <2>1, <2>2, FencesCleared, FencesKept
<1>4. ASSUME NEW r, NEW plays, RendererStateUpdated(r, plays) PROVE FencesOK'
  <2>1. Plain
    BY <1>0, <1>4 DEF RendererStateUpdated, Plain, YieldToPeer
  <2> QED
    BY <1>0, <1>4, <2>1, FencesKept DEF RendererStateUpdated, history
<1>5. ASSUME NEW f \in Fence, f = NoFence <=> fence = NoFence,
             UNCHANGED <<audio, session, history>>,
             \/ \E ids : QueueUpdated(f, ids)
             \/ fence' = f /\ UNCHANGED <<conflict, assertion>>
      PROVE  FencesOK'
  <2>1. Plain /\ keep' = keep
    BY <1>0, <1>5 DEF Plain, session, history
  <2>2. CASE \E ids : QueueUpdated(f, ids)
    BY <1>0, <1>5, <2>1, <2>2, FencesUpdated
  <2>3. CASE fence' = f /\ UNCHANGED <<conflict, assertion>>
    BY <1>0, <1>5, <2>1, <2>3 DEF Plain, FencesOK, FlagsOK, OneFence, KeepFenced, Fenced
  <2> QED
    BY <1>5, <2>2, <2>3
<1>6. ASSUME NEW u
      PROVE  LET c == Confirmed(fence, u)
                 f == IF slot \in {u, NoUuid} THEN c ELSE Rejected(c, slot)
             IN  f \in Fence /\ (f = NoFence <=> fence = NoFence)
  BY <1>0, FenceTests
<1>7. ASSUME NEW u \in Uuids, QueueLoaded(u) PROVE FencesOK'
  BY <1>5, <1>6, <1>7 DEF QueueLoaded
<1>8. ASSUME NEW u \in Uuids, NEW ids, QueueLoadRejected(u, ids) PROVE FencesOK'
  BY <1>5, <1>6, <1>8 DEF QueueLoadRejected
<1>9. ASSUME NEW u, NEW ids, QueueErrorWithoutUuid(u, ids) PROVE FencesOK'
  BY <1>0, <1>5, <1>9, FenceTests DEF QueueErrorWithoutUuid
<1>10. ASSUME NEW ids, NEW tagged, NEW isState, QueueChanged(ids, tagged, isState) PROVE FencesOK'
  BY <1>0, <1>5, <1>10, FenceTests DEF QueueChanged
<1>11. CASE Disconnected
  <2>1. /\ fence' = NoFence /\ assertion' = FALSE /\ keep' = FALSE /\ conflict' = audio
        /\ UNCHANGED <<audio, session>>
    BY <1>11 DEF Disconnected
  <2> QED
    BY <1>0, <2>1, ArmedIsFence DEF session, FencesOK, FlagsOK, OneFence, KeepFenced
<1> QED
  BY <1>1, <1>2, <1>3, <1>4, <1>7, <1>8, <1>9, <1>10, <1>11 DEF TransportEvent

LEMMA BesideFences == TakeInv /\ Beside => FencesOK'
<1> SUFFICES ASSUME TakeInv, Beside PROVE FencesOK'
  OBVIOUS
<1>0. /\ FencesOK /\ fence \in Fence /\ LoadsOK
      /\ {audio, known, keep, conflict, assertion} \subseteq BOOLEAN
  BY DEF TakeInv, FencesOK, KeepOK, FlagsOK
<1>1. CASE UserStarts \/ UserStops \/ \E u \in Uuids : TickSends(u)
  <2>1. Plain
    BY <1>0, <1>1 DEF UserStarts, UserStops, TickSends, Plain, session
  <2> QED
    BY <1>0, <1>1, <2>1, FencesKept DEF UserStarts, UserStops, TickSends, history
<1>2. CASE TickArms
  <2>1. Plain /\ conflict' \in BOOLEAN /\ keep' = keep
    BY <1>0, <1>2 DEF TickArms, Plain, session, history
  <2>2. tick \in Uuids /\ Arm(tick)
    BY <1>0, <1>2 DEF TickArms, LoadsOK
  <2> QED
    BY <1>0, <2>1, <2>2, FencesArmed
<1>3. CASE ReportState
  <2>1. /\ UNCHANGED <<audio, conflict, fence, known>>
        /\ assertion' = FALSE /\ keep' = FALSE
    BY <1>3 DEF ReportState, session
  <2>2. assertion' \in BOOLEAN /\ keep' \in BOOLEAN
    BY <2>1, Zenon
  <2> QED
    BY <1>0, <2>1, <2>2 DEF FencesOK, FlagsOK, OneFence, KeepFenced
<1>4. CASE LoadTimesOut
  <2>1. UNCHANGED <<audio, conflict, assertion, known, keep>> /\ fence' = Rejected(fence, slot)
    BY <1>4 DEF LoadTimesOut, session, history
  <2>2. fence' \in Fence /\ (fence' = NoFence <=> fence = NoFence)
    BY <1>0, <2>1, FenceTests
  <2>3. FlagsOK'
    BY <1>0, <2>1 DEF FlagsOK
  <2> QED
    BY <1>0, <2>1, <2>2, <2>3 DEF FencesOK, OneFence, KeepFenced, Fenced
<1> QED
  BY <1>1, <1>2, <1>3, <1>4 DEF Beside

LEMMA FencesStep == TakeInv /\ [Next]_vars => FencesOK'
<1>1. TakeInv /\ UNCHANGED vars => FencesOK'
  BY DEF TakeInv, KeepOK, vars, fences, session, history, FencesOK, FlagsOK, OneFence, KeepFenced,
     Fenced
<1> QED
  BY <1>1, ArbitrationFences, EventFences, BesideFences DEF Next

\* The conflict is raised before the session state is applied, and nothing
\* lowers it before the decision.
LEMMA ConflictStep == TakeInv /\ [Next]_vars => ConflictRaised'
<1> SUFFICES ASSUME TakeInv, [Next]_vars, Host = "qt", pc' \in {"apply", "decide"}, Conflict(input)'
             PROVE  conflict'
  BY DEF ConflictRaised
<1>0. ConflictRaised /\ loop \in Locals
  BY DEF TakeInv, KeepOK, LoopOK
<1>1. ASSUME NEW l \in Locals, pc' \in {AfterEvent(l), AfterLocal(l), AfterRemote(l), "idle", "ended"}
      PROVE  FALSE
  BY <1>1, AfterLemma
<1>2. ASSUME NEW a, NEW plays, SessionState(a, plays) PROVE conflict'
  BY <1>0, <1>2 DEF SessionState, Conflict, Locals
<1>3. CASE UNCHANGED <<loop, input>> /\ pc \in {"apply", "decide"} /\ conflict' = conflict
  BY <1>0, <1>3 DEF ConflictRaised, Conflict
<1>4. CASE ApplySessionState
  BY <1>3, <1>4 DEF ApplySessionState, fences
<1>5. CASE Beside \/ UNCHANGED vars
  <2>1. UNCHANGED control
    BY <1>5 DEF Beside, vars, UserStarts, UserStops, TickSends, TickArms, ReportState, LoadTimesOut
  <2>2. conflict' = conflict
    BY <1>5 DEF Beside, vars, fences, UserStarts, UserStops, TickSends, TickArms, ReportState,
       LoadTimesOut
  <2> QED
    BY <1>3, <2>1, <2>2 DEF control
<1>6. ASSUME Arbitration, ~ApplySessionState PROVE FALSE
  <2>1. loop' \in Locals
    BY LoopStep DEF TakeInv, LoopOK
  <2> QED
    BY <1>0, <1>1, <1>6, <2>1 DEF Arbitration, ContinueOnActiveRenderer, ContinueOnThisDevice,
       ContinueLocalPlayback, CancelConnection, ArbitrateQueue, ArbitrateIdle, GiveUpLocalTake,
       LocalTakeWaits, LocalTakeUnpublished, LocalTakePublished, RemoteTake, AutoTake,
       ClaimForRemoteQueue
<1>7. ASSUME TransportEvent, \A a, plays : ~SessionState(a, plays) PROVE FALSE
  <2>1. loop' \in Locals
    BY LoopStep DEF TakeInv, LoopOK
  <2>2. pc' = AfterEvent(loop')
    BY <1>7 DEF TransportEvent, Roster, ActiveRendererChanged, RendererStateUpdated, QueueLoaded,
       QueueLoadRejected, QueueErrorWithoutUuid, QueueChanged, Disconnected, Event
  <2> QED
    BY <1>1, <2>1, <2>2
<1> QED
  BY <1>2, <1>4, <1>5, <1>6, <1>7 DEF Next

LEMMA DeedStep == TakeInv /\ [Next]_vars => deed' \in Causes \cup {"none", "adopt"}
<1> SUFFICES ASSUME TakeInv, [Next]_vars PROVE deed' \in Causes \cup {"none", "adopt"}
  OBVIOUS
<1> USE DEF Causes, Quiet
<1>1. CASE LocalTakeUnpublished \/ \E u \in Uuids : LocalTakePublished(u)
  <2>1. loop.localTake \in {"implicit", "explicit"}
    BY <1>1 DEF LocalTakeUnpublished, LocalTakePublished, CanTake, TakeInv, LoopOK, PcOK, Locals
  <2> QED
    BY <1>1, <2>1 DEF LocalTakeUnpublished, LocalTakePublished, Claims
<1>2. CASE Arbitration /\ ~LocalTakeUnpublished /\ \A u \in Uuids : ~LocalTakePublished(u)
  BY <1>2 DEF Arbitration, ApplySessionState, ContinueOnActiveRenderer, ContinueOnThisDevice,
     ContinueLocalPlayback, CancelConnection, ArbitrateQueue, ArbitrateIdle, GiveUpLocalTake,
     LocalTakeWaits, RemoteTake, AutoTake, ClaimForRemoteQueue, Grab, Claims
<1>3. CASE TransportEvent
  BY <1>3 DEF TransportEvent, SessionState, Roster, ActiveRendererChanged, RendererStateUpdated,
     QueueLoaded, QueueLoadRejected, QueueErrorWithoutUuid, QueueChanged, Disconnected, QueueUpdated
<1>4. CASE Beside
  BY <1>4 DEF Beside, UserStarts, UserStops, TickSends, TickArms, ReportState, LoadTimesOut
<1>5. CASE UNCHANGED vars
  BY <1>5 DEF vars, TakeInv
<1> QED
  BY <1>1, <1>2, <1>3, <1>4, <1>5 DEF Next

LEMMA TakeStep == TakeInv /\ [Next]_vars => TakeInv'
<1> SUFFICES ASSUME TakeInv, [Next]_vars PROVE TakeInv'
  OBVIOUS
<1>1. FlagsOK' /\ (fence \in Fence)' /\ OneFence' /\ KeepOK'
  BY FencesStep, ConflictStep DEF FencesOK, KeepOK
<1>2. SessionOK' /\ LoopOK' /\ PcOK' /\ LoadsOK' /\ GrabsOK'
  BY SessionStep, LoopStep, LoadsStep, GrabsStep DEF TakeInv
<1> QED
  BY <1>1, <1>2, DeedStep DEF TakeInv

\* The arbitration's state is well typed: the loop is never at a takeover that it
\* has not decided, and fences name a load or none.
THEOREM TypeCorrect == Spec => []TypeOK
<1>1. TakeInv => TypeOK
  BY DEF TakeInv, TypeOK, FlagsOK, SessionOK, LoopOK, LoadsOK, Fence, Armed, GrabsOK
<1> QED
  BY InitTake, TakeStep, <1>1, PTL DEF Spec

\* Takeovers do not pile up, for any number of retried publications: an idle
\* session is claimed once per connection, and a fence and an assertion are
\* never pending together (auto_take_attempted, arm_local_queue_takeover).
THEOREM OneAtATime == Spec => []OneTakeoverAtATime
<1>1. TakeInv => OneTakeoverAtATime
  BY DEF TakeInv, GrabsOK, OneFence, OneTakeoverAtATime
<1> QED
  BY InitTake, TakeStep, <1>1, PTL DEF Spec

\* No claim is made over a peer that plays, unless the user chose so, however
\* many events pass between the decision and the claim (run_session_loop).
THEOREM NeverSteals == Spec => NeverStealsFromPlayingPeer
<1>1. TakeInv /\ [Next]_vars => (deed' \in {"idle", "implicit"} => ~ActivePeerPlaying) \/ UNCHANGED vars
  <2> SUFFICES ASSUME TakeInv, Next, deed' \in {"idle", "implicit"}, ActivePeerPlaying
               PROVE  FALSE
    OBVIOUS
  <2>1. active # "none"
    BY DEF TakeInv, SessionOK, Renderers, ActivePeerPlaying
  <2>2. CASE LocalTakeUnpublished \/ \E u \in Uuids : LocalTakePublished(u)
    BY <2>2 DEF LocalTakeUnpublished, LocalTakePublished, CanTake, GivesUp, Claims
  <2>3. CASE ArbitrateIdle
    BY <2>1, <2>3 DEF ArbitrateIdle, TakesIdle, Grab, Claims, Decides, TakeInv, PcOK, Quiet
  <2>4. CASE AutoTake
    BY <2>1, <2>4 DEF AutoTake, Quiet
  <2>5. CASE Beside
    BY <2>5 DEF Beside, UserStarts, UserStops, TickSends, TickArms, ReportState, LoadTimesOut, Quiet
  <2>6. CASE Arbitration /\ ~ArbitrateIdle /\ ~AutoTake /\ ~LocalTakeUnpublished
             /\ \A u \in Uuids : ~LocalTakePublished(u)
    BY <2>6 DEF Arbitration, ApplySessionState, ContinueOnActiveRenderer, ContinueOnThisDevice,
       ContinueLocalPlayback, CancelConnection, ArbitrateQueue, GiveUpLocalTake, LocalTakeWaits,
       RemoteTake, ClaimForRemoteQueue, Claims, Quiet
  <2>7. CASE TransportEvent
    BY <2>7 DEF TransportEvent, SessionState, Roster, ActiveRendererChanged, RendererStateUpdated,
       QueueLoaded, QueueLoadRejected, QueueErrorWithoutUuid, QueueChanged, Disconnected,
       QueueUpdated, Quiet
  <2> QED
    BY <2>2, <2>3, <2>4, <2>5, <2>6, <2>7 DEF Next
<1> QED
  BY InitTake, TakeStep, <1>1, PTL DEF Spec, NeverStealsFromPlayingPeer

\* A choice to keep local playback holds in the desktop host until it is
\* asserted, given up or handed over, whatever peers and the cloud send and
\* however late (local_playback_should_yield_to_active_peer): a fence stands
\* between the choice and every step that could undo it.  In the daemon this
\* fails, because there the yield asks for the conflict only.
THEOREM ChosenKept == ASSUME Host = "qt" PROVE Spec => KeepsChosenPlayback
<1>1. TakeInv /\ [Next]_vars =>
         (keep /\ keep' => (audio => audio') /\ (deed' = "adopt" => assertion)) \/ UNCHANGED vars
  <2> SUFFICES ASSUME TakeInv, Next, keep, keep'
               PROVE  (audio => audio') /\ (deed' = "adopt" => assertion)
    OBVIOUS
  <2>0. /\ fence \in Fence /\ Fenced
        /\ {audio, known, keep, conflict, assertion} \subseteq BOOLEAN
    BY DEF TakeInv, KeepOK, KeepFenced, FlagsOK
  <2>1. ~Yields'
    <3>1. Fenced'
      BY FencesStep DEF FencesOK, KeepFenced
    <3> QED
      BY <3>1 DEF Yields
  <2>2. ASSUME NEW f, NEW ids, QueueUpdated(f, ids), f \in Fence /\ (f = NoFence <=> fence = NoFence)
        PROVE  deed' = "adopt" => assertion
    BY <2>0, <2>2, QueueUpdatedLemma DEF Fenced
  <2>3. ASSUME NEW u
        PROVE  LET c == Confirmed(fence, u)
                   f == IF slot \in {u, NoUuid} THEN c ELSE Rejected(c, slot)
               IN  f \in Fence /\ (f = NoFence <=> fence = NoFence)
    BY <2>0, FenceTests
  <2>4. audio => audio'
    <3>1. CASE YieldToPeer
      BY <2>0, <2>1, <3>1 DEF YieldToPeer
    <3>2. CASE Beside
      BY <3>2 DEF Beside, UserStarts, UserStops, TickSends, TickArms, ReportState, LoadTimesOut
    <3>3. CASE Arbitration
      BY <3>1, <3>3 DEF Arbitration, ApplySessionState, ContinueOnActiveRenderer,
         ContinueOnThisDevice, ContinueLocalPlayback, CancelConnection, ArbitrateQueue,
         ArbitrateIdle, GiveUpLocalTake, LocalTakeWaits, LocalTakeUnpublished, LocalTakePublished,
         RemoteTake, AutoTake, ClaimForRemoteQueue
    <3>4. CASE TransportEvent
      BY <3>1, <3>4 DEF TransportEvent, SessionState, Roster, ActiveRendererChanged,
         RendererStateUpdated, QueueLoaded, QueueLoadRejected, QueueErrorWithoutUuid, QueueChanged,
         Disconnected
    <3> QED
      BY <3>2, <3>3, <3>4 DEF Next
  <2>5. deed' = "adopt" => assertion
    <3>1. ASSUME NEW u \in Uuids, QueueLoaded(u) PROVE deed' = "adopt" => assertion
      BY <2>2, <2>3, <3>1 DEF QueueLoaded
    <3>2. ASSUME NEW u \in Uuids, NEW ids, QueueLoadRejected(u, ids)
          PROVE  deed' = "adopt" => assertion
      BY <2>2, <2>3, <3>2 DEF QueueLoadRejected, Quiet
    <3>3. ASSUME NEW u, NEW ids, QueueErrorWithoutUuid(u, ids) PROVE deed' = "adopt" => assertion
      BY <2>0, <2>2, <3>3, FenceTests DEF QueueErrorWithoutUuid
    <3>4. ASSUME NEW ids, NEW tagged, NEW isState, QueueChanged(ids, tagged, isState)
          PROVE  deed' = "adopt" => assertion
      BY <2>0, <2>2, <3>4, FenceTests DEF QueueChanged
    <3>5. CASE Beside
      BY <3>5 DEF Beside, UserStarts, UserStops, TickSends, TickArms, ReportState, LoadTimesOut,
         Quiet
    <3>6. CASE LocalTakeUnpublished \/ \E u \in Uuids : LocalTakePublished(u)
      <4>1. loop.localTake \in {"no", "implicit", "explicit"}
        BY DEF TakeInv, LoopOK, Locals
      <4> QED
        BY <3>6, <4>1 DEF LocalTakeUnpublished, LocalTakePublished, Claims
    <3>7. CASE Arbitration /\ ~LocalTakeUnpublished /\ \A u \in Uuids : ~LocalTakePublished(u)
      BY <3>7 DEF Arbitration, ApplySessionState, ContinueOnActiveRenderer, ContinueOnThisDevice,
         ContinueLocalPlayback, CancelConnection, ArbitrateQueue, ArbitrateIdle, GiveUpLocalTake,
         LocalTakeWaits, RemoteTake, AutoTake, ClaimForRemoteQueue, Grab, Claims, Quiet
    <3>8. ASSUME \/ \E a, plays : SessionState(a, plays)
                 \/ \E found : Roster(found)
                 \/ \E a : ActiveRendererChanged(a)
                 \/ \E r, plays : RendererStateUpdated(r, plays)
                 \/ Disconnected
          PROVE  deed' = "adopt" => assertion
      BY <3>8 DEF SessionState, Roster, ActiveRendererChanged, RendererStateUpdated, Disconnected,
         Quiet
    <3> QED
      BY <3>1, <3>2, <3>3, <3>4, <3>5, <3>6, <3>7, <3>8 DEF Next, TransportEvent
  <2> QED
    BY <2>4, <2>5
<1> QED
  BY InitTake, TakeStep, <1>1, PTL DEF Spec, KeepsChosenPlayback
==============================================================================
