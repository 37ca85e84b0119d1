--------------------------- MODULE Connection_proofs ---------------------------
(***************************************************************************)
(* What keeps a connection honest.  First the session above it: the        *)
(* liveness watchdog, the roster and what is derived from it, for every    *)
(* set of renderers and every bound on the epoch.  Then the WebSocket      *)
(* transport below it, for every cap, backoff, channel capacity and length *)
(* of a stalled send.                                                      *)
(***************************************************************************)
EXTENDS SessionSync, WsTransport, SequenceTheorems, TLAPS

USE RendererAssumption

\* Epochs only grow, and no watchdog has one of the future: a bump leaves every
\* watchdog behind.
EpochsOK ==
    /\ generation \in Nat
    /\ watchdogs \subseteq Task
    /\ \A w \in watchdogs : w.generation <= generation

\* What the event being handled still has to do names a renderer.
ArmOK ==
    /\ todo.arm # NoRenderer => todo.arm \in Watchdog
    /\ todo.freeze # NoRenderer => todo.freeze \in Renderers

WatchInv == EpochsOK /\ ArmOK /\ OneWatchdogCanFire

LEMMA InitWatch == Init => WatchInv
  BY DEF Init, WatchInv, EpochsOK, ArmOK, OneWatchdogCanFire, Nothing

\* A step that bumps the epoch supersedes every watchdog there is.
LEMMA BumpSupersedes ==
  ASSUME EpochsOK, generation' = Bumped, watchdogs' = watchdogs
  PROVE  EpochsOK' /\ \A w \in watchdogs' : w.generation # generation'
  BY DEF EpochsOK, Bumped, Task

\* Steps that neither bump the epoch nor touch watchdogs or pending work.
LEMMA WatchFrame == WatchInv /\ UNCHANGED <<generation, watchdogs, todo>> => WatchInv'
  BY DEF WatchInv, EpochsOK, ArmOK, OneWatchdogCanFire

LEMMA EventWatch == WatchInv /\ ServerEvent => WatchInv'
<1> SUFFICES ASSUME WatchInv, ServerEvent PROVE WatchInv'
  OBVIOUS
<1>1. CASE UNCHANGED <<generation, watchdogs, todo>>
  BY <1>1, WatchFrame
<1>2. ASSUME NEW a \in Option(Renderers), NEW p \in {"omit", "keep"}, ActiveRendererChanged(a, p)
      PROVE  WatchInv'
  <2>1. todo' = Nothing /\ generation' = Bumped /\ watchdogs' = watchdogs
    BY <1>2 DEF ActiveRendererChanged, Ready
  <2>2. todo'.arm = NoRenderer /\ todo'.freeze = NoRenderer
    BY <2>1 DEF Nothing
  <2> QED
    BY <2>1, <2>2, BumpSupersedes DEF WatchInv, ArmOK, OneWatchdogCanFire
<1>3. ASSUME NEW r \in Renderers, NEW p \in {"keep", "playing", "paused"}, NEW gone \in BOOLEAN,
             RendererStateUpdated(r, p, gone)
      PROVE  WatchInv'
  <2>1. generation < MaxGeneration /\ generation' = Bumped /\ watchdogs' = watchdogs
    BY <1>3 DEF RendererStateUpdated
  <2>2. generation \in Nat /\ generation' \in 0..MaxGeneration
    BY <2>1 DEF WatchInv, EpochsOK, Bumped
  <2>3. /\ todo'.arm \in {[renderer |-> r, generation |-> generation'], NoRenderer}
        /\ todo'.freeze \in {r, NoRenderer}
    BY <1>3 DEF RendererStateUpdated
  <2>4. todo'.arm # NoRenderer => todo'.arm.generation = generation' /\ todo'.arm \in Watchdog
    BY <2>2, <2>3 DEF Watchdog
  <2> QED
    BY <2>1, <2>3, <2>4, BumpSupersedes DEF WatchInv, ArmOK, OneWatchdogCanFire
<1> QED
  BY <1>1, <1>2, <1>3 DEF ServerEvent, SessionState, AddRenderer, UpdateRenderer, RemoveRenderer,
     OtherFieldUpdated

LEMMA PostLockWatch == WatchInv /\ PostLock => WatchInv'
<1> SUFFICES ASSUME WatchInv, PostLock PROVE WatchInv'
  OBVIOUS
<1>1. CASE FreezeDisconnected
  <2>1. todo'.arm = todo.arm \/ todo'.arm = NoRenderer
    BY <1>1 DEF FreezeDisconnected
  <2> QED
    BY <1>1, <2>1 DEF FreezeDisconnected, WatchInv, EpochsOK, ArmOK, OneWatchdogCanFire
<1>2. CASE ArmWatchdog
  <2> DEFINE new == [renderer |-> todo.arm.renderer, generation |-> todo.arm.generation,
                     pc |-> "asleep"]
  <2>1. /\ watchdogs' = watchdogs \cup {new} /\ generation' = generation
        /\ todo'.arm = NoRenderer /\ todo'.freeze = NoRenderer /\ todo.arm # NoRenderer
    BY <1>2 DEF ArmWatchdog, Nothing
  <2>2. todo.arm \in Watchdog /\ todo.arm.generation = generation
    BY <2>1 DEF WatchInv, ArmOK, OneWatchdogCanFire
  <2>3. new \in Task /\ new.generation = generation
    BY <2>2 DEF Watchdog, Task
  <2>4. \A w \in watchdogs : w.generation # generation
    BY <2>1 DEF WatchInv, OneWatchdogCanFire
  <2> HIDE DEF new
  <2>5. EpochsOK'
    BY <2>1, <2>3 DEF WatchInv, EpochsOK
  <2> QED
    BY <2>1, <2>3, <2>4, <2>5 DEF WatchInv, ArmOK, OneWatchdogCanFire
<1> QED
  BY <1>1, <1>2 DEF PostLock

LEMMA WakeWatch == WatchInv /\ WatchdogStep => WatchInv'
<1> SUFFICES ASSUME WatchInv, NEW w \in watchdogs, WatchdogWakes(w) \/ WatchdogFreezes(w)
             PROVE  WatchInv'
  BY DEF WatchdogStep
<1>1. w \in Task /\ generation' = generation /\ todo' = todo
  BY DEF WatchInv, EpochsOK, WatchdogWakes, WatchdogFreezes
<1>2. \A v \in watchdogs' :
         v \in watchdogs \/ (v \in Task /\ v.pc = "firing" /\ v.generation = w.generation)
  <2> DEFINE woken == [w EXCEPT !.pc = "firing"]
  <2>1. woken \in Task /\ woken.pc = "firing" /\ woken.generation = w.generation
    BY <1>1 DEF Task
  <2> HIDE DEF woken
  <2>2. watchdogs' \subseteq watchdogs \cup {woken}
    BY DEF WatchdogWakes, WatchdogFreezes, woken
  <2> QED
    BY <2>1, <2>2
<1> QED
  BY <1>1, <1>2 DEF WatchInv, EpochsOK, ArmOK, OneWatchdogCanFire

LEMMA RetireWatch == WatchInv /\ Retire => WatchInv'
<1> SUFFICES ASSUME WatchInv, Retire PROVE WatchInv'
  OBVIOUS
<1>1. /\ watchdogs' = {} /\ generation' = generation
      /\ todo'.arm = NoRenderer /\ todo'.freeze = NoRenderer
  BY DEF Retire, Nothing
<1> QED
  BY <1>1 DEF WatchInv, EpochsOK, ArmOK, OneWatchdogCanFire

LEMMA WatchStep == WatchInv /\ [Next]_vars => WatchInv'
<1>1. WatchInv /\ UNCHANGED vars => WatchInv'
  BY WatchFrame DEF vars
<1> QED
  BY <1>1, EventWatch, PostLockWatch, WakeWatch, RetireWatch DEF Next

\* At most one watchdog can ever fire, whatever the server sends and however
\* late the tasks wake (bump_watchdog_generation, run_renderer_watchdog): epochs
\* grow and every one is armed at most once.
THEOREM OneFires == Spec => []OneWatchdogCanFire
<1>1. WatchInv => OneWatchdogCanFire
  BY DEF WatchInv
<1> QED
  BY InitWatch, WatchStep, <1>1, PTL DEF Spec
------------------------------------------------------------------------------
(* The cached states of the renderers *)

\* Entries and flags are kept for every renderer; without an active one no
\* entry claims to be active or passive.
CacheInv ==
    /\ playing \in [Renderers -> Playing] /\ flag \in [Renderers -> {"none", "yes", "no"}]
    /\ FlagsAgree

LEMMA InitCache == Init => CacheInv
  BY DEF Init, CacheInv, FlagsAgree, Playing

\* Flags that are written for every renderer agree with the one they are
\* written for.
LEMMA SyncAgrees ==
  ASSUME NEW a, SyncFlags(a), active' = a, playing' \in [Renderers -> Playing]
  PROVE  CacheInv'
  BY DEF CacheInv, FlagsAgree, SyncFlags, FlagOf

LEMMA ReportType ==
  ASSUME playing \in [Renderers -> Playing], NEW r \in Renderers,
         NEW p \in Playing \cup {"keep"}, Report(r, p)
  PROVE  playing' \in [Renderers -> Playing] /\ \A q \in Renderers \ {r} : playing'[q] = playing[q]
  BY DEF Report, Playing

\* An entry that is created gets the flag of the moment, an old one agrees
\* already.
LEMMA EnsureAgrees ==
  ASSUME CacheInv, NEW r \in Renderers, NEW p \in Playing \cup {"keep"},
         Report(r, p), EnsureFlag(r), active' = active
  PROVE  CacheInv'
<1>1. flag' \in [Renderers -> {"none", "yes", "no"}]
  BY DEF EnsureFlag, CacheInv, FlagOf
<1>2. \A q \in Renderers \ {r} : flag'[q] = flag[q]
  BY DEF EnsureFlag, CacheInv
<1>3. flag'[r] = FlagOf(active, r)
  BY DEF EnsureFlag, CacheInv, FlagsAgree
<1>4. /\ playing' \in [Renderers -> Playing]
      /\ \A q \in Renderers \ {r} : playing'[q] = playing[q]
  BY ReportType DEF CacheInv
<1> QED
  BY <1>1, <1>2, <1>3, <1>4 DEF CacheInv, FlagsAgree, FlagOf

LEMMA CacheStep == WatchInv /\ CacheInv /\ [Next]_vars => CacheInv'
<1> SUFFICES ASSUME WatchInv, CacheInv, [Next]_vars PROVE CacheInv'
  OBVIOUS
<1> USE DEF CacheInv, Playing
<1>1. CASE UNCHANGED <<playing, flag, active>>
  BY <1>1 DEF FlagsAgree, FlagOf
<1>2. ASSUME NEW a \in Option(Renderers), NEW p \in {"omit", "keep", "playing", "paused"},
             SessionState(a, p) \/ ActiveRendererChanged(a, p)
      PROVE  CacheInv'
  <2>1. /\ active' = a /\ SyncFlags(a)
        /\ IF a # NoRenderer /\ p # "omit" THEN Report(a, p) ELSE UNCHANGED playing
    BY <1>2 DEF SessionState, ActiveRendererChanged
  <2>2. playing' \in [Renderers -> Playing]
    BY <2>1, ReportType DEF Option
  <2> QED
    BY <2>1, <2>2, SyncAgrees
<1>3. ASSUME NEW r \in Renderers, NEW ident \in Identities,
             AddRenderer(r, ident) \/ UpdateRenderer(r, ident)
      PROVE  CacheInv'
  <2>1. active' = active /\ SyncFlags(active) /\ Report(r, "keep")
    BY <1>3 DEF AddRenderer, UpdateRenderer
  <2> QED
    BY <2>1, ReportType, SyncAgrees
<1>4. ASSUME NEW r \in Renderers, RemoveRenderer(r) PROVE CacheInv'
  <2>1. active' = active /\ SyncFlags(active) /\ playing' \in [Renderers -> Playing]
    BY <1>4 DEF RemoveRenderer
  <2> QED
    BY <2>1, SyncAgrees
<1>5. ASSUME NEW r \in Renderers, OtherFieldUpdated(r) PROVE CacheInv'
  BY <1>5, EnsureAgrees DEF OtherFieldUpdated
<1>6. ASSUME NEW r \in Renderers, NEW p \in {"keep", "playing", "paused"}, NEW gone \in BOOLEAN,
             RendererStateUpdated(r, p, gone)
      PROVE  CacheInv'
  BY <1>6, EnsureAgrees DEF RendererStateUpdated
<1>7. CASE FreezeDisconnected
  <2>1. todo.freeze \in Renderers
    BY <1>7 DEF FreezeDisconnected, WatchInv, ArmOK
  <2> QED
    BY <1>7, <2>1, EnsureAgrees DEF FreezeDisconnected, Freeze
<1>8. ASSUME NEW w \in watchdogs, WatchdogFreezes(w) PROVE CacheInv'
  <2>1. w.renderer \in Renderers
    BY DEF WatchInv, EpochsOK, Task
  <2> QED
    BY <1>8, <2>1, EnsureAgrees DEF WatchdogFreezes, Freeze
<1>9. ASSUME NEW w \in watchdogs, WatchdogWakes(w) PROVE UNCHANGED <<playing, flag, active>>
  BY <1>9 DEF WatchdogWakes, projection
<1>10. ArmWatchdog \/ Retire \/ UNCHANGED vars => UNCHANGED <<playing, flag, active>>
  BY DEF ArmWatchdog, Retire, vars, projection
<1> QED
  BY <1>1, <1>2, <1>3, <1>4, <1>5, <1>6, <1>7, <1>8, <1>9, <1>10
     DEF Next, ServerEvent, PostLock, WatchdogStep

\* The local id is recomputed by every step that changes the list or what is
\* known of a device in it.
LEMMA LocalStep == LocalIsResolved /\ [Next]_vars => LocalIsResolved'
<1> SUFFICES ASSUME LocalIsResolved, [Next]_vars PROVE LocalIsResolved'
  OBVIOUS
<1>1. UNCHANGED topology \/ local' = LocalIn(roster', identity')
  BY DEF Next, vars, topology, ServerEvent, PostLock, WatchdogStep, SessionState, AddRenderer,
     UpdateRenderer, RemoveRenderer, ActiveRendererChanged, RendererStateUpdated,
     OtherFieldUpdated, FreezeDisconnected, ArmWatchdog, WatchdogWakes, WatchdogFreezes, Retire
<1> QED
  BY <1>1 DEF LocalIsResolved, topology

\* With an empty list there is nobody to match.
LEMMA InitLocal == Init => LocalIsResolved
<1> SUFFICES ASSUME Init PROVE LocalIsResolved
  OBVIOUS
<1>1. 1..Len(roster) = {}
  BY DEF Init
<1> QED
  BY <1>1 DEF Init, LocalIsResolved, LocalIn

\* The roster is a list of distinct ids.
RosterInv == roster \in Seq(Renderers) /\ ListedOnce

\* Whoever leaves the list, the others stay in it as they are, and once.
LEMMA WithoutKeeps ==
  ASSUME RosterInv, NEW r \in Renderers, roster' = Without(roster, r)
  PROVE  RosterInv'
<1>1. CASE \A i \in 1..Len(roster) : roster[i] # r
  BY <1>1 DEF Without, RosterInv, ListedOnce
<1>2. CASE ~\A i \in 1..Len(roster) : roster[i] # r
  <2> DEFINE at == CHOOSE i \in 1..Len(roster) : roster[i] = r
  <2>1. at \in 1..Len(roster) /\ roster \in Seq(Renderers) /\ Len(roster) \in Nat
    BY <1>2 DEF RosterInv
  <2>2. roster' = SubSeq(roster, 1, at - 1) \o SubSeq(roster, at + 1, Len(roster))
    BY <1>2 DEF Without
  <2> HIDE DEF at
  <2>3. /\ SubSeq(roster, 1, at - 1) \in Seq(Renderers)
        /\ Len(SubSeq(roster, 1, at - 1)) = at - 1
        /\ \A k \in 1..at - 1 : SubSeq(roster, 1, at - 1)[k] = roster[k]
    BY <2>1
  <2>4. /\ SubSeq(roster, at + 1, Len(roster)) \in Seq(Renderers)
        /\ Len(SubSeq(roster, at + 1, Len(roster))) = Len(roster) - at
        /\ \A k \in 1..Len(roster) - at : SubSeq(roster, at + 1, Len(roster))[k] = roster[at + k]
    BY <2>1
  <2>5. /\ roster' \in Seq(Renderers) /\ Len(roster') = Len(roster) - 1
        /\ \A k \in 1..Len(roster') : roster'[k] = IF k < at THEN roster[k] ELSE roster[k + 1]
    <3> DEFINE front == SubSeq(roster, 1, at - 1)
               back == SubSeq(roster, at + 1, Len(roster))
    <3>1. /\ front \in Seq(Renderers) /\ back \in Seq(Renderers) /\ roster' = front \o back
          /\ Len(front) = at - 1 /\ Len(back) = Len(roster) - at
          /\ \A k \in 1..at - 1 : front[k] = roster[k]
          /\ \A k \in 1..Len(roster) - at : back[k] = roster[at + k]
      BY <2>2, <2>3, <2>4
    <3> HIDE DEF front, back
    <3>2. roster' \in Seq(Renderers) /\ Len(roster') = Len(roster) - 1
      <4>1. roster' \in Seq(Renderers) /\ Len(roster') = Len(front) + Len(back)
        BY <3>1, ConcatProperties, Zenon
      <4>2. at \in Nat /\ Len(front) = at - 1 /\ Len(back) = Len(roster) - at
        BY <2>1, <3>1
      <4> QED
        BY <2>1, <4>1, <4>2
    <3>3. ASSUME NEW k \in 1..Len(roster')
          PROVE  roster'[k] = IF k < at THEN roster[k] ELSE roster[k + 1]
      <4>1. CASE k < at
        <5>1. k \in 1..at - 1
          BY <2>1, <4>1
        <5> QED
          BY <3>1, <4>1, <5>1
      <4>2. CASE ~(k < at)
        <5>1. k - (at - 1) \in 1..Len(roster) - at /\ at + (k - (at - 1)) = k + 1
          BY <2>1, <3>2, <4>2
        <5>2. roster'[k] = back[k - (at - 1)]
          BY <2>1, <3>1, <3>2, <4>2, <5>1
        <5> QED
          BY <3>1, <4>2, <5>1, <5>2
      <4> QED
        BY <4>1, <4>2
    <3> QED
      BY <3>2, <3>3
  <2>6. ASSUME NEW i \in 1..Len(roster'), NEW j \in 1..Len(roster'), roster'[i] = roster'[j]
        PROVE  i = j
    <3> DEFINE place(k) == IF k < at THEN k ELSE k + 1
    <3>1. place(i) \in 1..Len(roster) /\ place(j) \in 1..Len(roster)
      BY <2>1, <2>5
    <3>2. roster[place(i)] = roster[place(j)]
      BY <2>5, <2>6
    <3>3. place(i) = place(j)
      BY <3>1, <3>2 DEF RosterInv, ListedOnce
    <3> QED
      BY <2>1, <2>5, <3>3
  <2> QED
    BY <2>5, <2>6 DEF RosterInv, ListedOnce
<1> QED
  BY <1>1, <1>2

LEMMA RosterStep == RosterInv /\ [Next]_vars => RosterInv'
<1> SUFFICES ASSUME RosterInv, [Next]_vars PROVE RosterInv'
  OBVIOUS
<1>1. CASE UNCHANGED roster
  BY <1>1 DEF RosterInv, ListedOnce
<1>2. ASSUME NEW r \in Renderers, roster' = Append(roster, r), ~Listed(r) PROVE RosterInv'
  BY <1>2 DEF RosterInv, ListedOnce, Listed
<1>3. ASSUME NEW r \in Renderers, RemoveRenderer(r) PROVE RosterInv'
  BY <1>3, WithoutKeeps DEF RemoveRenderer
<1>4. \/ UNCHANGED roster
      \/ \E r \in Renderers : roster' = Append(roster, r) /\ ~Listed(r)
      \/ \E r \in Renderers : RemoveRenderer(r)
  BY DEF Next, vars, topology, ServerEvent, PostLock, WatchdogStep, SessionState, AddRenderer,
     UpdateRenderer, ActiveRendererChanged, RendererStateUpdated,
     OtherFieldUpdated, FreezeDisconnected, ArmWatchdog, WatchdogWakes, WatchdogFreezes, Retire
<1> QED
  BY <1>1, <1>2, <1>3, <1>4

LEMMA InitRoster == Init => RosterInv
BY DEF Init, RosterInv, ListedOnce

\* What is derived from the list of renderers never lags behind it, on any path
\* and for any number of renderers: each cached active flag agrees with the
\* active renderer, ids are listed once, and the local id is the one the current
\* list resolves to (sync_session_renderer_active_flags, refresh_local_renderer_id).
THEOREM DerivedFollows == Spec => []DerivedStateIsCurrent
<1> DEFINE Inv == WatchInv /\ CacheInv /\ LocalIsResolved /\ RosterInv
<1>1. Init => Inv
  BY InitWatch, InitCache, InitLocal, InitRoster
<1>2. Inv /\ [Next]_vars => Inv'
  BY WatchStep, CacheStep, LocalStep, RosterStep
<1>3. Inv => DerivedStateIsCurrent
  BY DEF CacheInv, RosterInv, DerivedStateIsCurrent
<1> QED
  BY <1>1, <1>2, <1>3, PTL DEF Spec
------------------------------------------------------------------------------
(* The transport *)

\* What a minimum of two counters is.
LEMMA LowerType ==
  ASSUME NEW m \in Nat, NEW n \in Nat
  PROVE  Lower(m, n) \in Nat /\ Lower(m, n) <= n /\ Lower(m, n) \in {m, n}
  BY DEF Lower

LEMMA InitType == TransportInit => TransportTypeOK
<1> USE ConfigAssumption DEF ConfigAssumption, TransportInit, Interval
<1>1. TransportInit => FlagsOK
  BY DEF FlagsOK
<1>2. TransportInit => CountersOK
  BY DEF CountersOK
<1> QED
  BY <1>1, <1>2 DEF TransportTypeOK

LEMMA FlagsStep == TransportTypeOK /\ [TransportNext]_transportVars => FlagsOK'
<1> SUFFICES ASSUME FlagsOK, [TransportNext]_transportVars PROVE FlagsOK'
  BY DEF TransportTypeOK
<1> USE DEF FlagsOK, transportVars, link, retry, Dropped
<1>1. CASE Caller
  BY <1>1 DEF Caller, Connect, Send, DisconnectStarts, DisconnectEnds
<1>2. CASE TransportSteps
  BY <1>2 DEF TransportSteps, ShutDown, WaitEnds, IdleEnds, Dial, DialFails,
     DialSucceeds, HandshakeFails, HandshakeSucceeds, SendStarts, SendEnds
<1>3. CASE Network
  BY <1>3 DEF Network, KeepaliveTick, Pong, SessionEstablished, LinkLost,
     TimePasses
<1>4. CASE UNCHANGED transportVars
  BY <1>4
<1> QED
  BY <1>1, <1>2, <1>3, <1>4 DEF TransportNext

LEMMA CountersStep == TransportTypeOK /\ [TransportNext]_transportVars => CountersOK'
<1> SUFFICES ASSUME CountersOK, [TransportNext]_transportVars PROVE CountersOK'
  BY DEF TransportTypeOK
<1> USE ConfigAssumption DEF ConfigAssumption, CountersOK, transportVars, link, retry, Interval
<1>1. CASE Caller
  BY <1>1 DEF Caller, Connect, Send, DisconnectStarts, DisconnectEnds
<1>2. CASE ShutDown \/ WaitEnds \/ IdleEnds \/ Dial
  BY <1>2, LowerType DEF ShutDown, WaitEnds, IdleEnds, Dial, Doubled,
     Lower, Reset
<1>3. CASE DialFails \/ DialSucceeds
  BY <1>3 DEF DialFails, DialSucceeds, CountersOnConnect, Retry
<1>4. CASE HandshakeFails \/ HandshakeSucceeds
  BY <1>4 DEF HandshakeFails, HandshakeSucceeds, Dropped, Retry
<1>5. CASE SendStarts \/ SendEnds
  BY <1>5 DEF SendStarts, SendEnds, Dropped, Retry
<1>6. CASE KeepaliveTick
  BY <1>6 DEF KeepaliveTick, Dropped, Retry
<1>7. CASE Pong \/ SessionEstablished \/ LinkLost
  BY <1>7 DEF Pong, SessionEstablished, LinkLost, Reset, Dropped, Retry
<1>8. CASE TimePasses
  BY <1>8 DEF TimePasses, LongestSilence, Lower
<1>9. CASE UNCHANGED transportVars
  BY <1>9
<1> QED
  BY <1>1, <1>2, <1>3, <1>4, <1>5, <1>6, <1>7, <1>8, <1>9 DEF TransportNext, TransportSteps, Network

LEMMA TypeStep == TransportTypeOK /\ [TransportNext]_transportVars => TransportTypeOK'
<1> SUFFICES ASSUME TransportTypeOK, [TransportNext]_transportVars PROVE TransportTypeOK'
  OBVIOUS
<1> USE DEF TransportTypeOK, transportVars, Dropped, Retry
<1>1. CASE Caller
  BY <1>1, FlagsStep, CountersStep DEF Caller, Connect, Send, DisconnectStarts,
     DisconnectEnds
<1>2. CASE TransportSteps
  BY <1>2, FlagsStep, CountersStep DEF TransportSteps, ShutDown, WaitEnds, IdleEnds,
     Dial, DialFails, DialSucceeds, HandshakeFails, HandshakeSucceeds,
     SendStarts, SendEnds
<1>3. CASE Network
  BY <1>3, FlagsStep, CountersStep DEF Network, KeepaliveTick, Pong,
     SessionEstablished, LinkLost, TimePasses
<1>4. CASE UNCHANGED transportVars
  BY <1>4, FlagsStep, CountersStep
<1> QED
  BY <1>1, <1>2, <1>3, <1>4 DEF TransportNext
------------------------------------------------------------------------------
\* A torn down connection leaves the flag down and the task waiting or ended.
LEMMA DroppedLemma ==
    ASSUME TransportTypeOK, Dropped
    PROVE  connected' = FALSE /\ pc' \in {"waiting", "idling", "ended"}
  BY DEF Dropped, Retry

LEMMA FlagStep ==
  TransportTypeOK /\ FlagFollowsLink /\ [TransportNext]_transportVars => FlagFollowsLink'
<1> SUFFICES ASSUME TransportTypeOK, FlagFollowsLink, [TransportNext]_transportVars
    PROVE  FlagFollowsLink'
  OBVIOUS
<1> USE DEF FlagFollowsLink, TransportTypeOK, transportVars
<1>1. CASE Caller
  BY <1>1 DEF Caller, Connect, Send, DisconnectStarts, DisconnectEnds
<1>2. CASE TransportSteps
  <2>1. CASE ShutDown \/ WaitEnds \/ IdleEnds \/ Dial
    BY <2>1 DEF ShutDown, WaitEnds, IdleEnds, Dial
  <2>2. CASE DialFails \/ DialSucceeds
    BY <2>2 DEF DialFails, DialSucceeds, Retry
  <2>3. CASE HandshakeFails \/ HandshakeSucceeds
    BY <2>3, DroppedLemma DEF HandshakeFails, HandshakeSucceeds
  <2>4. CASE SendStarts \/ SendEnds
    BY <2>4, DroppedLemma DEF SendStarts, SendEnds
  <2> QED
    BY <1>2, <2>1, <2>2, <2>3, <2>4 DEF TransportSteps
<1>3. CASE Network
  BY <1>3, DroppedLemma DEF Network, KeepaliveTick, Pong, SessionEstablished,
     LinkLost, TimePasses
<1>4. CASE UNCHANGED transportVars
  BY <1>4
<1> QED
  BY <1>1, <1>2, <1>3, <1>4 DEF TransportNext

\* NoReconnectStorm alone is not inductive: what bounds the dials is that each
\* but the current one was counted as an attempt, and that attempts stay under
\* the cap wherever the task may still dial.
TriesAreCounted ==
    /\ pc \in {"top", "waiting", "idling"} => tries <= attempt
    /\ pc \in {"connecting", "handshake", "up", "sending"} => tries <= attempt + 1
    /\ pc \notin {"off", "idling", "ended"} /\ MaxAttempts > 0 => attempt <= MaxAttempts
    /\ NoReconnectStorm

LEMMA TriesStep ==
  TransportTypeOK /\ TriesAreCounted /\ [TransportNext]_transportVars => TriesAreCounted'
<1> SUFFICES ASSUME TransportTypeOK, TriesAreCounted, [TransportNext]_transportVars
    PROVE  TriesAreCounted'
  OBVIOUS
<1> USE ConfigAssumption DEF ConfigAssumption, TriesAreCounted, NoReconnectStorm,
   TransportTypeOK, CountersOK, retry, Exhausted
<1>1. CASE Connect \/ Send \/ DisconnectStarts \/ DisconnectEnds
  BY <1>1 DEF Connect, Send, DisconnectStarts, DisconnectEnds
<1>2. CASE ShutDown \/ WaitEnds \/ IdleEnds \/ Dial
  BY <1>2 DEF ShutDown, WaitEnds, IdleEnds, Dial, Reset
<1>3. CASE DialFails \/ DialSucceeds
  BY <1>3 DEF DialFails, DialSucceeds, CountersOnConnect, Retry
<1>4. CASE HandshakeFails \/ HandshakeSucceeds
  BY <1>4 DEF HandshakeFails, HandshakeSucceeds, Dropped, Retry
<1>5. CASE SendStarts \/ SendEnds
  BY <1>5 DEF SendStarts, SendEnds, Dropped, Retry
<1>6. CASE KeepaliveTick
  BY <1>6 DEF KeepaliveTick, Dropped, Retry
<1>7. CASE Pong \/ SessionEstablished
  BY <1>7 DEF Pong, SessionEstablished, Reset
<1>8. CASE LinkLost
  BY <1>8 DEF LinkLost, Dropped, Retry
<1>9. CASE TimePasses \/ UNCHANGED transportVars
  BY <1>9 DEF TimePasses, transportVars
<1> QED
  BY <1>1, <1>2, <1>3, <1>4, <1>5, <1>6, <1>7, <1>8, <1>9 DEF TransportNext, Caller, TransportSteps,
     Network

\* DeadPeerIsNoticed alone is not inductive: ticks become due once in an
\* interval, so the pings since the last pong are bounded by the silence.
PingsFollowSilence ==
    /\ due => 4 * pings + phase <= silence + 3
    /\ ~due => 4 * pings + phase <= silence + 7
    /\ DeadPeerIsNoticed

LEMMA PingsStep ==
  TransportTypeOK /\ PingsFollowSilence /\ [TransportNext]_transportVars => PingsFollowSilence'
<1> SUFFICES ASSUME TransportTypeOK, PingsFollowSilence, [TransportNext]_transportVars
    PROVE  PingsFollowSilence'
  OBVIOUS
<1> USE ConfigAssumption DEF ConfigAssumption, PingsFollowSilence, DeadPeerIsNoticed,
   TransportTypeOK, CountersOK, FlagsOK, link, Interval
<1>1. CASE Caller
  BY <1>1 DEF Caller, Connect, Send, DisconnectStarts, DisconnectEnds
<1>2. CASE TransportSteps
  BY <1>2 DEF TransportSteps, ShutDown, WaitEnds, IdleEnds, Dial, DialFails,
     DialSucceeds, HandshakeFails, HandshakeSucceeds, SendStarts, SendEnds
<1>3. CASE KeepaliveTick
  BY <1>3 DEF KeepaliveTick, Stale, Deadline
<1>4. CASE Pong \/ SessionEstablished \/ LinkLost
  BY <1>4 DEF Pong, SessionEstablished, LinkLost
<1>5. CASE TimePasses
  BY <1>5 DEF TimePasses, LongestSilence, Lower
<1>6. CASE UNCHANGED transportVars
  BY <1>6 DEF transportVars
<1> QED
  BY <1>1, <1>2, <1>3, <1>4, <1>5, <1>6 DEF TransportNext, Network
------------------------------------------------------------------------------
TransportInv == TransportTypeOK /\ FlagFollowsLink /\ TriesAreCounted /\ PingsFollowSilence

\* The inductive invariant holds in every reachable state of the transport.
THEOREM TransportInvariance == TransportSpec => []TransportInv
<1>1. TransportInit => TransportInv
  <2>1. TransportInit => FlagFollowsLink
    BY DEF TransportInit, FlagFollowsLink
  <2>2. TransportInit => TriesAreCounted
    BY ConfigAssumption DEF ConfigAssumption, TransportInit, TriesAreCounted, NoReconnectStorm
  <2>3. TransportInit => PingsFollowSilence
    BY DEF TransportInit, PingsFollowSilence, DeadPeerIsNoticed
  <2> QED
    BY <2>1, <2>2, <2>3, InitType DEF TransportInv
<1>2. TransportInv /\ [TransportNext]_transportVars => TransportInv'
  BY TypeStep, FlagStep, TriesStep, PingsStep DEF TransportInv
<1> QED
  BY <1>1, <1>2, PTL DEF TransportSpec

\* The state has its types, whatever the configuration of the transport.
THEOREM TransportTypeCorrect == TransportSpec => []TransportTypeOK
  BY TransportInvariance, PTL DEF TransportInv

\* NativeState.connected is up exactly while there is a link, on every exit
\* from the handshake and from the select loop.
THEOREM FlagIsHonest == TransportSpec => []FlagFollowsLink
  BY TransportInvariance, PTL DEF TransportInv

\* Whatever the cap: no more dials than the cap and the first one between two
\* accepted sessions (issue #358).
THEOREM DialsAreBounded == TransportSpec => []NoReconnectStorm
  BY TransportInvariance, PTL DEF TransportInv, TriesAreCounted

\* However long sends stall the task, at most four pings stay unanswered.
THEOREM PingsAreBounded == TransportSpec => []DeadPeerIsNoticed
  BY TransportInvariance, PTL DEF TransportInv, PingsFollowSilence

\* No dial starts once disconnect has asked for the shutdown.
THEOREM ShutdownStops == TransportSpec => ShutdownIsFinal
<1>1. TransportInv /\ [TransportNext]_transportVars
        => [shutdown /\ pc' = "connecting" => pc = "connecting"]_transportVars
  <2> SUFFICES ASSUME TransportTypeOK, TransportNext, shutdown, pc' = "connecting"
      PROVE  pc = "connecting"
    BY DEF TransportInv
  <2>1. CASE Caller
    BY <2>1 DEF Caller, Connect, Send, DisconnectStarts, DisconnectEnds
  <2>2. CASE TransportSteps
    BY <2>2, DroppedLemma DEF TransportSteps, ShutDown, WaitEnds, IdleEnds, Dial,
       MayConnect, DialFails, DialSucceeds, HandshakeFails,
       HandshakeSucceeds, SendStarts, SendEnds, Retry
  <2>3. CASE Network
    BY <2>3, DroppedLemma DEF Network, KeepaliveTick, Pong, SessionEstablished,
       LinkLost, TimePasses
  <2> QED
    BY <2>1, <2>2, <2>3 DEF TransportNext
<1> QED
  BY <1>1, TransportInvariance, PTL DEF TransportSpec, ShutdownIsFinal
==============================================================================
