------------------------ MODULE AuthorityCell_proofs ------------------------
(***************************************************************************)
(* Theorems about the authority cell: its types, the exclusion of admitted *)
(* actions by a drained handoff, the epochs that stay out, the exactness   *)
(* of owner tokens, what the LAN shows and for whom an action acts, for    *)
(* any number of actors, handoff tasks and epochs.                         *)
(***************************************************************************)
EXTENDS AuthorityCell, FiniteSetTheorems, TLAPS

\* Places a task reaches only behind the fence it raised, and only outside it.
FencedPcs == {"register", "drain", "drowsy", "asleep", "drained", "commit", "lower",
              "lower last", "discard"}
SharedPcs == {"hide", "install", "show", "clear", "take", "take runtime"}
OutsidePcs == {"owner install", "retire", "retire runtime"}

\* The kind of a change fits the place it is at.
Unfenced == {"connect", "retire"}
Fits(r) == /\ r.pc \in FencedPcs \cup {"lane", "check", "unlock"} => r.kind \notin Unfenced
           /\ r.pc \in OutsidePcs => r.kind \in Unfenced
KindFits == \A h \in Handoffs : Fits(handoff[h])

Holding(r) == \/ r.pc \in FencedPcs
              \/ r.pc \in SharedPcs /\ r.kind \notin Unfenced
Holders == {h \in Handoffs : Holding(handoff[h])}

\* Past the drain, as Drained says of a task.
Past(r) == /\ r.kind \notin Unfenced
           /\ r.pc \in {"drained", "commit", "hide", "install", "show",
                        "clear", "take", "take runtime", "lower"}

\* owner_action_fences counts the tasks that raised it and have not lowered it.
FencesCounted == fences = Cardinality(Holders)

\* An actor is counted from its increment to its decrement.
Countable == {"relook", "confirm", "acting", "leave"}
CountedAreInside == counted = {a \in Actors : actor[a].pc \in Countable}

\* Behind the drain nobody acts, nor is one step from acting.
NobodyConfirms == \A h \in Handoffs, a \in Actors :
    Drained(h) => actor[a].pc \notin {"confirm", "acting"}

Inv == TypeOK /\ KindFits /\ FencesCounted /\ CountedAreInside /\ NobodyConfirms

-----------------------------------------------------------------------------
LEMMA HoldersFinite == IsFiniteSet(Holders)
  BY CellAssumption, FS_Subset DEF Holders, CellAssumption

\* Whoever is drained holds the fence, and while anyone does it is not zero.
LEMMA DrainedMeansFenced ==
    ASSUME FencesCounted, NEW h \in Handoffs, Drained(h)
    PROVE  fences # 0
  <1>1. h \in Holders
    BY DEF Drained, Outside, Unfenced, Holders, Holding, FencedPcs, SharedPcs
  <1> QED
    BY <1>1, HoldersFinite, FS_EmptySet DEF FencesCounted

LEMMA InitInv == Init => Inv
  <1> SUFFICES ASSUME Init PROVE Inv
    OBVIOUS
  <1>1. TypeOK
    BY DEF Init, TypeOK, Actor, Handoff, IdleActor, IdleHandoff, NoStamp, NoToken, Unmarked,
           Stamps, ActorPcs, HandoffPcs, NoOne
  <1>2. KindFits
    BY DEF Init, KindFits, Fits, IdleHandoff, FencedPcs, OutsidePcs
  <1>3. FencesCounted
    <2>1. Holders = {}
      BY DEF Init, Holders, Holding, IdleHandoff, FencedPcs, SharedPcs, Unfenced
    <2> QED
      BY <2>1, FS_EmptySet DEF Init, FencesCounted
  <1>4. CountedAreInside
    BY DEF Init, CountedAreInside, IdleActor, Countable
  <1>5. NobodyConfirms
    BY DEF Init, NobodyConfirms, IdleActor
  <1> QED
    BY <1>1, <1>2, <1>3, <1>4, <1>5 DEF Inv

-----------------------------------------------------------------------------
(* Types.                                                                  *)

LEMMA RefuseTyped ==
    ASSUME TypeOK, NEW a \in Actors, NEW then \in {"idle", "await"}, Refuse(a, then)
    PROVE  /\ actor' \in [Actors -> Actor]
           /\ \A b \in Actors \ {a} : actor'[b] = actor[b]
           /\ actor'[a].pc = then
  <1>1. actor[a] \in Actor
    BY DEF TypeOK
  <1>2. IdleActor(actor[a].token) \in Actor /\ IdleActor(actor[a].token).pc = "idle"
    BY <1>1 DEF IdleActor, NoToken, Unmarked, NoStamp, Stamps, Actor, ActorPcs
  <1>3. [actor[a] EXCEPT !.pc = then] \in Actor /\ [actor[a] EXCEPT !.pc = then].pc = then
    BY <1>1 DEF Actor, ActorPcs
  <1>4. CASE then = "idle"
    <2>1. actor' = [actor EXCEPT ![a] = IdleActor(actor[a].token)]
      BY <1>4 DEF Refuse
    <2> QED
      BY <1>2, <1>4, <2>1 DEF TypeOK
  <1>5. CASE then # "idle"
    <2>1. actor' = [actor EXCEPT ![a] = [actor[a] EXCEPT !.pc = then]]
      BY <1>5 DEF Refuse
    <2> QED
      BY <1>3, <2>1 DEF TypeOK
  <1> QED
    BY <1>4, <1>5

LEMMA ActorTyped ==
    ASSUME TypeOK, NEW a \in Actors
    PROVE  /\ actor[a] \in Actor
           /\ actor[a].kind \in {"owner", "exact", "transport", "runtime"}
           /\ actor[a].token \in [current : Stamps, through : Nat, era : Nat]
           /\ actor[a].then \in {"idle", "await"}
  BY DEF TypeOK, Actor

\* Replacing one actor's record by a record of the type keeps the type.
LEMMA UpdateTyped ==
    ASSUME TypeOK, NEW a \in Actors, NEW r \in Actor, actor' = [actor EXCEPT ![a] = r]
    PROVE  actor' \in [Actors -> Actor]
  BY DEF TypeOK

LEMMA PcTyped ==
    ASSUME TypeOK, NEW a \in Actors, NEW pc \in ActorPcs,
           \/ actor' = [actor EXCEPT ![a].pc = pc]
           \/ \E then \in {"idle", "await"} :
                 actor' = [actor EXCEPT ![a].pc = pc, ![a].then = then]
           \/ \E woken \in BOOLEAN :
                 actor' = [actor EXCEPT ![a].pc = pc, ![a].woken = woken]
    PROVE  actor' \in [Actors -> Actor]
  <1>1. actor[a] \in Actor
    BY ActorTyped
  <1>2. CASE actor' = [actor EXCEPT ![a].pc = pc]
    <2>1. [actor[a] EXCEPT !.pc = pc] \in Actor
      BY <1>1 DEF Actor
    <2> QED
      BY <2>1, <1>2, UpdateTyped
  <1>3. ASSUME NEW then \in {"idle", "await"},
               actor' = [actor EXCEPT ![a].pc = pc, ![a].then = then]
        PROVE  actor' \in [Actors -> Actor]
    <2>1. [actor[a] EXCEPT !.pc = pc, !.then = then] \in Actor
      BY <1>1 DEF Actor
    <2>2. actor' = [actor EXCEPT ![a] = [actor[a] EXCEPT !.pc = pc, !.then = then]]
      BY <1>3 DEF TypeOK
    <2> QED
      BY <2>1, <2>2, UpdateTyped
  <1>4. ASSUME NEW woken \in BOOLEAN,
               actor' = [actor EXCEPT ![a].pc = pc, ![a].woken = woken]
        PROVE  actor' \in [Actors -> Actor]
    <2>1. [actor[a] EXCEPT !.pc = pc, !.woken = woken] \in Actor
      BY <1>1 DEF Actor
    <2>2. actor' = [actor EXCEPT ![a] = [actor[a] EXCEPT !.pc = pc, !.woken = woken]]
      BY <1>4 DEF TypeOK
    <2> QED
      BY <2>1, <2>2, UpdateTyped
  <1> QED
    BY <1>2, <1>3, <1>4

LEMMA ActorStepTyped ==
    ASSUME TypeOK, NEW a \in Actors, Ongoing(a) \/ \E kind \in Kinds : Ask(a, kind)
    PROVE  actor' \in [Actors -> Actor]
  <1>1. ASSUME NEW kind \in Kinds, Ask(a, kind) PROVE actor' \in [Actors -> Actor]
    <2>1. PICK stamp \in IF kind = "runtime" THEN Known \ {NoStamp} ELSE {NoStamp} :
             actor' = [actor EXCEPT ![a].pc = "look", ![a].kind = kind,
                           ![a].seen = IF kind = "exact" THEN Unmarked(actor[a].token)
                                       ELSE [current |-> stamp, through |-> 0]]
      BY <1>1 DEF Ask
    <2>2. stamp \in Stamps
      <3>1. NoStamp \in Stamps
        BY DEF NoStamp, Stamps
      <3>2. \A h \in Handoffs : handoff[h].stamp \in Stamps
        BY DEF TypeOK, Handoff
      <3>3. current \in Stamps
        BY DEF TypeOK
      <3>4. Known \subseteq Stamps
        BY <3>2, <3>3 DEF Known
      <3> QED
        BY <3>1, <3>4
    <2>3. PICK seen : seen = IF kind = "exact" THEN Unmarked(actor[a].token)
                             ELSE [current |-> stamp, through |-> 0]
      OBVIOUS
    <2>4. seen \in [current : Stamps, through : Nat]
      BY <2>2, <2>3, ActorTyped DEF Unmarked
    <2>5. kind \in {"owner", "exact", "transport", "runtime"}
      BY CellAssumption DEF CellAssumption
    <2>6. [actor[a] EXCEPT !.pc = "look", !.kind = kind, !.seen = seen] \in Actor
      <3>1. actor[a] \in Actor
        BY ActorTyped
      <3>2. "look" \in ActorPcs
        BY DEF ActorPcs
      <3> QED
        BY <2>4, <2>5, <3>1, <3>2 DEF Actor
    <2>7. actor' = [actor EXCEPT ![a] =
             [actor[a] EXCEPT !.pc = "look", !.kind = kind, !.seen = seen]]
      BY <2>1, <2>3
    <2> QED
      BY <2>6, <2>7, UpdateTyped
  <1>2. CASE FirstLook(a)
    <2>1. CASE fences # 0
      <3>1. Fenced(a) \in {"idle", "await"} /\ Refuse(a, Fenced(a))
        BY <1>2, <2>1 DEF FirstLook, Fenced
      <3> QED
        BY <3>1, RefuseTyped
    <2>2. CASE fences = 0
      <3>1. actor' = [actor EXCEPT ![a].pc = "observe"]
        BY <1>2, <2>2 DEF FirstLook
      <3> QED
        BY <3>1, PcTyped DEF ActorPcs
    <2> QED
      BY <2>1, <2>2
  <1>3. CASE Observe(a)
    <2>1. CASE actor' = [actor EXCEPT ![a].pc = "count", ![a].seen = State]
      <3>1. State \in [current : Stamps, through : Nat]
        BY DEF State, TypeOK
      <3>2. [actor[a] EXCEPT !.pc = "count", !.seen = State] \in Actor
        BY <3>1, ActorTyped DEF Actor, ActorPcs
      <3> QED
        BY <2>1, <3>2, UpdateTyped
    <2>2. CASE actor' = [actor EXCEPT ![a].pc = "count"]
      BY <2>2, PcTyped DEF ActorPcs
    <2>3. CASE Refuse(a, "idle")
      BY <2>3, RefuseTyped
    <2> QED
      BY <1>3, <2>1, <2>2, <2>3 DEF Observe
  <1>4. CASE CountIn(a)
    BY <1>4, PcTyped DEF CountIn, ActorPcs
  <1>5. CASE SecondLook(a)
    <2>1. CASE fences # 0
      <3>1. actor' = [actor EXCEPT ![a].pc = "leave", ![a].then = Fenced(a)]
        BY <1>5, <2>1 DEF SecondLook
      <3>2. Fenced(a) \in {"idle", "await"}
        BY DEF Fenced
      <3> QED
        BY <3>1, <3>2, PcTyped DEF ActorPcs
    <2>2. CASE fences = 0
      <3>1. actor' = [actor EXCEPT ![a].pc = "confirm"]
        BY <1>5, <2>2 DEF SecondLook
      <3> QED
        BY <3>1, PcTyped DEF ActorPcs
    <2> QED
      BY <2>1, <2>2
  <1>6. CASE Admit(a)
    <2>1. PICK token : token = IF actor[a].kind = "owner"
                               THEN [current |-> current, through |-> through, era |-> era]
                               ELSE actor[a].token
      OBVIOUS
    <2>2. token \in [current : Stamps, through : Nat, era : Nat]
      BY <2>1, ActorTyped DEF TypeOK
    <2>3. [actor[a] EXCEPT !.pc = "acting", !.token = token] \in Actor
      BY <2>2, ActorTyped DEF Actor, ActorPcs
    <2>4. actor' = [actor EXCEPT ![a] = [actor[a] EXCEPT !.pc = "acting", !.token = token]]
      BY <1>6, <2>1 DEF Admit
    <2> QED
      BY <2>3, <2>4, UpdateTyped
  <1>7. CASE Reject(a)
    BY <1>7, PcTyped DEF Reject, ActorPcs
  <1>8. CASE CountOut(a)
    BY <1>8, ActorTyped, RefuseTyped, PcTyped DEF CountOut, ActorPcs
  <1>9. CASE NotifyDrained(a)
    BY <1>9, ActorTyped, RefuseTyped DEF NotifyDrained
  <1>10. CASE RegisterWaiter(a)
    BY <1>10, PcTyped DEF RegisterWaiter, ActorPcs
  <1>11. CASE LookThenSleep(a)
    <2>1. CASE fences = 0
      <3>1. actor' = [actor EXCEPT ![a].pc = "look", ![a].woken = FALSE]
        BY <1>11, <2>1 DEF LookThenSleep
      <3> QED
        BY <3>1, PcTyped DEF ActorPcs
    <2>2. CASE fences # 0
      <3>1. actor' = [actor EXCEPT ![a].pc = "drowsy"]
        BY <1>11, <2>2 DEF LookThenSleep
      <3> QED
        BY <3>1, PcTyped DEF ActorPcs
    <2> QED
      BY <2>1, <2>2
  <1>12. CASE FallAsleep(a)
    BY <1>12, PcTyped DEF FallAsleep, ActorPcs
  <1>13. CASE WakeWaiter(a)
    BY <1>13, PcTyped DEF WakeWaiter, ActorPcs
  <1> QED
    BY <1>1, <1>2, <1>3, <1>4, <1>5, <1>6, <1>7, <1>8, <1>9, <1>10, <1>11, <1>12, <1>13
       DEF Ongoing

-----------------------------------------------------------------------------
(* Changes of authority.                                                   *)

\* What a step of a handoff task does to its own record and to the fence count.
Moved(h, r) ==
    /\ handoff' = [handoff EXCEPT ![h] = r]
    /\ Fits(r)
    /\ \/ (Holding(r) <=> Holding(handoff[h])) /\ fences' = fences
       \/ ~Holding(handoff[h]) /\ Holding(r) /\ fences' = fences + 1
       \/ Holding(handoff[h]) /\ ~Holding(r) /\ fences' = fences - 1
    /\ Past(r) => Past(handoff[h]) \/ counted = {}

LEMMA RecordTyped ==
    ASSUME TypeOK, KindFits, NEW h \in Handoffs
    PROVE  /\ handoff[h] \in Handoff /\ IdleHandoff \in Handoff
           /\ Fits(handoff[h]) /\ Fits(IdleHandoff)
           /\ ~Holding(IdleHandoff) /\ ~Past(IdleHandoff)
  <1>1. handoff[h] \in Handoff
    BY DEF TypeOK
  <1>2. IdleHandoff \in Handoff
    BY DEF IdleHandoff, Handoff, HandoffPcs, NoStamp, Stamps
  <1>3. Fits(IdleHandoff) /\ ~Holding(IdleHandoff) /\ ~Past(IdleHandoff)
    BY DEF IdleHandoff, Fits, Holding, Past, FencedPcs, SharedPcs, OutsidePcs
  <1> QED
    BY <1>1, <1>2, <1>3 DEF KindFits

LEMMA NextTyped ==
    ASSUME TypeOK
    PROVE  /\ [epoch |-> next, guest |-> FALSE] \in Stamps
           /\ \A g \in BOOLEAN : [epoch |-> next, guest |-> g] \in Stamps
           /\ current \in Stamps /\ runtime \in Stamps /\ NoStamp \in Stamps
  BY DEF TypeOK, Stamps, NoStamp


\* Every step a handoff task takes is a move of its record.
LEMMA ChangeMoves ==
    ASSUME TypeOK, KindFits, NEW h \in Handoffs, Starting(h) \/ Changing(h)
    PROVE  \E r \in Handoff : Moved(h, r)
  <1>1. /\ handoff[h] \in Handoff /\ IdleHandoff \in Handoff
        /\ Fits(handoff[h]) /\ Fits(IdleHandoff)
        /\ ~Holding(IdleHandoff) /\ ~Past(IdleHandoff)
    BY RecordTyped
  <1> DEFINE at(pc) == [handoff[h] EXCEPT !.pc = pc]
  <1>2. CASE TakeLane(h)
    <2> DEFINE r == at("check")
    <2>1. r \in Handoff /\ r.pc = "check" /\ r.kind = handoff[h].kind
      BY <1>1 DEF Handoff, HandoffPcs
    <2>2. /\ handoff[h].pc = "lane" /\ fences' = fences
        /\ handoff' = [handoff EXCEPT ![h] = r]
      BY <1>2 DEF TakeLane, Goto, TypeOK
    <2> HIDE DEF r
    <2>3. Moved(h, r)
      BY <1>1, <1>2, <2>1, <2>2 DEF Moved, TakeLane, Outside, StillExpected, Fits, Holding, Past, FencedPcs, SharedPcs, OutsidePcs, Unfenced
    <2> QED
      BY <2>1, <2>3
  <1>3. CASE RaiseFence(h)
    <2>1. CASE StillExpected(h)
      <3> DEFINE r == at("register")
      <3>1. r \in Handoff /\ r.pc = "register" /\ r.kind = handoff[h].kind
        BY <1>1 DEF Handoff, HandoffPcs
      <3>2. /\ handoff[h].pc = "check" /\ fences' = fences + 1
          /\ handoff' = [handoff EXCEPT ![h] = r]
        BY <1>3, <2>1 DEF RaiseFence, Goto, TypeOK
      <3> HIDE DEF r
      <3>3. Moved(h, r)
        BY <1>1, <1>3, <2>1, <3>1, <3>2 DEF Moved, RaiseFence, Outside, StillExpected, Fits, Holding, Past, FencedPcs, SharedPcs, OutsidePcs, Unfenced
      <3> QED
        BY <3>1, <3>3
    <2>2. CASE ~StillExpected(h)
      <3> DEFINE r == at("unlock")
      <3>1. r \in Handoff /\ r.pc = "unlock" /\ r.kind = handoff[h].kind
        BY <1>1 DEF Handoff, HandoffPcs
      <3>2. /\ handoff[h].pc = "check" /\ fences' = fences
          /\ handoff' = [handoff EXCEPT ![h] = r]
        BY <1>3, <2>2 DEF RaiseFence, Goto, TypeOK
      <3> HIDE DEF r
      <3>3. Moved(h, r)
        BY <1>1, <1>3, <2>2, <3>1, <3>2 DEF Moved, RaiseFence, Outside, StillExpected, Fits, Holding, Past, FencedPcs, SharedPcs, OutsidePcs, Unfenced
      <3> QED
        BY <3>1, <3>3
    <2> QED
      BY <1>3, <2>1, <2>2 DEF RaiseFence
  <1>4. CASE RegisterDrain(h)
    <2> DEFINE r == at("drain")
    <2>1. r \in Handoff /\ r.pc = "drain" /\ r.kind = handoff[h].kind
      BY <1>1 DEF Handoff, HandoffPcs
    <2>2. /\ handoff[h].pc = "register" /\ fences' = fences
        /\ handoff' = [handoff EXCEPT ![h] = r]
      BY <1>4 DEF RegisterDrain, Goto, TypeOK
    <2> HIDE DEF r
    <2>3. Moved(h, r)
      BY <1>1, <1>4, <2>1, <2>2 DEF Moved, RegisterDrain, Outside, StillExpected, Fits, Holding, Past, FencedPcs, SharedPcs, OutsidePcs, Unfenced
    <2> QED
      BY <2>1, <2>3
  <1>5. CASE Drain(h)
    <2>1. CASE counted = {}
      <3> DEFINE r == [handoff[h] EXCEPT !.pc = "drained", !.woken = FALSE]
      <3>1. r \in Handoff /\ r.pc = "drained" /\ r.kind = handoff[h].kind
        BY <1>1 DEF Handoff, HandoffPcs
      <3>2. /\ handoff[h].pc = "drain" /\ fences' = fences
          /\ handoff' = [handoff EXCEPT ![h] = r]
        BY <1>5, <2>1 DEF Drain, Goto, TypeOK
      <3> HIDE DEF r
      <3>3. Moved(h, r)
        BY <1>1, <1>5, <2>1, <3>1, <3>2 DEF Moved, Drain, Outside, StillExpected, Fits, Holding, Past, FencedPcs, SharedPcs, OutsidePcs, Unfenced
      <3> QED
        BY <3>1, <3>3
    <2>2. CASE counted # {}
      <3> DEFINE r == at("drowsy")
      <3>1. r \in Handoff /\ r.pc = "drowsy" /\ r.kind = handoff[h].kind
        BY <1>1 DEF Handoff, HandoffPcs
      <3>2. /\ handoff[h].pc = "drain" /\ fences' = fences
          /\ handoff' = [handoff EXCEPT ![h] = r]
        BY <1>5, <2>2 DEF Drain, Goto, TypeOK
      <3> HIDE DEF r
      <3>3. Moved(h, r)
        BY <1>1, <1>5, <2>2, <3>1, <3>2 DEF Moved, Drain, Outside, StillExpected, Fits, Holding, Past, FencedPcs, SharedPcs, OutsidePcs, Unfenced
      <3> QED
        BY <3>1, <3>3
    <2> QED
      BY <1>5, <2>1, <2>2 DEF Drain
  <1>6. CASE SleepDrain(h)
    <2> DEFINE r == at("asleep")
    <2>1. r \in Handoff /\ r.pc = "asleep" /\ r.kind = handoff[h].kind
      BY <1>1 DEF Handoff, HandoffPcs
    <2>2. /\ handoff[h].pc = "drowsy" /\ fences' = fences
        /\ handoff' = [handoff EXCEPT ![h] = r]
      BY <1>6 DEF SleepDrain, Goto, TypeOK
    <2> HIDE DEF r
    <2>3. Moved(h, r)
      BY <1>1, <1>6, <2>1, <2>2 DEF Moved, SleepDrain, Outside, StillExpected, Fits, Holding, Past, FencedPcs, SharedPcs, OutsidePcs, Unfenced
    <2> QED
      BY <2>1, <2>3
  <1>7. CASE WakeDrain(h)
    <2> DEFINE r == [handoff[h] EXCEPT !.pc = "register", !.woken = FALSE]
    <2>1. r \in Handoff /\ r.pc = "register" /\ r.kind = handoff[h].kind
      BY <1>1 DEF Handoff, HandoffPcs
    <2>2. /\ handoff[h].pc = "asleep" /\ fences' = fences
        /\ handoff' = [handoff EXCEPT ![h] = r]
      BY <1>7 DEF WakeDrain, Goto, TypeOK
    <2> HIDE DEF r
    <2>3. Moved(h, r)
      BY <1>1, <1>7, <2>1, <2>2 DEF Moved, WakeDrain, Outside, StillExpected, Fits, Holding, Past, FencedPcs, SharedPcs, OutsidePcs, Unfenced
    <2> QED
      BY <2>1, <2>3
  <1>8. CASE Revalidate(h)
    <2>1. CASE ~StillExpected(h)
      <3> DEFINE r == at("lower")
      <3>1. r \in Handoff /\ r.pc = "lower" /\ r.kind = handoff[h].kind
        BY <1>1 DEF Handoff, HandoffPcs
      <3>2. /\ handoff[h].pc = "drained" /\ fences' = fences
          /\ handoff' = [handoff EXCEPT ![h] = r]
        BY <1>8, <2>1 DEF Revalidate, Goto, TypeOK
      <3> HIDE DEF r
      <3>3. Moved(h, r)
        BY <1>1, <1>8, <2>1, <3>1, <3>2 DEF Moved, Revalidate, Outside, StillExpected, Fits, Holding, Past, FencedPcs, SharedPcs, OutsidePcs, Unfenced
      <3> QED
        BY <3>1, <3>3
    <2>2. CASE StillExpected(h) /\ handoff[h].kind = "shutdown"
      <3> DEFINE r == at("hide")
      <3>1. r \in Handoff /\ r.pc = "hide" /\ r.kind = handoff[h].kind
        BY <1>1 DEF Handoff, HandoffPcs
      <3>2. /\ handoff[h].pc = "drained" /\ fences' = fences
          /\ handoff' = [handoff EXCEPT ![h] = r]
        BY <1>8, <2>2 DEF Revalidate, Goto, TypeOK
      <3> HIDE DEF r
      <3>3. Moved(h, r)
        BY <1>1, <1>8, <2>2, <3>1, <3>2 DEF Moved, Revalidate, Outside, StillExpected, Fits, Holding, Past, FencedPcs, SharedPcs, OutsidePcs, Unfenced
      <3> QED
        BY <3>1, <3>3
    <2>3. CASE StillExpected(h) /\ handoff[h].kind # "shutdown"
      <3> DEFINE r == at("commit")
      <3>1. r \in Handoff /\ r.pc = "commit" /\ r.kind = handoff[h].kind
        BY <1>1 DEF Handoff, HandoffPcs
      <3>2. /\ handoff[h].pc = "drained" /\ fences' = fences
          /\ handoff' = [handoff EXCEPT ![h] = r]
        BY <1>8, <2>3 DEF Revalidate, Goto, TypeOK
      <3> HIDE DEF r
      <3>3. Moved(h, r)
        BY <1>1, <1>8, <2>3, <3>1, <3>2 DEF Moved, Revalidate, Outside, StillExpected, Fits, Holding, Past, FencedPcs, SharedPcs, OutsidePcs, Unfenced
      <3> QED
        BY <3>1, <3>3
    <2> QED
      BY <1>8, <2>1, <2>2, <2>3 DEF Revalidate
  <1>9. CASE Discard(h)
    <2> DEFINE r == at("discard")
    <2>1. r \in Handoff /\ r.pc = "discard" /\ r.kind = handoff[h].kind
      BY <1>1 DEF Handoff, HandoffPcs
    <2>2. /\ handoff[h].pc = "commit" /\ fences' = fences
        /\ handoff' = [handoff EXCEPT ![h] = r]
      BY <1>9 DEF Discard, Goto, TypeOK
    <2> HIDE DEF r
    <2>3. Moved(h, r)
      BY <1>1, <1>9, <2>1, <2>2 DEF Moved, Discard, Outside, StillExpected, Fits, Holding, Past, FencedPcs, SharedPcs, OutsidePcs, Unfenced
    <2> QED
      BY <2>1, <2>3
  <1>10. CASE Commit(h)
    <2> DEFINE r == at("hide")
    <2>1. r \in Handoff /\ r.pc = "hide" /\ r.kind = handoff[h].kind
      BY <1>1 DEF Handoff, HandoffPcs
    <2>2. /\ handoff[h].pc = "commit" /\ fences' = fences
        /\ handoff' = [handoff EXCEPT ![h] = r]
      BY <1>10 DEF Commit, Goto, TypeOK
    <2> HIDE DEF r
    <2>3. Moved(h, r)
      BY <1>1, <1>10, <2>1, <2>2 DEF Moved, Commit, Outside, StillExpected, Fits, Holding, Past, FencedPcs, SharedPcs, OutsidePcs, Unfenced
    <2> QED
      BY <2>1, <2>3
  <1>11. CASE Hide(h)
    <2>1. CASE handoff[h].kind = "shutdown"
      <3> DEFINE r == at("clear")
      <3>1. r \in Handoff /\ r.pc = "clear" /\ r.kind = handoff[h].kind
        BY <1>1 DEF Handoff, HandoffPcs
      <3>2. /\ handoff[h].pc = "hide" /\ fences' = fences
          /\ handoff' = [handoff EXCEPT ![h] = r]
        BY <1>11, <2>1 DEF Hide, Goto, TypeOK
      <3> HIDE DEF r
      <3>3. Moved(h, r)
        BY <1>1, <1>11, <2>1, <3>1, <3>2 DEF Moved, Hide, Outside, StillExpected, Fits, Holding, Past, FencedPcs, SharedPcs, OutsidePcs, Unfenced
      <3> QED
        BY <3>1, <3>3
    <2>2. CASE handoff[h].kind # "shutdown"
      <3> DEFINE r == at("install")
      <3>1. r \in Handoff /\ r.pc = "install" /\ r.kind = handoff[h].kind
        BY <1>1 DEF Handoff, HandoffPcs
      <3>2. /\ handoff[h].pc = "hide" /\ fences' = fences
          /\ handoff' = [handoff EXCEPT ![h] = r]
        BY <1>11, <2>2 DEF Hide, Goto, TypeOK
      <3> HIDE DEF r
      <3>3. Moved(h, r)
        BY <1>1, <1>11, <2>2, <3>1, <3>2 DEF Moved, Hide, Outside, StillExpected, Fits, Holding, Past, FencedPcs, SharedPcs, OutsidePcs, Unfenced
      <3> QED
        BY <3>1, <3>3
    <2> QED
      BY <1>11, <2>1, <2>2 DEF Hide
  <1>12. CASE Install(h)
    <2> DEFINE r == at("show")
    <2>1. r \in Handoff /\ r.pc = "show" /\ r.kind = handoff[h].kind
      BY <1>1 DEF Handoff, HandoffPcs
    <2>2. /\ handoff[h].pc = "install" /\ fences' = fences
        /\ handoff' = [handoff EXCEPT ![h] = r]
      BY <1>12 DEF Install, Goto, TypeOK
    <2> HIDE DEF r
    <2>3. Moved(h, r)
      BY <1>1, <1>12, <2>1, <2>2 DEF Moved, Install, Outside, StillExpected, Fits, Holding, Past, FencedPcs, SharedPcs, OutsidePcs, Unfenced
    <2> QED
      BY <2>1, <2>3
  <1>13. CASE InstallRefused(h)
    <2>1. CASE Outside(h)
      <3> DEFINE r == IdleHandoff
      <3>1. r \in Handoff /\ r.pc = "idle" /\ r.kind = "shutdown"
        BY <1>1 DEF IdleHandoff
      <3>2. /\ handoff[h].pc = "install" /\ fences' = fences
          /\ handoff' = [handoff EXCEPT ![h] = r]
        BY <1>13, <2>1 DEF InstallRefused, Goto, TypeOK
      <3> HIDE DEF r
      <3>3. Moved(h, r)
        BY <1>1, <1>13, <2>1, <3>1, <3>2 DEF Moved, InstallRefused, Outside, StillExpected, Fits, Holding, Past, FencedPcs, SharedPcs, OutsidePcs, Unfenced
      <3> QED
        BY <3>1, <3>3
    <2>2. CASE ~Outside(h)
      <3> DEFINE r == at("discard")
      <3>1. r \in Handoff /\ r.pc = "discard" /\ r.kind = handoff[h].kind
        BY <1>1 DEF Handoff, HandoffPcs
      <3>2. /\ handoff[h].pc = "install" /\ fences' = fences
          /\ handoff' = [handoff EXCEPT ![h] = r]
        BY <1>13, <2>2 DEF InstallRefused, Goto, TypeOK
      <3> HIDE DEF r
      <3>3. Moved(h, r)
        BY <1>1, <1>13, <2>2, <3>1, <3>2 DEF Moved, InstallRefused, Outside, StillExpected, Fits, Holding, Past, FencedPcs, SharedPcs, OutsidePcs, Unfenced
      <3> QED
        BY <3>1, <3>3
    <2> QED
      BY <1>13, <2>1, <2>2 DEF InstallRefused
  <1>14. CASE Show(h)
    <2>1. CASE Outside(h)
      <3> DEFINE r == IdleHandoff
      <3>1. r \in Handoff /\ r.pc = "idle" /\ r.kind = "shutdown"
        BY <1>1 DEF IdleHandoff
      <3>2. /\ handoff[h].pc = "show" /\ fences' = fences
          /\ handoff' = [handoff EXCEPT ![h] = r]
        BY <1>14, <2>1 DEF Show, Goto, TypeOK
      <3> HIDE DEF r
      <3>3. Moved(h, r)
        BY <1>1, <1>14, <2>1, <3>1, <3>2 DEF Moved, Show, Outside, StillExpected, Fits, Holding, Past, FencedPcs, SharedPcs, OutsidePcs, Unfenced
      <3> QED
        BY <3>1, <3>3
    <2>2. CASE ~Outside(h)
      <3> DEFINE r == at("lower")
      <3>1. r \in Handoff /\ r.pc = "lower" /\ r.kind = handoff[h].kind
        BY <1>1 DEF Handoff, HandoffPcs
      <3>2. /\ handoff[h].pc = "show" /\ fences' = fences
          /\ handoff' = [handoff EXCEPT ![h] = r]
        BY <1>14, <2>2 DEF Show, Goto, TypeOK
      <3> HIDE DEF r
      <3>3. Moved(h, r)
        BY <1>1, <1>14, <2>2, <3>1, <3>2 DEF Moved, Show, Outside, StillExpected, Fits, Holding, Past, FencedPcs, SharedPcs, OutsidePcs, Unfenced
      <3> QED
        BY <3>1, <3>3
    <2> QED
      BY <1>14, <2>1, <2>2 DEF Show
  <1>15. CASE ReserveClear(h)
    <2> DEFINE r == [handoff[h] EXCEPT !.pc = "take", !.stamp = [epoch |-> next, guest |-> FALSE]]
    <2>1. r \in Handoff /\ r.pc = "take" /\ r.kind = handoff[h].kind
      BY <1>1, NextTyped DEF Handoff, HandoffPcs
    <2>2. /\ handoff[h].pc = "clear" /\ fences' = fences
        /\ handoff' = [handoff EXCEPT ![h] = r]
      BY <1>15 DEF ReserveClear, Goto, TypeOK
    <2> HIDE DEF r
    <2>3. Moved(h, r)
      BY <1>1, <1>15, <2>1, <2>2 DEF Moved, ReserveClear, Outside, StillExpected, Fits, Holding, Past, FencedPcs, SharedPcs, OutsidePcs, Unfenced
    <2> QED
      BY <2>1, <2>3
  <1>16. CASE TakeAuthority(h)
    <2> DEFINE r == at("take runtime")
    <2>1. r \in Handoff /\ r.pc = "take runtime" /\ r.kind = handoff[h].kind
      BY <1>1 DEF Handoff, HandoffPcs
    <2>2. /\ handoff[h].pc = "take" /\ fences' = fences
        /\ handoff' = [handoff EXCEPT ![h] = r]
      BY <1>16 DEF TakeAuthority, Goto, TypeOK
    <2> HIDE DEF r
    <2>3. Moved(h, r)
      BY <1>1, <1>16, <2>1, <2>2 DEF Moved, TakeAuthority, Outside, StillExpected, Fits, Holding, Past, FencedPcs, SharedPcs, OutsidePcs, Unfenced
    <2> QED
      BY <2>1, <2>3
  <1>17. CASE TakeRuntime(h)
    <2>1. CASE Outside(h)
      <3> DEFINE r == IdleHandoff
      <3>1. r \in Handoff /\ r.pc = "idle" /\ r.kind = "shutdown"
        BY <1>1 DEF IdleHandoff
      <3>2. /\ handoff[h].pc = "take runtime" /\ fences' = fences
          /\ handoff' = [handoff EXCEPT ![h] = r]
        BY <1>17, <2>1 DEF TakeRuntime, Goto, TypeOK
      <3> HIDE DEF r
      <3>3. Moved(h, r)
        BY <1>1, <1>17, <2>1, <3>1, <3>2 DEF Moved, TakeRuntime, Outside, StillExpected, Fits, Holding, Past, FencedPcs, SharedPcs, OutsidePcs, Unfenced
      <3> QED
        BY <3>1, <3>3
    <2>2. CASE ~Outside(h)
      <3> DEFINE r == at("lower")
      <3>1. r \in Handoff /\ r.pc = "lower" /\ r.kind = handoff[h].kind
        BY <1>1 DEF Handoff, HandoffPcs
      <3>2. /\ handoff[h].pc = "take runtime" /\ fences' = fences
          /\ handoff' = [handoff EXCEPT ![h] = r]
        BY <1>17, <2>2 DEF TakeRuntime, Goto, TypeOK
      <3> HIDE DEF r
      <3>3. Moved(h, r)
        BY <1>1, <1>17, <2>2, <3>1, <3>2 DEF Moved, TakeRuntime, Outside, StillExpected, Fits, Holding, Past, FencedPcs, SharedPcs, OutsidePcs, Unfenced
      <3> QED
        BY <3>1, <3>3
    <2> QED
      BY <1>17, <2>1, <2>2 DEF TakeRuntime
  <1>18. CASE LowerFence(h)
    <2>1. CASE handoff[h].pc = "lower last"
      <3> DEFINE r == IdleHandoff
      <3>1. r \in Handoff /\ r.pc = "idle" /\ r.kind = "shutdown"
        BY <1>1 DEF IdleHandoff
      <3>2. /\ handoff[h].pc = "lower last" /\ fences' = fences - 1
          /\ handoff' = [handoff EXCEPT ![h] = r]
        BY <1>18, <2>1 DEF LowerFence, Goto, TypeOK
      <3> HIDE DEF r
      <3>3. Moved(h, r)
        BY <1>1, <1>18, <2>1, <3>1, <3>2 DEF Moved, LowerFence, Outside, StillExpected, Fits, Holding, Past, FencedPcs, SharedPcs, OutsidePcs, Unfenced
      <3> QED
        BY <3>1, <3>3
    <2>2. CASE handoff[h].pc = "lower"
      <3> DEFINE r == at("unlock")
      <3>1. r \in Handoff /\ r.pc = "unlock" /\ r.kind = handoff[h].kind
        BY <1>1 DEF Handoff, HandoffPcs
      <3>2. /\ handoff[h].pc = "lower" /\ fences' = fences - 1
          /\ handoff' = [handoff EXCEPT ![h] = r]
        BY <1>18, <2>2 DEF LowerFence, Goto, TypeOK
      <3> HIDE DEF r
      <3>3. Moved(h, r)
        BY <1>1, <1>18, <2>2, <3>1, <3>2 DEF Moved, LowerFence, Outside, StillExpected, Fits, Holding, Past, FencedPcs, SharedPcs, OutsidePcs, Unfenced
      <3> QED
        BY <3>1, <3>3
    <2> QED
      BY <1>18, <2>1, <2>2 DEF LowerFence
  <1>19. CASE Unlock(h)
    <2>1. CASE handoff[h].pc = "unlock"
      <3> DEFINE r == IdleHandoff
      <3>1. r \in Handoff /\ r.pc = "idle" /\ r.kind = "shutdown"
        BY <1>1 DEF IdleHandoff
      <3>2. /\ handoff[h].pc = "unlock" /\ fences' = fences
          /\ handoff' = [handoff EXCEPT ![h] = r]
        BY <1>19, <2>1 DEF Unlock, Goto, TypeOK
      <3> HIDE DEF r
      <3>3. Moved(h, r)
        BY <1>1, <1>19, <2>1, <3>1, <3>2 DEF Moved, Unlock, Outside, StillExpected, Fits, Holding, Past, FencedPcs, SharedPcs, OutsidePcs, Unfenced
      <3> QED
        BY <3>1, <3>3
    <2>2. CASE handoff[h].pc = "discard"
      <3> DEFINE r == at("lower last")
      <3>1. r \in Handoff /\ r.pc = "lower last" /\ r.kind = handoff[h].kind
        BY <1>1 DEF Handoff, HandoffPcs
      <3>2. /\ handoff[h].pc = "discard" /\ fences' = fences
          /\ handoff' = [handoff EXCEPT ![h] = r]
        BY <1>19, <2>2 DEF Unlock, Goto, TypeOK
      <3> HIDE DEF r
      <3>3. Moved(h, r)
        BY <1>1, <1>19, <2>2, <3>1, <3>2 DEF Moved, Unlock, Outside, StillExpected, Fits, Holding, Past, FencedPcs, SharedPcs, OutsidePcs, Unfenced
      <3> QED
        BY <3>1, <3>3
    <2> QED
      BY <1>19, <2>1, <2>2 DEF Unlock
  <1>20. CASE ConnectInstall(h)
    <2>1. CASE runtime = NoStamp
      <3> DEFINE r == at("hide")
      <3>1. r \in Handoff /\ r.pc = "hide" /\ r.kind = handoff[h].kind
        BY <1>1 DEF Handoff, HandoffPcs
      <3>2. /\ handoff[h].pc = "owner install" /\ fences' = fences
          /\ handoff' = [handoff EXCEPT ![h] = r]
        BY <1>20, <2>1 DEF ConnectInstall, Goto, TypeOK
      <3> HIDE DEF r
      <3>3. Moved(h, r)
        BY <1>1, <1>20, <2>1, <3>1, <3>2 DEF Moved, ConnectInstall, Outside, StillExpected, Fits, Holding, Past, FencedPcs, SharedPcs, OutsidePcs, Unfenced
      <3> QED
        BY <3>1, <3>3
    <2>2. CASE runtime # NoStamp
      <3> DEFINE r == IdleHandoff
      <3>1. r \in Handoff /\ r.pc = "idle" /\ r.kind = "shutdown"
        BY <1>1 DEF IdleHandoff
      <3>2. /\ handoff[h].pc = "owner install" /\ fences' = fences
          /\ handoff' = [handoff EXCEPT ![h] = r]
        BY <1>20, <2>2 DEF ConnectInstall, Goto, TypeOK
      <3> HIDE DEF r
      <3>3. Moved(h, r)
        BY <1>1, <1>20, <2>2, <3>1, <3>2 DEF Moved, ConnectInstall, Outside, StillExpected, Fits, Holding, Past, FencedPcs, SharedPcs, OutsidePcs, Unfenced
      <3> QED
        BY <3>1, <3>3
    <2> QED
      BY <1>20, <2>1, <2>2 DEF ConnectInstall
  <1>21. CASE RetireRuntime(h)
    <2>1. CASE runtime = handoff[h].expected
      <3> DEFINE r == at("retire")
      <3>1. r \in Handoff /\ r.pc = "retire" /\ r.kind = handoff[h].kind
        BY <1>1 DEF Handoff, HandoffPcs
      <3>2. /\ handoff[h].pc = "retire runtime" /\ fences' = fences
          /\ handoff' = [handoff EXCEPT ![h] = r]
        BY <1>21, <2>1 DEF RetireRuntime, Goto, TypeOK
      <3> HIDE DEF r
      <3>3. Moved(h, r)
        BY <1>1, <1>21, <2>1, <3>1, <3>2 DEF Moved, RetireRuntime, Outside, StillExpected, Fits, Holding, Past, FencedPcs, SharedPcs, OutsidePcs, Unfenced
      <3> QED
        BY <3>1, <3>3
    <2>2. CASE runtime # handoff[h].expected
      <3> DEFINE r == IdleHandoff
      <3>1. r \in Handoff /\ r.pc = "idle" /\ r.kind = "shutdown"
        BY <1>1 DEF IdleHandoff
      <3>2. /\ handoff[h].pc = "retire runtime" /\ fences' = fences
          /\ handoff' = [handoff EXCEPT ![h] = r]
        BY <1>21, <2>2 DEF RetireRuntime, Goto, TypeOK
      <3> HIDE DEF r
      <3>3. Moved(h, r)
        BY <1>1, <1>21, <2>2, <3>1, <3>2 DEF Moved, RetireRuntime, Outside, StillExpected, Fits, Holding, Past, FencedPcs, SharedPcs, OutsidePcs, Unfenced
      <3> QED
        BY <3>1, <3>3
    <2> QED
      BY <1>21, <2>1, <2>2 DEF RetireRuntime
  <1>22. CASE Retire(h)
    <2>1. CASE current = handoff[h].expected
      <3> DEFINE r == at("clear")
      <3>1. r \in Handoff /\ r.pc = "clear" /\ r.kind = handoff[h].kind
        BY <1>1 DEF Handoff, HandoffPcs
      <3>2. /\ handoff[h].pc = "retire" /\ fences' = fences
          /\ handoff' = [handoff EXCEPT ![h] = r]
        BY <1>22, <2>1 DEF Retire, Goto, TypeOK
      <3> HIDE DEF r
      <3>3. Moved(h, r)
        BY <1>1, <1>22, <2>1, <3>1, <3>2 DEF Moved, Retire, Outside, StillExpected, Fits, Holding, Past, FencedPcs, SharedPcs, OutsidePcs, Unfenced
      <3> QED
        BY <3>1, <3>3
    <2>2. CASE current # handoff[h].expected
      <3> DEFINE r == at("take runtime")
      <3>1. r \in Handoff /\ r.pc = "take runtime" /\ r.kind = handoff[h].kind
        BY <1>1 DEF Handoff, HandoffPcs
      <3>2. /\ handoff[h].pc = "retire" /\ fences' = fences
          /\ handoff' = [handoff EXCEPT ![h] = r]
        BY <1>22, <2>2 DEF Retire, Goto, TypeOK
      <3> HIDE DEF r
      <3>3. Moved(h, r)
        BY <1>1, <1>22, <2>2, <3>1, <3>2 DEF Moved, Retire, Outside, StillExpected, Fits, Holding, Past, FencedPcs, SharedPcs, OutsidePcs, Unfenced
      <3> QED
        BY <3>1, <3>3
    <2> QED
      BY <1>22, <2>1, <2>2 DEF Retire
  <1>23. ASSUME NEW kind \in Changes, Prepare(h, kind) PROVE \E r \in Handoff : Moved(h, r)
    <2> DEFINE r == [pc |-> "lane", kind |-> kind, expected |-> current, woken |-> FALSE,
                      stamp |-> [epoch |-> next, guest |-> kind = "delegate"]]
    <2>1. r \in Handoff /\ r.pc = "lane" /\ r.kind = kind
      BY <1>1, NextTyped, <1>23 DEF Handoff, HandoffPcs, Prepare
    <2>2. /\ handoff[h].pc = "idle" /\ fences' = fences
        /\ handoff' = [handoff EXCEPT ![h] = r]
      BY <1>23 DEF Prepare, TypeOK
    <2> HIDE DEF r
    <2>3. Moved(h, r)
      BY <1>1, <1>23, <2>1, <2>2 DEF Moved, Prepare, Outside, StillExpected, Fits, Holding, Past, FencedPcs, SharedPcs, OutsidePcs, Unfenced
    <2> QED
      BY <2>1, <2>3
  <1>24. CASE BeginShutdown(h)
    <2> DEFINE r == [handoff[h] EXCEPT !.pc = "lane", !.kind = "shutdown"]
    <2>1. r \in Handoff /\ r.pc = "lane" /\ r.kind = "shutdown"
      BY <1>1, NextTyped DEF Handoff, HandoffPcs
    <2>2. /\ handoff[h].pc = "idle" /\ fences' = fences
        /\ handoff' = [handoff EXCEPT ![h] = r]
      BY <1>24 DEF BeginShutdown, TypeOK
    <2> HIDE DEF r
    <2>3. Moved(h, r)
      BY <1>1, <1>24, <2>1, <2>2 DEF Moved, BeginShutdown, Outside, StillExpected, Fits, Holding, Past, FencedPcs, SharedPcs, OutsidePcs, Unfenced
    <2> QED
      BY <2>1, <2>3
  <1>25. CASE BeginConnect(h)
    <2> DEFINE r == [pc |-> "owner install", kind |-> "connect", expected |-> NoStamp, woken |-> FALSE,
                      stamp |-> [epoch |-> next, guest |-> FALSE]]
    <2>1. r \in Handoff /\ r.pc = "owner install" /\ r.kind = "connect"
      BY <1>1, NextTyped DEF Handoff, HandoffPcs
    <2>2. /\ handoff[h].pc = "idle" /\ fences' = fences
        /\ handoff' = [handoff EXCEPT ![h] = r]
      BY <1>25 DEF BeginConnect, TypeOK
    <2> HIDE DEF r
    <2>3. Moved(h, r)
      BY <1>1, <1>25, <2>1, <2>2 DEF Moved, BeginConnect, Outside, StillExpected, Fits, Holding, Past, FencedPcs, SharedPcs, OutsidePcs, Unfenced
    <2> QED
      BY <2>1, <2>3
  <1>26. CASE BeginRetire(h)
    <2> DEFINE r == [handoff[h] EXCEPT !.pc = "retire runtime", !.kind = "retire",
                              !.expected = runtime]
    <2>1. r \in Handoff /\ r.pc = "retire runtime" /\ r.kind = "retire"
      BY <1>1, NextTyped DEF Handoff, HandoffPcs
    <2>2. /\ handoff[h].pc = "idle" /\ fences' = fences
        /\ handoff' = [handoff EXCEPT ![h] = r]
      BY <1>26 DEF BeginRetire, TypeOK
    <2> HIDE DEF r
    <2>3. Moved(h, r)
      BY <1>1, <1>26, <2>1, <2>2 DEF Moved, BeginRetire, Outside, StillExpected, Fits, Holding, Past, FencedPcs, SharedPcs, OutsidePcs, Unfenced
    <2> QED
      BY <2>1, <2>3
  <1> QED
    BY <1>2, <1>3, <1>4, <1>5, <1>6, <1>7, <1>8, <1>9, <1>10, <1>11, <1>12, <1>13,
       <1>14, <1>15, <1>16, <1>17, <1>18, <1>19, <1>20, <1>21, <1>22, <1>23, <1>24,
       <1>25, <1>26
       DEF Starting, Changing

\* What a step of a handoff task does to the actors: at most it wakes waiters.
LEMMA ChangeKeepsActors ==
    ASSUME TypeOK, NEW h \in Handoffs, Starting(h) \/ Changing(h)
    PROVE  /\ counted' = counted
           /\ actor' \in [Actors -> Actor]
           /\ \A a \in Actors : actor'[a].pc = actor[a].pc /\ actor'[a].token = actor[a].token
  <1>1. /\ counted' = counted
        /\ actor' = actor \/ actor' = ResumeAll
    BY DEF Starting, Changing, TakeLane, RaiseFence, RegisterDrain, Drain, SleepDrain,
           WakeDrain, Revalidate, Discard, Commit, Hide, Install, InstallRefused, Show,
           ReserveClear, TakeAuthority, TakeRuntime, LowerFence, Unlock, ConnectInstall,
           RetireRuntime, Retire, Prepare, BeginShutdown, BeginConnect, BeginRetire
  <1>2. /\ ResumeAll \in [Actors -> Actor]
        /\ \A a \in Actors : /\ ResumeAll[a].pc = actor[a].pc
                             /\ ResumeAll[a].token = actor[a].token
    <2> SUFFICES ASSUME NEW a \in Actors
                 PROVE  ResumeAll[a] \in Actor /\ ResumeAll[a].pc = actor[a].pc
                        /\ ResumeAll[a].token = actor[a].token
      BY DEF ResumeAll
    <2>1. PICK w \in BOOLEAN : w = (actor[a].woken \/ actor[a].pc \in Registered)
      OBVIOUS
    <2>2. ResumeAll[a] = [actor[a] EXCEPT !.woken = w]
      BY <2>1 DEF ResumeAll
    <2>3. actor[a] \in Actor
      BY DEF TypeOK
    <2> QED
      BY <2>2, <2>3 DEF Actor
  <1> QED
    BY <1>1, <1>2 DEF TypeOK

\* The other variables keep their types.
LEMMA CellTyped ==
    ASSUME TypeOK, NEW h \in Handoffs, Starting(h) \/ Changing(h)
    PROVE  /\ next' \in Nat /\ through' \in Nat /\ era' \in Nat
           /\ current' \in Stamps /\ runtime' \in Stamps /\ shown' \in Stamps
           /\ installed' \in [stamp : Stamps, session : BOOLEAN]
           /\ overtaken' \subseteq Nat
           /\ {lane', inner', slot'} \subseteq Handoffs \cup {NoOne}
  <1>1. /\ handoff[h].stamp \in Stamps /\ NoStamp \in Stamps
        /\ handoff[h].stamp.epoch \in Nat /\ current.epoch \in Nat
    BY DEF TypeOK, Handoff, Stamps, NoStamp
  <1>2. /\ next \in Nat /\ through \in Nat /\ era \in Nat
        /\ current \in Stamps /\ runtime \in Stamps /\ shown \in Stamps
        /\ installed \in [stamp : Stamps, session : BOOLEAN]
        /\ \A session \in BOOLEAN, stamp \in Stamps :
              [stamp |-> stamp, session |-> session] \in [stamp : Stamps, session : BOOLEAN]
        /\ overtaken \subseteq Nat
        /\ lane \in Handoffs \cup {NoOne} /\ inner \in Handoffs \cup {NoOne}
        /\ slot \in Handoffs \cup {NoOne}
    BY DEF TypeOK
  <1>3. /\ lane' \in {lane, h, NoOne} /\ inner' \in {inner, h, NoOne}
        /\ slot' \in {slot, h, NoOne}
    BY DEF Starting, Changing, TakeLane, RaiseFence, RegisterDrain, Drain, SleepDrain,
           WakeDrain, Revalidate, Discard, Commit, Hide, Install, InstallRefused, Show,
           ReserveClear, TakeAuthority, TakeRuntime, LowerFence, Unlock, ConnectInstall,
           RetireRuntime, Retire, Prepare, BeginShutdown, BeginConnect, BeginRetire,
           service, projection
  <1>4. /\ next' \in {next, next + 1}
        /\ runtime' \in {runtime, NoStamp, handoff[h].stamp}
        /\ shown' \in {shown, NoStamp, current, handoff[h].stamp}
    BY DEF Starting, Changing, TakeLane, RaiseFence, RegisterDrain, Drain, SleepDrain,
           WakeDrain, Revalidate, Discard, Commit, Hide, Install, InstallRefused, Show,
           ReserveClear, TakeAuthority, TakeRuntime, LowerFence, Unlock, ConnectInstall,
           RetireRuntime, Retire, Prepare, BeginShutdown, BeginConnect, BeginRetire,
           cell, service, projection
  <1>5. installed' = installed \/ \E session \in BOOLEAN, stamp \in {handoff[h].stamp, NoStamp} :
           installed' = [stamp |-> stamp, session |-> session]
    BY DEF Starting, Changing, TakeLane, RaiseFence, RegisterDrain, Drain, SleepDrain,
           WakeDrain, Revalidate, Discard, Commit, Hide, Install, InstallRefused, Show,
           ReserveClear, TakeAuthority, TakeRuntime, LowerFence, Unlock, ConnectInstall,
           RetireRuntime, Retire, Prepare, BeginShutdown, BeginConnect, BeginRetire, projection
  <1>6. current' \in Stamps /\ through' \in Nat /\ era' \in Nat /\ overtaken' \subseteq Nat
    <2>1. CASE Install(h)
      <3>1. /\ current' = handoff[h].stamp /\ through' = handoff[h].stamp.epoch
            /\ era' = era \/ era' = era + 1
            /\ overtaken' = overtaken \cup 1..(handoff[h].stamp.epoch - 1)
        BY <2>1 DEF Install, Become
      <3>2. 1..(handoff[h].stamp.epoch - 1) \subseteq Nat
        BY <1>1
      <3>3. overtaken' \subseteq Nat
        BY <1>2, <3>1, <3>2
      <3>4. current' \in Stamps /\ through' \in Nat /\ era' \in Nat
        BY <1>1, <1>2, <3>1
      <3> QED
        BY <3>3, <3>4
    <2>2. CASE TakeAuthority(h)
      <3>1. /\ current' = NoStamp /\ through' \in {through, handoff[h].stamp.epoch}
            /\ era' = era \/ era' = era + 1
            /\ overtaken' = overtaken \cup 1..handoff[h].stamp.epoch \cup {current.epoch}
        BY <2>2 DEF TakeAuthority, Become, Raised
      <3>2. 1..handoff[h].stamp.epoch \subseteq Nat
        BY <1>1
      <3>3. overtaken' \subseteq Nat
        BY <1>1, <1>2, <3>1, <3>2
      <3>4. current' \in Stamps /\ through' \in Nat /\ era' \in Nat
        BY <1>1, <1>2, <3>1
      <3> QED
        BY <3>3, <3>4
    <2>3. CASE ~Install(h) /\ ~TakeAuthority(h)
      <3>1. UNCHANGED <<current, through, era, overtaken>>
        BY <2>3 DEF Starting, Changing, TakeLane, RaiseFence, RegisterDrain, Drain, SleepDrain,
           WakeDrain, Revalidate, Discard, Commit, Hide, InstallRefused, Show,
           ReserveClear, TakeRuntime, LowerFence, Unlock, ConnectInstall,
           RetireRuntime, Retire, Prepare, BeginShutdown, BeginConnect, BeginRetire, cell
      <3> QED
        BY <1>2, <3>1
    <2> QED
      BY <2>1, <2>2, <2>3
  <1>7. next' \in Nat /\ runtime' \in Stamps /\ shown' \in Stamps
    BY <1>1, <1>2, <1>4
  <1>8. installed' \in [stamp : Stamps, session : BOOLEAN]
    BY <1>1, <1>2, <1>5
  <1>9. {lane', inner', slot'} \subseteq Handoffs \cup {NoOne}
    BY <1>2, <1>3
  <1> QED
    BY <1>6, <1>7, <1>8, <1>9

LEMMA ChangeInv ==
    ASSUME Inv, NEW h \in Handoffs, Starting(h) \/ Changing(h)
    PROVE  Inv'
  <1> USE DEF Inv
  <1>1. PICK r \in Handoff : Moved(h, r)
    BY ChangeMoves
  <1>2. /\ handoff' \in [Handoffs -> Handoff] /\ handoff'[h] = r
        /\ \A g \in Handoffs \ {h} : handoff'[g] = handoff[g]
    BY <1>1 DEF Moved, TypeOK
  <1>3. KindFits'
    BY <1>1, <1>2 DEF Moved, KindFits, Fits
  <1>4. FencesCounted' /\ fences' \in Nat
    <2>1. CASE (Holding(r) <=> Holding(handoff[h])) /\ fences' = fences
      <3>1. Holders' = Holders
        BY <1>2, <2>1 DEF Holders, Holding
      <3> QED
        BY <2>1, <3>1 DEF FencesCounted, TypeOK
    <2>2. CASE ~Holding(handoff[h]) /\ Holding(r) /\ fences' = fences + 1
      <3>1. Holders' = Holders \cup {h} /\ h \notin Holders
        BY <1>2, <2>2 DEF Holders, Holding
      <3>2. Cardinality(Holders') = Cardinality(Holders) + 1
        BY <3>1, HoldersFinite, FS_AddElement
      <3> QED
        BY <2>2, <3>2 DEF FencesCounted, TypeOK
    <2>3. CASE Holding(handoff[h]) /\ ~Holding(r) /\ fences' = fences - 1
      <3>1. Holders' = Holders \ {h} /\ h \in Holders
        BY <1>2, <2>3 DEF Holders, Holding
      <3>2. Cardinality(Holders') = Cardinality(Holders) - 1
        BY <3>1, HoldersFinite, FS_RemoveElement
      <3>3. IsFiniteSet(Holders')
        BY <3>1, HoldersFinite, FS_RemoveElement
      <3>4. Cardinality(Holders') \in Nat
        BY <3>3, FS_CardinalityType
      <3> QED
        BY <2>3, <3>2, <3>4 DEF FencesCounted
    <2> QED
      BY <1>1, <2>1, <2>2, <2>3 DEF Moved
  <1>5. TypeOK'
    BY <1>2, <1>4, ChangeKeepsActors, CellTyped DEF TypeOK
  <1>6. CountedAreInside'
    BY ChangeKeepsActors DEF CountedAreInside
  <1>7. NobodyConfirms'
    <2> SUFFICES ASSUME NEW g \in Handoffs, NEW a \in Actors, Drained(g)'
                 PROVE  actor'[a].pc \notin {"confirm", "acting"}
      BY DEF NobodyConfirms
    <2>1. CASE Drained(g)
      BY <2>1, ChangeKeepsActors DEF NobodyConfirms
    <2>2. CASE ~Drained(g)
      <3>1. g = h
        BY <1>2, <2>2 DEF Drained, Outside
      <3>2. Past(r) /\ ~Past(handoff[h])
        BY <1>2, <2>2, <3>1 DEF Drained, Past, Outside, Unfenced
      <3>3. counted = {}
        BY <1>1, <3>2 DEF Moved
      <3> QED
        BY <3>3, ChangeKeepsActors DEF CountedAreInside, Countable
    <2> QED
      BY <2>1, <2>2
  <1> QED
    BY <1>3, <1>4, <1>5, <1>6, <1>7

\* What a step of an actor does to the counted places.
LEMMA AskInv ==
    ASSUME Inv, NEW a \in Actors, Ongoing(a) \/ \E kind \in Kinds : Ask(a, kind)
    PROVE  Inv'
  <1> USE DEF Inv
  <1>1. actor' \in [Actors -> Actor]
    BY ActorStepTyped
  <1>2. /\ cell' = cell /\ service' = service /\ projection' = projection
        /\ fences' = fences /\ lane' = lane
        /\ handoff' = handoff \/ handoff' = WakeDrains
    BY DEF Ongoing, Ask, FirstLook, Observe, CountIn, SecondLook, Admit, Reject, CountOut,
           NotifyDrained, RegisterWaiter, LookThenSleep, FallAsleep, WakeWaiter
  <1>3. /\ handoff' \in [Handoffs -> Handoff]
        /\ \A h \in Handoffs : handoff'[h].pc = handoff[h].pc /\ handoff'[h].kind = handoff[h].kind
    <2>1. CASE handoff' = WakeDrains
      <3> SUFFICES ASSUME NEW h \in Handoffs
                   PROVE  WakeDrains[h] \in Handoff /\ WakeDrains[h].pc = handoff[h].pc
                          /\ WakeDrains[h].kind = handoff[h].kind
        BY <2>1 DEF WakeDrains
      <3>1. PICK w \in BOOLEAN : w = (handoff[h].woken \/ handoff[h].pc \in Registered)
        OBVIOUS
      <3>2. WakeDrains[h] = [handoff[h] EXCEPT !.woken = w]
        BY <3>1 DEF WakeDrains
      <3>3. handoff[h] \in Handoff
        BY DEF TypeOK
      <3> QED
        BY <3>2, <3>3 DEF Handoff
    <2>2. CASE handoff' = handoff
      BY <2>2 DEF TypeOK
    <2> QED
      BY <1>2, <2>1, <2>2
  <1>4. \A b \in Actors \ {a} : actor'[b] = actor[b]
    BY DEF TypeOK, Ongoing, Ask, FirstLook, Observe, CountIn, SecondLook, Admit, Reject, CountOut,
           NotifyDrained, RegisterWaiter, LookThenSleep, FallAsleep, WakeWaiter, Refuse
  <1>5. /\ \/ actor'[a].pc \in Countable /\ counted' = counted \cup {a}
           \/ actor'[a].pc \notin Countable /\ counted' = counted \ {a}
        /\ actor'[a].pc = "confirm" => fences = 0
        /\ actor'[a].pc = "acting" => actor[a].pc = "confirm"
    <2>1. actor[a] \in Actor /\ (a \in counted <=> actor[a].pc \in Countable)
      BY DEF TypeOK, CountedAreInside
    <2>2. \A then \in {"idle", "await"} : Refuse(a, then) => actor'[a].pc = then
      BY RefuseTyped
    <2>3. actor[a].then \in {"idle", "await"} /\ Fenced(a) \in {"idle", "await"}
      BY ActorTyped DEF Fenced
    <2>4. \A kind \in Kinds : Ask(a, kind) => actor[a].pc = "idle" /\ actor'[a].pc = "look"
                                             /\ counted' = counted
      <3> SUFFICES ASSUME NEW kind \in Kinds, Ask(a, kind)
                   PROVE  actor[a].pc = "idle" /\ actor'[a].pc = "look" /\ counted' = counted
        OBVIOUS
      <3>1. PICK seen : actor' = [actor EXCEPT ![a].pc = "look", ![a].kind = kind,
                                       ![a].seen = seen]
        BY DEF Ask
      <3>2. actor'[a] = [actor[a] EXCEPT !.pc = "look", !.kind = kind, !.seen = seen]
        BY <3>1 DEF TypeOK
      <3>3. actor'[a].pc = "look"
        BY <2>1, <3>2 DEF Actor
      <3> QED
        BY <3>3 DEF Ask
    <2>5. CASE FirstLook(a) \/ Observe(a)
      BY <2>1, <2>2, <2>3, <2>5 DEF FirstLook, Observe, TypeOK, Actor, Countable
    <2>6. CASE CountIn(a) \/ SecondLook(a) \/ Admit(a) \/ Reject(a)
      <3>1. CASE CountIn(a)
        BY <2>1, <3>1 DEF CountIn, TypeOK, Actor, Countable
      <3>2. CASE SecondLook(a)
        BY <2>1, <3>2 DEF SecondLook, TypeOK, Actor, Countable
      <3>3. CASE Admit(a)
        BY <2>1, <3>3 DEF Admit, TypeOK, Actor, Countable
      <3>4. CASE Reject(a)
        BY <2>1, <3>4 DEF Reject, TypeOK, Actor, Countable
      <3> QED
        BY <2>6, <3>1, <3>2, <3>3, <3>4
    <2>7. CASE CountOut(a) \/ NotifyDrained(a)
      BY <2>1, <2>2, <2>3, <2>7 DEF CountOut, NotifyDrained, TypeOK, Actor, Countable
    <2>8. CASE RegisterWaiter(a) \/ LookThenSleep(a) \/ FallAsleep(a) \/ WakeWaiter(a)
      <3>1. CASE RegisterWaiter(a)
        <4>1. actor'[a] = [actor[a] EXCEPT !.pc = "await look", !.then = "idle"]
          BY <3>1 DEF RegisterWaiter, TypeOK
        <4>2. actor'[a].pc = "await look"
          BY <2>1, <4>1 DEF Actor
        <4> QED
          BY <2>1, <3>1, <4>2 DEF RegisterWaiter, TypeOK, Countable
      <3>2. CASE LookThenSleep(a)
        <4>1. \/ actor'[a] = [actor[a] EXCEPT !.pc = "look", !.woken = FALSE]
              \/ actor'[a] = [actor[a] EXCEPT !.pc = "drowsy"]
          BY <3>2 DEF LookThenSleep, TypeOK
        <4>2. actor'[a].pc \in {"look", "drowsy"}
          BY <2>1, <4>1 DEF Actor
        <4> QED
          BY <2>1, <3>2, <4>2 DEF LookThenSleep, TypeOK, Countable
      <3>3. CASE FallAsleep(a)
        BY <2>1, <3>3 DEF FallAsleep, TypeOK, Actor, Countable
      <3>4. CASE WakeWaiter(a)
        BY <2>1, <3>4 DEF WakeWaiter, TypeOK, Actor, Countable
      <3> QED
        BY <2>8, <3>1, <3>2, <3>3, <3>4
    <2> QED
      BY <2>1, <2>4, <2>5, <2>6, <2>7, <2>8 DEF Ongoing, Countable
  <1>6. TypeOK'
    BY <1>1, <1>2, <1>3, <1>5 DEF TypeOK, cell, service, projection
  <1>7. KindFits'
    BY <1>3 DEF KindFits, Fits
  <1>8. FencesCounted'
    <2>1. Holders' = Holders
      BY <1>3 DEF Holders, Holding
    <2> QED
      BY <1>2, <2>1 DEF FencesCounted
  <1>9. CountedAreInside'
    BY <1>4, <1>5 DEF CountedAreInside, TypeOK
  <1>10. NobodyConfirms'
    <2> SUFFICES ASSUME NEW h \in Handoffs, NEW b \in Actors, Drained(h)'
                 PROVE  actor'[b].pc \notin {"confirm", "acting"}
      BY DEF NobodyConfirms
    <2>1. Drained(h)
      BY <1>3 DEF Drained, Outside
    <2>2. fences # 0
      BY <2>1, DrainedMeansFenced
    <2> QED
      BY <1>4, <1>5, <2>1, <2>2 DEF NobodyConfirms
  <1> QED
    BY <1>6, <1>7, <1>8, <1>9, <1>10

\* The inductive invariant holds in every reachable state.
LEMMA StepInv == Inv /\ [Next]_vars => Inv'
  <1> SUFFICES ASSUME Inv, [Next]_vars PROVE Inv'
    OBVIOUS
  <1>1. CASE \E a \in Actors : Ongoing(a) \/ \E kind \in Kinds : Ask(a, kind)
    BY <1>1, AskInv
  <1>2. CASE \E h \in Handoffs : Starting(h) \/ Changing(h)
    BY <1>2, ChangeInv
  <1>3. CASE ConfirmOwnerSession
    <2>1. installed' \in [stamp : Stamps, session : BOOLEAN]
      BY <1>3 DEF ConfirmOwnerSession, Inv, TypeOK
    <2>2. TypeOK'
      BY <1>3, <2>1 DEF ConfirmOwnerSession, Inv, TypeOK, cell, service
    <2>3. UNCHANGED <<fences, counted, actor, handoff>>
      BY <1>3 DEF ConfirmOwnerSession
    <2> QED
      BY <2>2, <2>3 DEF Inv, KindFits, Fits, FencesCounted, Holders, Holding, CountedAreInside,
         NobodyConfirms, Drained, Outside
  <1>4. CASE UNCHANGED vars
    BY <1>4 DEF vars, Inv, TypeOK, KindFits, Fits, FencesCounted, Holders, Holding,
           CountedAreInside, NobodyConfirms, Drained, Outside
  <1> QED
    BY <1>1, <1>2, <1>3, <1>4 DEF Next

\* The cell is well typed: neither count underflows, whatever is cancelled.
THEOREM CellTypeCorrect == Spec => []TypeOK
  <1>1. Inv => TypeOK
    BY DEF Inv
  <1> QED
    BY InitInv, StepInv, <1>1, PTL DEF Spec

\* Behind a drained fence no admitted action runs: the lock-free count, the
\* second look at the fence and the drain exclude it (try_*_permit against
\* acquire_drained).
THEOREM DrainExcludesActions == Spec => []NobodyActsDuringHandoff
  <1>1. Inv => NobodyActsDuringHandoff
    BY DEF Inv, NobodyConfirms, NobodyActsDuringHandoff
  <1> QED
    BY InitInv, StepInv, <1>1, PTL DEF Spec

-----------------------------------------------------------------------------
(* The authority state never recurs.                                       *)

\* Whoever was overtaken lies below the high-water mark, and the current
\* authority is the mark itself.
Watermark ==
    /\ \A e \in overtaken : e <= through
    /\ current # NoStamp => current.epoch = through /\ through \notin overtaken

\* A token of an earlier era is behind the state: its mark is lower, or an
\* authority it saw has been cleared since.
Behind(token) ==
    \/ token.through < through
    \/ token.through = through /\ token.current # NoStamp /\ current = NoStamp

TokensLag == \A a \in Actors :
    /\ actor[a].token.era <= era
    /\ actor[a].token.era = era => Unmarked(actor[a].token) = State
    /\ actor[a].token.era < era => Behind(actor[a].token)

\* An exact request compares with the token it was made with.
ExactSees == \A a \in Actors :
    actor[a].kind = "exact" /\ actor[a].pc # "idle" => actor[a].seen = Unmarked(actor[a].token)

\* A change of the authority moves the state forward.
Forward ==
    \/ UNCHANGED <<current, through, era, overtaken>>
    \/ /\ through' > through /\ through' \in Nat
       /\ era' = era + 1
       /\ \/ /\ current' # NoStamp /\ current'.epoch = through'
             /\ overtaken' = overtaken \cup 1..(through' - 1)
          \/ /\ current' = NoStamp
             /\ \A e \in overtaken' : e \in overtaken \/ e <= through' \/ e = current.epoch
    \/ /\ through' = through
       /\ current' = NoStamp
       /\ \/ current = NoStamp /\ era' = era
          \/ current # NoStamp /\ era' = era + 1
       /\ \A e \in overtaken' : e \in overtaken \/ e <= through \/ e = current.epoch

LEMMA ChangeForward ==
    ASSUME TypeOK, NEW h \in Handoffs, Starting(h) \/ Changing(h)
    PROVE  Forward
  <1>1. /\ handoff[h].stamp.epoch \in Nat /\ through \in Nat /\ era \in Nat
        /\ NoStamp.epoch = 0
    BY DEF TypeOK, Handoff, Stamps, NoStamp
  <1>2. CASE Install(h)
    <2>1. /\ handoff[h].stamp.epoch > through
          /\ current' = handoff[h].stamp /\ through' = handoff[h].stamp.epoch
          /\ overtaken' = overtaken \cup 1..(handoff[h].stamp.epoch - 1)
          /\ through' # through => era' = era + 1
      BY <1>2 DEF Install, Become, Newer
    <2>2. current' # NoStamp
      BY <1>1, <2>1
    <2> QED
      BY <1>1, <2>1, <2>2 DEF Forward
  <1>3. CASE TakeAuthority(h)
    <2>1. /\ current' = NoStamp
          /\ through' = Raised(handoff[h].stamp.epoch)
          /\ overtaken' = overtaken \cup 1..handoff[h].stamp.epoch \cup {current.epoch}
          /\ era' = IF NoStamp = current /\ through' = through THEN era ELSE era + 1
      BY <1>3 DEF TakeAuthority, Become
    <2>2. \A e \in 1..handoff[h].stamp.epoch : e <= through'
      BY <1>1, <2>1 DEF Raised
    <2>3. through' = through \/ (through' > through /\ through' \in Nat)
      BY <1>1, <2>1 DEF Raised
    <2> QED
      BY <1>1, <2>1, <2>2, <2>3 DEF Forward
  <1>4. CASE ~Install(h) /\ ~TakeAuthority(h)
    <2>1. UNCHANGED <<current, through, era, overtaken>>
      BY <1>4 DEF Starting, Changing, TakeLane, RaiseFence, RegisterDrain, Drain, SleepDrain,
         WakeDrain, Revalidate, Discard, Commit, Hide, InstallRefused, Show,
         ReserveClear, TakeRuntime, LowerFence, Unlock, ConnectInstall,
         RetireRuntime, Retire, Prepare, BeginShutdown, BeginConnect, BeginRetire, cell
    <2> QED
      BY <2>1 DEF Forward
  <1> QED
    BY <1>2, <1>3, <1>4

LEMMA ForwardWatermark ==
    ASSUME TypeOK, TypeOK', Watermark, Forward
    PROVE  Watermark'
  <1>1. /\ current \in Stamps /\ through \in Nat /\ overtaken \subseteq Nat
        /\ current.epoch \in Nat /\ NoStamp.epoch = 0 /\ overtaken' \subseteq Nat
        /\ through' \in Nat
    BY DEF TypeOK, Stamps, NoStamp
  <1>2. current.epoch <= through
    BY <1>1 DEF Watermark
  <1>3. CASE UNCHANGED <<current, through, era, overtaken>>
    BY <1>3 DEF Watermark
  <1>4. CASE /\ through' > through /\ current' # NoStamp /\ current'.epoch = through'
             /\ overtaken' = overtaken \cup 1..(through' - 1)
    <2>1. \A e \in overtaken : e <= through
      BY DEF Watermark
    <2>2. ASSUME NEW e \in overtaken' PROVE e < through'
      <3>1. through' > through /\ overtaken' = overtaken \cup 1..(through' - 1)
        BY <1>4
      <3>2. through \in Nat /\ through' \in Nat /\ overtaken \subseteq Nat
        BY <1>1
      <3>3. CASE e \in overtaken
        BY <2>1, <3>1, <3>2, <3>3
      <3>4. CASE e \in 1..(through' - 1)
        <4>1. \A m \in Nat : \A k \in 1..(m - 1) : k < m
          OBVIOUS
        <4> QED
          BY <3>2, <3>4, <4>1
      <3> QED
        BY <2>2, <3>1, <3>3, <3>4
    <2>3. \A e \in overtaken' : e <= through'
      BY <1>1, <2>2
    <2>4. through' \notin overtaken'
      BY <1>1, <2>2
    <2> QED
      BY <1>4, <2>3, <2>4 DEF Watermark
  <1>5. CASE /\ through' >= through /\ current' = NoStamp
             /\ \A e \in overtaken' : e \in overtaken \/ e <= through' \/ e = current.epoch
    BY <1>1, <1>2, <1>5 DEF Watermark
  <1> QED
    BY <1>1, <1>3, <1>4, <1>5 DEF Forward

\* An epoch that was replaced or fenced out by a clear never comes back.
THEOREM OvertakenStayOut == Spec => []OvertakenStaysOut
  <1>1. Init => Watermark
    BY DEF Init, Watermark
  <1>2. Inv /\ Watermark /\ [Next]_vars => Watermark'
    <2> SUFFICES ASSUME Inv, Watermark, [Next]_vars PROVE Watermark'
      OBVIOUS
    <2>1. TypeOK /\ TypeOK'
      BY StepInv DEF Inv
    <2>2. Forward
      <3>1. CASE \E h \in Handoffs : Starting(h) \/ Changing(h)
        BY <2>1, <3>1, ChangeForward
      <3>2. CASE ~\E h \in Handoffs : Starting(h) \/ Changing(h)
        <4>1. UNCHANGED <<current, through, era, overtaken>>
          BY <3>2 DEF Next, vars, Ongoing, Ask, FirstLook, Observe, CountIn, SecondLook, Admit,
             Reject, CountOut, NotifyDrained, RegisterWaiter, LookThenSleep, FallAsleep,
             WakeWaiter, ConfirmOwnerSession, cell
        <4> QED
          BY <4>1 DEF Forward
      <3> QED
        BY <3>1, <3>2
    <2> QED
      BY <2>1, <2>2, ForwardWatermark
  <1>3. Watermark => OvertakenStaysOut
    BY DEF Watermark, OvertakenStaysOut
  <1> QED
    BY InitInv, StepInv, <1>1, <1>2, <1>3, PTL DEF Spec

-----------------------------------------------------------------------------
(* Tokens.                                                                 *)

LEMMA ForwardTokens ==
    ASSUME TypeOK, TokensLag, Forward,
           \A a \in Actors : actor'[a].token = actor[a].token
    PROVE  TokensLag'
  <1> SUFFICES ASSUME NEW a \in Actors, NEW t, t = actor[a].token
               PROVE  /\ t.era <= era'
                      /\ t.era = era' => Unmarked(t) = State'
                      /\ t.era < era' => Behind(t)'
    BY DEF TokensLag, Behind
  <1>1. /\ through \in Nat /\ era \in Nat
        /\ t \in [current : Stamps, through : Nat, era : Nat]
    BY ActorTyped DEF TypeOK
  <1>2. /\ t.through \in Nat /\ t.era \in Nat
    BY <1>1
  <1>3. /\ t.era <= era
        /\ t.era = era => t.current = current /\ t.through = through
        /\ t.era < era => Behind(t)
    BY DEF TokensLag, Unmarked, State
  <1>4. CASE UNCHANGED <<current, through, era, overtaken>>
    BY <1>3, <1>4 DEF Unmarked, State, Behind
  <1>5. CASE through' > through /\ through' \in Nat /\ era' = era + 1
    <2>1. t.through <= through
      BY <1>1, <1>2, <1>3 DEF Behind
    <2> QED
      BY <1>1, <1>2, <1>3, <1>5, <2>1 DEF Behind
  <1>6. CASE /\ through' = through /\ current' = NoStamp
             /\ current = NoStamp /\ era' = era
    BY <1>3, <1>6 DEF Unmarked, State, Behind
  <1>7. CASE /\ through' = through /\ current' = NoStamp
             /\ current # NoStamp /\ era' = era + 1
    <2>1. t.era <= era' /\ t.era # era'
      BY <1>1, <1>2, <1>3, <1>7
    <2>2. CASE t.era = era
      BY <1>3, <1>7, <2>1, <2>2 DEF Behind
    <2>3. CASE t.era < era
      BY <1>3, <1>7, <2>1, <2>3 DEF Behind
    <2> QED
      BY <1>1, <1>2, <1>3, <2>2, <2>3
  <1> QED
    BY <1>4, <1>5, <1>6, <1>7 DEF Forward

\* Only an owner admission writes a token, and it writes the present state.
LEMMA ActorTokens ==
    ASSUME TypeOK, TokensLag, ExactSees, NEW a \in Actors,
           Ongoing(a) \/ \E kind \in Kinds : Ask(a, kind)
    PROVE  TokensLag' /\ ExactSees'
  <1>1. UNCHANGED <<current, through, era>>
    BY DEF Ongoing, Ask, FirstLook, Observe, CountIn, SecondLook, Admit, Reject, CountOut,
       NotifyDrained, RegisterWaiter, LookThenSleep, FallAsleep, WakeWaiter, cell
  <1>2. \A b \in Actors \ {a} : actor'[b] = actor[b]
    BY DEF TypeOK, Ongoing, Ask, FirstLook, Observe, CountIn, SecondLook, Admit, Reject, CountOut,
       NotifyDrained, RegisterWaiter, LookThenSleep, FallAsleep, WakeWaiter, Refuse
  <1>3. actor[a] \in Actor /\ actor' \in [Actors -> Actor]
    BY ActorTyped, ActorStepTyped
  <1>4. \A then \in {"idle", "await"} : Refuse(a, then) =>
          /\ actor'[a].token = actor[a].token
          /\ actor'[a].kind = "exact" => actor[a].kind = "exact" /\ actor'[a].seen = actor[a].seen
    <2> SUFFICES ASSUME NEW then \in {"idle", "await"}, Refuse(a, then)
                 PROVE  /\ actor'[a].token = actor[a].token
                        /\ actor'[a].kind = "exact" => actor[a].kind = "exact"
                                                        /\ actor'[a].seen = actor[a].seen
      OBVIOUS
    <2>1. CASE then = "idle"
      BY <2>1 DEF Refuse, TypeOK, IdleActor
    <2>2. CASE then = "await"
      <3>1. actor'[a] = [actor[a] EXCEPT !.pc = then]
        BY <2>2 DEF Refuse, TypeOK
      <3> QED
        BY <1>3, <3>1 DEF Actor
    <2> QED
      BY <2>1, <2>2
  <1>5. /\ actor[a].kind = "exact" /\ actor[a].pc # "idle" => actor[a].seen = Unmarked(actor[a].token)
        /\ actor[a].then \in {"idle", "await"} /\ Fenced(a) \in {"idle", "await"}
    BY ActorTyped DEF ExactSees, Fenced
  <1> DEFINE Kept == /\ \/ actor'[a].token = actor[a].token
                        \/ actor'[a].token = [current |-> current, through |-> through, era |-> era]
                     /\ actor'[a].kind = "exact" /\ actor'[a].pc # "idle"
                           => actor'[a].seen = Unmarked(actor'[a].token)
  <1>6. Kept
    <2>1. ASSUME NEW kind \in Kinds, Ask(a, kind) PROVE Kept
      <3>1. PICK seen : /\ actor' = [actor EXCEPT ![a].pc = "look", ![a].kind = kind, ![a].seen = seen]
                        /\ kind = "exact" => seen = Unmarked(actor[a].token)
        BY <2>1 DEF Ask
      <3>2. actor'[a] = [actor[a] EXCEPT !.pc = "look", !.kind = kind, !.seen = seen]
        BY <3>1 DEF TypeOK
      <3>3. actor'[a].token = actor[a].token /\ actor'[a].kind = kind /\ actor'[a].seen = seen
        BY <1>3, <3>2 DEF Actor
      <3> QED
        BY <3>1, <3>3
    <2>2. ASSUME NEW then \in {"idle", "await"}, Refuse(a, then), actor[a].pc # "idle" PROVE Kept
      BY <1>4, <1>5, <2>2
    <2>3. ASSUME actor[a].pc # "idle",
                 \/ \E pc \in ActorPcs : actor'[a] = [actor[a] EXCEPT !.pc = pc]
                 \/ \E pc \in ActorPcs : \E w : actor'[a] = [actor[a] EXCEPT !.pc = pc, !.woken = w]
                 \/ \E pc \in ActorPcs : \E t : actor'[a] = [actor[a] EXCEPT !.pc = pc, !.then = t]
          PROVE  Kept
      <3>1. /\ actor'[a].token = actor[a].token
            /\ actor'[a].kind = actor[a].kind /\ actor'[a].seen = actor[a].seen
        BY <1>3, <2>3 DEF Actor
      <3> QED
        BY <1>5, <2>3, <3>1
    <2>4. CASE FirstLook(a) \/ SecondLook(a) \/ CountIn(a) \/ Reject(a) \/ CountOut(a)
               \/ NotifyDrained(a) \/ RegisterWaiter(a) \/ LookThenSleep(a) \/ FallAsleep(a)
               \/ WakeWaiter(a)
      <3> HIDE DEF Kept
      <3>1. CASE FirstLook(a)
        <4>1. CASE fences # 0
          BY <1>5, <2>2, <3>1, <4>1 DEF FirstLook
        <4>2. CASE fences = 0
          <5>1. actor[a].pc # "idle" /\ actor'[a] = [actor[a] EXCEPT !.pc = "observe"]
            BY <3>1, <4>2 DEF FirstLook, TypeOK
          <5> QED
            BY <2>3, <5>1 DEF ActorPcs
        <4> QED
          BY <4>1, <4>2
      <3>2. CASE SecondLook(a)
        <4>1. /\ actor[a].pc # "idle"
              /\ \/ actor'[a] = [actor[a] EXCEPT !.pc = "leave", !.then = Fenced(a)]
                 \/ actor'[a] = [actor[a] EXCEPT !.pc = "confirm"]
          BY <3>2 DEF SecondLook, TypeOK
        <4> QED
          BY <2>3, <4>1 DEF ActorPcs
      <3>3. CASE CountIn(a)
        <4>1. actor[a].pc # "idle" /\ actor'[a] = [actor[a] EXCEPT !.pc = "relook"]
          BY <3>3 DEF CountIn, TypeOK
        <4> QED
          BY <2>3, <4>1 DEF ActorPcs
      <3>4. CASE Reject(a)
        <4>1. actor[a].pc # "idle" /\ actor'[a] = [actor[a] EXCEPT !.pc = "leave"]
          BY <3>4 DEF Reject, TypeOK
        <4> QED
          BY <2>3, <4>1 DEF ActorPcs
      <3>5. CASE CountOut(a)
        <4>1. CASE Refuse(a, actor[a].then)
          BY <1>5, <2>2, <3>5, <4>1 DEF CountOut
        <4>2. CASE actor' = [actor EXCEPT ![a].pc = "notify"]
          <5>1. actor[a].pc # "idle" /\ actor'[a] = [actor[a] EXCEPT !.pc = "notify"]
            BY <3>5, <4>2 DEF CountOut, TypeOK
          <5> QED
            BY <2>3, <5>1 DEF ActorPcs
        <4> QED
          BY <3>5, <4>1, <4>2 DEF CountOut
      <3>6. CASE NotifyDrained(a)
        BY <1>5, <2>2, <3>6 DEF NotifyDrained
      <3>7. CASE RegisterWaiter(a)
        <4>1. actor[a].pc # "idle" /\ actor'[a] = [actor[a] EXCEPT !.pc = "await look", !.then = "idle"]
          BY <3>7 DEF RegisterWaiter, TypeOK
        <4> QED
          BY <2>3, <4>1 DEF ActorPcs
      <3>8. CASE LookThenSleep(a)
        <4>1. /\ actor[a].pc # "idle"
              /\ \/ actor'[a] = [actor[a] EXCEPT !.pc = "look", !.woken = FALSE]
                 \/ actor'[a] = [actor[a] EXCEPT !.pc = "drowsy"]
          BY <3>8 DEF LookThenSleep, TypeOK
        <4> QED
          BY <2>3, <4>1 DEF ActorPcs
      <3>9. CASE FallAsleep(a)
        <4>1. actor[a].pc # "idle" /\ actor'[a] = [actor[a] EXCEPT !.pc = "asleep"]
          BY <3>9 DEF FallAsleep, TypeOK
        <4> QED
          BY <2>3, <4>1 DEF ActorPcs
      <3>10. CASE WakeWaiter(a)
        <4>1. actor[a].pc # "idle" /\ actor'[a] = [actor[a] EXCEPT !.pc = "await", !.woken = FALSE]
          BY <3>10 DEF WakeWaiter, TypeOK
        <4> QED
          BY <2>3, <4>1 DEF ActorPcs
      <3> QED
        BY <2>4, <3>1, <3>2, <3>3, <3>4, <3>5, <3>6, <3>7, <3>8, <3>9, <3>10
    <2>5. CASE Observe(a)
      <3>1. CASE actor[a].kind = "owner" /\ actor' = [actor EXCEPT ![a].pc = "count", ![a].seen = State]
        <4>1. actor'[a] = [actor[a] EXCEPT !.pc = "count", !.seen = State]
          BY <3>1 DEF TypeOK
        <4>2. actor'[a].token = actor[a].token /\ actor'[a].kind = "owner"
          BY <1>3, <3>1, <4>1 DEF Actor
        <4> QED
          BY <4>2
      <3>2. CASE actor' = [actor EXCEPT ![a].pc = "count"]
        <4>1. actor'[a] = [actor[a] EXCEPT !.pc = "count"] /\ actor[a].pc # "idle"
          BY <2>5, <3>2 DEF Observe, TypeOK
        <4> QED
          BY <2>3, <4>1 DEF ActorPcs
      <3>3. CASE Refuse(a, "idle")
        BY <2>2, <2>5, <3>3 DEF Observe
      <3> QED
        BY <2>5, <3>1, <3>2, <3>3 DEF Observe
    <2>6. CASE Admit(a)
      <3> DEFINE token == IF actor[a].kind = "owner"
                          THEN [current |-> current, through |-> through, era |-> era]
                          ELSE actor[a].token
      <3>1. actor'[a] = [actor[a] EXCEPT !.pc = "acting", !.token = token] /\ actor[a].pc # "idle"
        BY <2>6 DEF Admit, TypeOK
      <3> HIDE DEF token
      <3>2. actor'[a].token = token /\ actor'[a].kind = actor[a].kind /\ actor'[a].seen = actor[a].seen
        BY <1>3, <3>1 DEF Actor
      <3> QED
        BY <1>5, <3>1, <3>2 DEF token
    <2> QED
      BY <2>1, <2>4, <2>5, <2>6 DEF Ongoing
  <1>7. TokensLag'
    <2> SUFFICES ASSUME NEW b \in Actors
                 PROVE  /\ actor'[b].token.era <= era
                        /\ actor'[b].token.era = era => Unmarked(actor'[b].token) = State
                        /\ actor'[b].token.era < era => Behind(actor'[b].token)
      BY <1>1 DEF TokensLag, State, Behind
    <2>1. CASE actor'[b].token = actor[b].token
      BY <2>1 DEF TokensLag
    <2>2. CASE actor'[b].token = [current |-> current, through |-> through, era |-> era]
      <3>1. era \in Nat
        BY DEF TypeOK
      <3> QED
        BY <2>2, <3>1 DEF Unmarked, State
    <2> QED
      BY <1>2, <1>6, <2>1, <2>2
  <1>8. ExactSees'
    BY <1>2, <1>6 DEF ExactSees
  <1> QED
    BY <1>7, <1>8

LEMMA InitTokens == Init => TokensLag /\ ExactSees
  <1> SUFFICES ASSUME Init, NEW a \in Actors
               PROVE  /\ actor[a].token = NoToken /\ actor[a].pc = "idle"
                      /\ State = Unmarked(NoToken) /\ era = 0 /\ NoToken.era = 0
    BY DEF TokensLag, ExactSees
  <1> QED
    BY DEF Init, IdleActor, State, Unmarked, NoToken

LEMMA StepTokens == Inv /\ TokensLag /\ ExactSees /\ [Next]_vars => (TokensLag /\ ExactSees)'
  <1> SUFFICES ASSUME Inv, TokensLag, ExactSees, [Next]_vars
               PROVE  TokensLag' /\ ExactSees'
    OBVIOUS
  <1>1. TypeOK
    BY DEF Inv
  <1>2. ASSUME NEW a \in Actors, Ongoing(a) \/ \E kind \in Kinds : Ask(a, kind)
        PROVE  TokensLag' /\ ExactSees'
    BY <1>1, <1>2, ActorTokens
  <1>3. ASSUME NEW h \in Handoffs, Starting(h) \/ Changing(h)
        PROVE  TokensLag' /\ ExactSees'
    <2>1. actor' = actor \/ actor' = ResumeAll
      BY <1>3 DEF Starting, Changing, TakeLane, RaiseFence, RegisterDrain, Drain, SleepDrain,
         WakeDrain, Revalidate, Discard, Commit, Hide, Install, InstallRefused, Show,
         ReserveClear, TakeAuthority, TakeRuntime, LowerFence, Unlock, ConnectInstall,
         RetireRuntime, Retire, Prepare, BeginShutdown, BeginConnect, BeginRetire
    <2>2. \A a \in Actors : /\ actor'[a].token = actor[a].token /\ actor'[a].kind = actor[a].kind
                            /\ actor'[a].pc = actor[a].pc /\ actor'[a].seen = actor[a].seen
      BY <1>1, <2>1 DEF ResumeAll, TypeOK, Actor
    <2>3. Forward
      BY <1>1, <1>3, ChangeForward
    <2> QED
      BY <1>1, <2>2, <2>3, ForwardTokens DEF ExactSees
  <1>4. CASE UNCHANGED vars \/ ConfirmOwnerSession
    BY <1>4 DEF vars, ConfirmOwnerSession, cell, TokensLag, ExactSees, Behind, State
  <1> QED
    BY <1>2, <1>3, <1>4 DEF Next

\* An exact permit is granted only while nothing has changed since its token
\* was minted: None -> guest -> None is a change (OwnerAuthorityToken).
THEOREM ExactTokens == Spec => TokensAreExact
  <1>1. Inv /\ TokensLag /\ ExactSees /\ [Next]_vars =>
          [\A a \in Actors :
             actor[a].pc = "confirm" /\ actor'[a].pc = "acting" /\ actor[a].kind = "exact"
                => actor[a].token.era = era]_vars
    <2> SUFFICES ASSUME Inv, TokensLag, ExactSees, [Next]_vars, NEW a \in Actors,
                        actor[a].pc = "confirm", actor'[a].pc = "acting", actor[a].kind = "exact"
                 PROVE  actor[a].token.era = era
      OBVIOUS
    <2>1. TypeOK
      BY DEF Inv
    <2>2. actor[a].seen = State
      <3>1. Admit(a)
        <4>1. CASE Admit(a)
          BY <4>1
        <4>2. ASSUME NEW b \in Actors, b # a \/ ~Admit(a),
                     Ongoing(b) \/ \E kind \in Kinds : Ask(b, kind)
              PROVE  FALSE
          BY <2>1, <4>2 DEF Ongoing, Ask, FirstLook, Observe, CountIn, SecondLook, Admit, Reject,
             CountOut, NotifyDrained, RegisterWaiter, LookThenSleep, FallAsleep, WakeWaiter,
             Refuse, TypeOK, Actor
        <4>3. ~\E h \in Handoffs : Starting(h) \/ Changing(h)
          BY <2>1, ChangeKeepsActors
        <4>4. ~ConfirmOwnerSession /\ ~UNCHANGED vars
          BY DEF ConfirmOwnerSession, vars
        <4> QED
          BY <4>1, <4>2, <4>3, <4>4 DEF Next
      <3> QED
        BY <3>1 DEF Admit, Admissible
    <2>3. Unmarked(actor[a].token) = State
      BY <2>2 DEF ExactSees
    <2>4. actor[a].token.through = through /\ actor[a].token.current = current
      BY <2>3 DEF Unmarked, State
    <2>5. ~Behind(actor[a].token)
      BY <2>1, <2>4 DEF Behind, TypeOK
    <2>6. actor[a].token.era \in Nat /\ era \in Nat
      BY <2>1, ActorTyped DEF TypeOK
    <2> QED
      BY <2>5, <2>6 DEF TokensLag
  <1> QED
    BY InitInv, StepInv, InitTokens, StepTokens, <1>1, PTL DEF Spec, TokensAreExact

-----------------------------------------------------------------------------
(* Locks and places.                                                       *)

\* The places at which a task holds the projection's mutex, and the lane.
SlotPcs == {"install", "show", "clear", "take"}
LanePcs == SharedPcs \cup (FencedPcs \ {"lower last"}) \cup {"check", "unlock"}

\* What the place of a task says of the locks, the authority and the runtime:
\* what it holds, and what nobody else can have changed since it took it.
Placed(h, r) ==
    /\ r.pc \in SlotPcs <=> slot = h
    /\ r.pc = "owner install" => r.kind = "connect"
    /\ r.pc \in {"retire", "retire runtime"} => r.kind = "retire"
    /\ r.pc = "hide" => r.kind # "retire" /\ (r.kind = "shutdown" \/ inner = h)
    /\ r.pc \in {"install", "show"} => inner = h /\ r.kind \in {"delegate", "restore", "connect"}
    /\ r.pc \in LanePcs /\ r.kind \notin Unfenced => lane = h
    /\ r.pc \in {"clear", "take", "take runtime"} => r.kind \in {"shutdown", "retire"}
    /\ r.pc = "show" => current = r.stamp
    /\ r.kind = "connect" => ~r.stamp.guest
    /\ r.kind = "connect" /\ r.pc \in {"hide", "install"} => runtime = NoStamp
    /\ r.kind = "retire" => ~r.expected.guest /\ (inner = h => runtime = r.expected)
    /\ r.kind = "retire" /\ r.pc \in {"clear", "take"} => current = r.expected
    /\ r.kind = "shutdown" /\ r.pc = "take runtime" => ~current.guest
AllPlaced == \A h \in Handoffs : Placed(h, handoff[h])

\* While the projection's mutex is held, the wire shows nothing.
Hidden == slot # NoOne => shown = NoStamp

\* A guest that is current runs, or its install has yet to store its runtime.
GuestRuns == current.guest => runtime = current \/ \E h \in Handoffs : handoff[h].pc = "show"

Arbitration == AllPlaced /\ Hidden /\ LanShowsCurrent /\ GuestRuns

\* A lock passes only from nobody to the task, and from the task to nobody.
Passes(h, holder, after) == \/ after = holder
                            \/ holder = NoOne /\ after = h
                            \/ holder = h /\ after = NoOne

\* A task changes only what it holds the lock of.
Respects(h) ==
    /\ Passes(h, slot, slot') /\ Passes(h, inner, inner') /\ Passes(h, lane, lane')
    /\ current' = current \/ slot = h
    /\ current' = current \/ ~current.guest' \/ lane = h
    /\ runtime' = runtime \/ inner = h \/ inner = NoOne

\* What one task's place says survives another task's step.
LEMMA OthersPlaced ==
    ASSUME NEW h \in Handoffs, NEW g \in Handoffs, g # h, AllPlaced, Respects(h),
           handoff'[g] = handoff[g]
    PROVE  Placed(g, handoff[g])'
  <1>1. NoOne \notin Handoffs
    BY CellAssumption DEF CellAssumption, NoOne
  <1>2. Placed(g, handoff[g])
    BY DEF AllPlaced
  <1>3. (slot' = g <=> slot = g) /\ (inner' = g <=> inner = g) /\ (lane' = g <=> lane = g)
    BY <1>1 DEF Respects, Passes
  <1>4. /\ slot = g => current' = current
        /\ lane = g => current' = current \/ ~current'.guest
        /\ inner = g => runtime' = runtime
    BY <1>1 DEF Respects
  <1>5. PICK r : r = handoff[g] /\ handoff'[g] = r
    OBVIOUS
  <1>6. Placed(g, r)'
    <2>1. Placed(g, r)
      BY <1>2, <1>5
    <2> QED
      BY <1>3, <1>4, <2>1 DEF Placed, SlotPcs, LanePcs, SharedPcs, Unfenced
  <1> QED
    BY <1>5, <1>6

\* Every step of a task respects the locks.
LEMMA ChangeRespects ==
    ASSUME TypeOK, KindFits, AllPlaced, NEW h \in Handoffs, Starting(h) \/ Changing(h)
    PROVE  Respects(h)
  <1>1. Placed(h, handoff[h]) /\ Fits(handoff[h]) /\ handoff[h] \in Handoff
    BY DEF AllPlaced, KindFits, TypeOK
  <1>2. CASE TakeLane(h)
    BY <1>1, <1>2 DEF TakeLane, Goto, Respects, Passes, Placed, Fits, cell, service, projection,
       SlotPcs, LanePcs, FencedPcs, SharedPcs, OutsidePcs, Unfenced, Outside, Become, NoStamp, Handoff
  <1>3. CASE RaiseFence(h)
    BY <1>1, <1>3 DEF RaiseFence, Goto, Respects, Passes, Placed, Fits, cell, service, projection,
       SlotPcs, LanePcs, FencedPcs, SharedPcs, OutsidePcs, Unfenced, Outside, Become, NoStamp, Handoff
  <1>4. CASE RegisterDrain(h)
    BY <1>1, <1>4 DEF RegisterDrain, Goto, Respects, Passes, Placed, Fits, cell, service, projection,
       SlotPcs, LanePcs, FencedPcs, SharedPcs, OutsidePcs, Unfenced, Outside, Become, NoStamp, Handoff
  <1>5. CASE Drain(h)
    BY <1>1, <1>5 DEF Drain, Goto, Respects, Passes, Placed, Fits, cell, service, projection,
       SlotPcs, LanePcs, FencedPcs, SharedPcs, OutsidePcs, Unfenced, Outside, Become, NoStamp, Handoff
  <1>6. CASE SleepDrain(h)
    BY <1>1, <1>6 DEF SleepDrain, Goto, Respects, Passes, Placed, Fits, cell, service, projection,
       SlotPcs, LanePcs, FencedPcs, SharedPcs, OutsidePcs, Unfenced, Outside, Become, NoStamp, Handoff
  <1>7. CASE WakeDrain(h)
    BY <1>1, <1>7 DEF WakeDrain, Goto, Respects, Passes, Placed, Fits, cell, service, projection,
       SlotPcs, LanePcs, FencedPcs, SharedPcs, OutsidePcs, Unfenced, Outside, Become, NoStamp, Handoff
  <1>8. CASE Revalidate(h)
    BY <1>1, <1>8 DEF Revalidate, Goto, Respects, Passes, Placed, Fits, cell, service, projection,
       SlotPcs, LanePcs, FencedPcs, SharedPcs, OutsidePcs, Unfenced, Outside, Become, NoStamp, Handoff
  <1>9. CASE Discard(h)
    BY <1>1, <1>9 DEF Discard, Goto, Respects, Passes, Placed, Fits, cell, service, projection,
       SlotPcs, LanePcs, FencedPcs, SharedPcs, OutsidePcs, Unfenced, Outside, Become, NoStamp, Handoff
  <1>10. CASE Commit(h)
    BY <1>1, <1>10 DEF Commit, Goto, Respects, Passes, Placed, Fits, cell, service, projection,
       SlotPcs, LanePcs, FencedPcs, SharedPcs, OutsidePcs, Unfenced, Outside, Become, NoStamp, Handoff
  <1>11. CASE Hide(h)
    BY <1>1, <1>11 DEF Hide, Goto, Respects, Passes, Placed, Fits, cell, service, projection,
       SlotPcs, LanePcs, FencedPcs, SharedPcs, OutsidePcs, Unfenced, Outside, Become, NoStamp, Handoff
  <1>12. CASE Install(h)
    BY <1>1, <1>12 DEF Install, Goto, Respects, Passes, Placed, Fits, cell, service, projection,
       SlotPcs, LanePcs, FencedPcs, SharedPcs, OutsidePcs, Unfenced, Outside, Become, NoStamp, Handoff
  <1>13. CASE InstallRefused(h)
    BY <1>1, <1>13 DEF InstallRefused, Goto, Respects, Passes, Placed, Fits, cell, service, projection,
       SlotPcs, LanePcs, FencedPcs, SharedPcs, OutsidePcs, Unfenced, Outside, Become, NoStamp, Handoff
  <1>14. CASE Show(h)
    BY <1>1, <1>14 DEF Show, Goto, Respects, Passes, Placed, Fits, cell, service, projection,
       SlotPcs, LanePcs, FencedPcs, SharedPcs, OutsidePcs, Unfenced, Outside, Become, NoStamp, Handoff
  <1>15. CASE ReserveClear(h)
    BY <1>1, <1>15 DEF ReserveClear, Goto, Respects, Passes, Placed, Fits, cell, service, projection,
       SlotPcs, LanePcs, FencedPcs, SharedPcs, OutsidePcs, Unfenced, Outside, Become, NoStamp, Handoff
  <1>16. CASE TakeAuthority(h)
    BY <1>1, <1>16 DEF TakeAuthority, Goto, Respects, Passes, Placed, Fits, cell, service, projection,
       SlotPcs, LanePcs, FencedPcs, SharedPcs, OutsidePcs, Unfenced, Outside, Become, NoStamp, Handoff
  <1>17. CASE TakeRuntime(h)
    BY <1>1, <1>17 DEF TakeRuntime, Goto, Respects, Passes, Placed, Fits, cell, service, projection,
       SlotPcs, LanePcs, FencedPcs, SharedPcs, OutsidePcs, Unfenced, Outside, Become, NoStamp, Handoff
  <1>18. CASE LowerFence(h)
    BY <1>1, <1>18 DEF LowerFence, Goto, Respects, Passes, Placed, Fits, cell, service, projection,
       SlotPcs, LanePcs, FencedPcs, SharedPcs, OutsidePcs, Unfenced, Outside, Become, NoStamp, Handoff
  <1>19. CASE Unlock(h)
    BY <1>1, <1>19 DEF Unlock, Goto, Respects, Passes, Placed, Fits, cell, service, projection,
       SlotPcs, LanePcs, FencedPcs, SharedPcs, OutsidePcs, Unfenced, Outside, Become, NoStamp, Handoff
  <1>20. CASE ConnectInstall(h)
    BY <1>1, <1>20 DEF ConnectInstall, Goto, Respects, Passes, Placed, Fits, cell, service, projection,
       SlotPcs, LanePcs, FencedPcs, SharedPcs, OutsidePcs, Unfenced, Outside, Become, NoStamp, Handoff
  <1>21. CASE RetireRuntime(h)
    BY <1>1, <1>21 DEF RetireRuntime, Goto, Respects, Passes, Placed, Fits, cell, service, projection,
       SlotPcs, LanePcs, FencedPcs, SharedPcs, OutsidePcs, Unfenced, Outside, Become, NoStamp, Handoff
  <1>22. CASE Retire(h)
    BY <1>1, <1>22 DEF Retire, Goto, Respects, Passes, Placed, Fits, cell, service, projection,
       SlotPcs, LanePcs, FencedPcs, SharedPcs, OutsidePcs, Unfenced, Outside, Become, NoStamp, Handoff
  <1>23. CASE Starting(h)
    BY <1>23 DEF Starting, Prepare, BeginShutdown, BeginConnect, BeginRetire, Respects, Passes,
       cell, service, projection
  <1> QED
    BY <1>2, <1>3, <1>4, <1>5, <1>6, <1>7, <1>8, <1>9, <1>10, <1>11, <1>12, <1>13, <1>14, <1>15, <1>16, <1>17, <1>18, <1>19, <1>20, <1>21, <1>22, <1>23
       DEF Changing

\* A task's own step leads to a place that says the truth.
LEMMA OwnPlaced ==
    ASSUME TypeOK, KindFits, AllPlaced, GuestRuns, NEW h \in Handoffs, Starting(h) \/ Changing(h)
    PROVE  Placed(h, handoff[h])'
  <1>1. Placed(h, handoff[h]) /\ Fits(handoff[h]) /\ handoff[h] \in Handoff
    BY DEF AllPlaced, KindFits, TypeOK
  <1>2. NoOne \notin Handoffs
    BY CellAssumption DEF CellAssumption, NoOne
  <1>3. handoff \in [Handoffs -> Handoff]
    BY DEF TypeOK
  <1>4. CASE TakeLane(h)
    BY <1>1, <1>2, <1>3, <1>4 DEF TakeLane, Goto, IdleHandoff, Placed, Fits, cell, service, projection,
       SlotPcs, LanePcs, FencedPcs, SharedPcs, OutsidePcs, Unfenced, Outside, StillExpected, Become, NoStamp, Handoff
  <1>5. CASE RaiseFence(h)
    <2>1. CASE StillExpected(h)
      <3>1. handoff'[h] = [handoff[h] EXCEPT !.pc = "register"]
        BY <1>3, <1>5, <2>1 DEF RaiseFence, Goto
      <3> QED
        BY <1>1, <1>2, <1>5, <2>1, <3>1 DEF RaiseFence, IdleHandoff, Placed, Fits, cell, service, projection,
           SlotPcs, LanePcs, FencedPcs, SharedPcs, OutsidePcs, Unfenced, NoStamp, Handoff
    <2>2. CASE ~StillExpected(h)
      <3>1. handoff'[h] = [handoff[h] EXCEPT !.pc = "unlock"]
        BY <1>3, <1>5, <2>2 DEF RaiseFence, Goto
      <3> QED
        BY <1>1, <1>2, <1>5, <2>2, <3>1 DEF RaiseFence, IdleHandoff, Placed, Fits, cell, service, projection,
           SlotPcs, LanePcs, FencedPcs, SharedPcs, OutsidePcs, Unfenced, NoStamp, Handoff
    <2> QED
      BY <2>1, <2>2
  <1>6. CASE RegisterDrain(h)
    BY <1>1, <1>2, <1>3, <1>6 DEF RegisterDrain, Goto, IdleHandoff, Placed, Fits, cell, service, projection,
       SlotPcs, LanePcs, FencedPcs, SharedPcs, OutsidePcs, Unfenced, Outside, StillExpected, Become, NoStamp, Handoff
  <1>7. CASE Drain(h)
    BY <1>1, <1>2, <1>3, <1>7 DEF Drain, Goto, IdleHandoff, Placed, Fits, cell, service, projection,
       SlotPcs, LanePcs, FencedPcs, SharedPcs, OutsidePcs, Unfenced, Outside, StillExpected, Become, NoStamp, Handoff
  <1>8. CASE SleepDrain(h)
    BY <1>1, <1>2, <1>3, <1>8 DEF SleepDrain, Goto, IdleHandoff, Placed, Fits, cell, service, projection,
       SlotPcs, LanePcs, FencedPcs, SharedPcs, OutsidePcs, Unfenced, Outside, StillExpected, Become, NoStamp, Handoff
  <1>9. CASE WakeDrain(h)
    BY <1>1, <1>2, <1>3, <1>9 DEF WakeDrain, Goto, IdleHandoff, Placed, Fits, cell, service, projection,
       SlotPcs, LanePcs, FencedPcs, SharedPcs, OutsidePcs, Unfenced, Outside, StillExpected, Become, NoStamp, Handoff
  <1>10. CASE Revalidate(h)
    BY <1>1, <1>2, <1>3, <1>10 DEF Revalidate, Goto, IdleHandoff, Placed, Fits, cell, service, projection,
       SlotPcs, LanePcs, FencedPcs, SharedPcs, OutsidePcs, Unfenced, Outside, StillExpected, Become, NoStamp, Handoff
  <1>11. CASE Discard(h)
    BY <1>1, <1>2, <1>3, <1>11 DEF Discard, Goto, IdleHandoff, Placed, Fits, cell, service, projection,
       SlotPcs, LanePcs, FencedPcs, SharedPcs, OutsidePcs, Unfenced, Outside, StillExpected, Become, NoStamp, Handoff
  <1>12. CASE Commit(h)
    BY <1>1, <1>2, <1>3, <1>12 DEF Commit, Goto, IdleHandoff, Placed, Fits, cell, service, projection,
       SlotPcs, LanePcs, FencedPcs, SharedPcs, OutsidePcs, Unfenced, Outside, StillExpected, Become, NoStamp, Handoff
  <1>13. CASE Hide(h)
    <2>1. CASE handoff[h].kind = "shutdown"
      <3>1. handoff'[h] = [handoff[h] EXCEPT !.pc = "clear"]
        BY <1>3, <1>13, <2>1 DEF Hide, Goto
      <3> QED
        BY <1>1, <1>2, <1>13, <2>1, <3>1 DEF Hide, IdleHandoff, Placed, Fits, cell, service, projection,
           SlotPcs, LanePcs, FencedPcs, SharedPcs, OutsidePcs, Unfenced, NoStamp, Handoff
    <2>2. CASE ~(handoff[h].kind = "shutdown")
      <3>1. handoff'[h] = [handoff[h] EXCEPT !.pc = "install"]
        BY <1>3, <1>13, <2>2 DEF Hide, Goto
      <3> QED
        BY <1>1, <1>2, <1>13, <2>2, <3>1 DEF Hide, IdleHandoff, Placed, Fits, cell, service, projection,
           SlotPcs, LanePcs, FencedPcs, SharedPcs, OutsidePcs, Unfenced, NoStamp, Handoff
    <2> QED
      BY <2>1, <2>2
  <1>14. CASE Install(h)
    BY <1>1, <1>2, <1>3, <1>14 DEF Install, Goto, IdleHandoff, Placed, Fits, cell, service, projection,
       SlotPcs, LanePcs, FencedPcs, SharedPcs, OutsidePcs, Unfenced, Outside, StillExpected, Become, NoStamp, Handoff
  <1>15. CASE InstallRefused(h)
    BY <1>1, <1>2, <1>3, <1>15 DEF InstallRefused, Goto, IdleHandoff, Placed, Fits, cell, service, projection,
       SlotPcs, LanePcs, FencedPcs, SharedPcs, OutsidePcs, Unfenced, Outside, StillExpected, Become, NoStamp, Handoff
  <1>16. CASE Show(h)
    BY <1>1, <1>2, <1>3, <1>16 DEF Show, Goto, IdleHandoff, Placed, Fits, cell, service, projection,
       SlotPcs, LanePcs, FencedPcs, SharedPcs, OutsidePcs, Unfenced, Outside, StillExpected, Become, NoStamp, Handoff
  <1>17. CASE ReserveClear(h)
    BY <1>1, <1>2, <1>3, <1>17 DEF ReserveClear, Goto, IdleHandoff, Placed, Fits, cell, service, projection,
       SlotPcs, LanePcs, FencedPcs, SharedPcs, OutsidePcs, Unfenced, Outside, StillExpected, Become, NoStamp, Handoff
  <1>18. CASE TakeAuthority(h)
    BY <1>1, <1>2, <1>3, <1>18 DEF TakeAuthority, Goto, IdleHandoff, Placed, Fits, cell, service, projection,
       SlotPcs, LanePcs, FencedPcs, SharedPcs, OutsidePcs, Unfenced, Outside, StillExpected, Become, NoStamp, Handoff
  <1>19. CASE TakeRuntime(h)
    BY <1>1, <1>2, <1>3, <1>19 DEF TakeRuntime, Goto, IdleHandoff, Placed, Fits, cell, service, projection,
       SlotPcs, LanePcs, FencedPcs, SharedPcs, OutsidePcs, Unfenced, Outside, StillExpected, Become, NoStamp, Handoff
  <1>20. CASE LowerFence(h)
    BY <1>1, <1>2, <1>3, <1>20 DEF LowerFence, Goto, IdleHandoff, Placed, Fits, cell, service, projection,
       SlotPcs, LanePcs, FencedPcs, SharedPcs, OutsidePcs, Unfenced, Outside, StillExpected, Become, NoStamp, Handoff
  <1>21. CASE Unlock(h)
    BY <1>1, <1>2, <1>3, <1>21 DEF Unlock, Goto, IdleHandoff, Placed, Fits, cell, service, projection,
       SlotPcs, LanePcs, FencedPcs, SharedPcs, OutsidePcs, Unfenced, Outside, StillExpected, Become, NoStamp, Handoff
  <1>22. CASE ConnectInstall(h)
    <2>1. CASE runtime = NoStamp
      <3>1. handoff'[h] = [handoff[h] EXCEPT !.pc = "hide"]
        BY <1>3, <1>22, <2>1 DEF ConnectInstall, Goto
      <3> QED
        BY <1>1, <1>2, <1>22, <2>1, <3>1 DEF ConnectInstall, IdleHandoff, Placed, Fits, cell, service, projection,
           SlotPcs, LanePcs, FencedPcs, SharedPcs, OutsidePcs, Unfenced, NoStamp, Handoff
    <2>2. CASE ~(runtime = NoStamp)
      <3>1. handoff' = [handoff EXCEPT ![h] = IdleHandoff] /\ slot' = slot
        BY <1>22, <2>2 DEF ConnectInstall, projection
      <3>2. handoff'[h].pc = "idle" /\ handoff'[h].kind = "shutdown"
        BY <1>3, <3>1 DEF IdleHandoff
      <3>3. slot # h
        BY <1>1, <1>22 DEF ConnectInstall, Placed, SlotPcs
      <3> QED
        BY <3>1, <3>2, <3>3 DEF Placed, SlotPcs, LanePcs, FencedPcs, SharedPcs
    <2> QED
      BY <2>1, <2>2
  <1>23. CASE RetireRuntime(h)
    <2>1. CASE runtime = handoff[h].expected
      <3>1. handoff'[h] = [handoff[h] EXCEPT !.pc = "retire"]
        BY <1>3, <1>23, <2>1 DEF RetireRuntime, Goto
      <3> QED
        BY <1>1, <1>2, <1>23, <2>1, <3>1 DEF RetireRuntime, IdleHandoff, Placed, Fits, cell, service, projection,
           SlotPcs, LanePcs, FencedPcs, SharedPcs, OutsidePcs, Unfenced, NoStamp, Handoff
    <2>2. CASE ~(runtime = handoff[h].expected)
      <3>1. handoff' = [handoff EXCEPT ![h] = IdleHandoff] /\ slot' = slot
        BY <1>23, <2>2 DEF RetireRuntime, projection
      <3>2. handoff'[h].pc = "idle" /\ handoff'[h].kind = "shutdown"
        BY <1>3, <3>1 DEF IdleHandoff
      <3>3. slot # h
        BY <1>1, <1>23 DEF RetireRuntime, Placed, SlotPcs
      <3> QED
        BY <3>1, <3>2, <3>3 DEF Placed, SlotPcs, LanePcs, FencedPcs, SharedPcs
    <2> QED
      BY <2>1, <2>2
  <1>24. CASE Retire(h)
    <2>1. CASE current = handoff[h].expected
      <3>1. handoff'[h] = [handoff[h] EXCEPT !.pc = "clear"]
        BY <1>3, <1>24, <2>1 DEF Retire, Goto
      <3> QED
        BY <1>1, <1>2, <1>24, <2>1, <3>1 DEF Retire, IdleHandoff, Placed, Fits, cell, service, projection,
           SlotPcs, LanePcs, FencedPcs, SharedPcs, OutsidePcs, Unfenced, NoStamp, Handoff
    <2>2. CASE ~(current = handoff[h].expected)
      <3>1. handoff'[h] = [handoff[h] EXCEPT !.pc = "take runtime"]
        BY <1>3, <1>24, <2>2 DEF Retire, Goto
      <3> QED
        BY <1>1, <1>2, <1>24, <2>2, <3>1 DEF Retire, IdleHandoff, Placed, Fits, cell, service, projection,
           SlotPcs, LanePcs, FencedPcs, SharedPcs, OutsidePcs, Unfenced, NoStamp, Handoff
    <2> QED
      BY <2>1, <2>2
  <1>25. CASE \E kind \in Changes : Prepare(h, kind)
    BY <1>1, <1>2, <1>3, <1>25 DEF Prepare, Placed, cell, service, projection,
       SlotPcs, LanePcs, FencedPcs, SharedPcs, OutsidePcs, Unfenced, NoStamp, Handoff
  <1>26. CASE BeginShutdown(h)
    BY <1>1, <1>2, <1>3, <1>26 DEF BeginShutdown, Placed, cell, service, projection,
       SlotPcs, LanePcs, FencedPcs, SharedPcs, OutsidePcs, Unfenced, NoStamp, Handoff
  <1>27. CASE BeginConnect(h)
    BY <1>1, <1>2, <1>3, <1>27 DEF BeginConnect, Placed, cell, service, projection,
       SlotPcs, LanePcs, FencedPcs, SharedPcs, OutsidePcs, Unfenced, NoStamp, Handoff
  <1>28. CASE BeginRetire(h)
    BY <1>1, <1>2, <1>3, <1>28 DEF BeginRetire, Placed, cell, service, projection,
       SlotPcs, LanePcs, FencedPcs, SharedPcs, OutsidePcs, Unfenced, NoStamp, Handoff
  <1> QED
    BY <1>4, <1>5, <1>6, <1>7, <1>8, <1>9, <1>10, <1>11, <1>12, <1>13, <1>14, <1>15, <1>16, <1>17, <1>18, <1>19, <1>20, <1>21, <1>22, <1>23, <1>24, <1>25, <1>26, <1>27, <1>28
       DEF Starting, Changing

LEMMA ChangeArbitrates ==
    ASSUME Inv, Arbitration, NEW h \in Handoffs, Starting(h) \/ Changing(h)
    PROVE  Arbitration'
  <1>1. TypeOK /\ KindFits /\ AllPlaced /\ Hidden /\ LanShowsCurrent /\ GuestRuns
    BY DEF Inv, Arbitration
  <1>2. NoOne \notin Handoffs /\ ~NoStamp.guest
    BY CellAssumption DEF CellAssumption, NoOne, NoStamp
  <1>3. Respects(h) /\ Placed(h, handoff[h]) /\ Placed(h, handoff[h])'
    BY <1>1, ChangeRespects, OwnPlaced DEF AllPlaced
  <1>4. \A g \in Handoffs \ {h} : handoff'[g] = handoff[g]
    <2>1. PICK r \in Handoff : Moved(h, r)
      BY <1>1, ChangeMoves
    <2> QED
      BY <1>1, <2>1 DEF Moved, TypeOK
  <1>5. AllPlaced'
    BY <1>1, <1>3, <1>4, OthersPlaced DEF AllPlaced
  <1>6. \/ shown' = shown /\ (slot' = slot \/ slot' = NoOne)
        \/ shown' = NoStamp
        \/ shown' = current /\ slot' = NoOne /\ current' = current
    <2>1. CASE Show(h)
      BY <1>3, <2>1 DEF Show, Placed, cell
    <2>2. CASE ~Show(h)
      BY <2>2 DEF Starting, Changing, TakeLane, RaiseFence, RegisterDrain, Drain, SleepDrain,
           WakeDrain, Revalidate, Discard, Commit, Hide, Install, InstallRefused,
           ReserveClear, TakeAuthority, TakeRuntime, LowerFence, Unlock, ConnectInstall,
           RetireRuntime, Retire, Prepare, BeginShutdown, BeginConnect, BeginRetire,
           cell, projection
    <2> QED
      BY <2>1, <2>2
  <1>7. Hidden'
    BY <1>1, <1>6 DEF Hidden
  <1>8. LanShowsCurrent'
    <2>1. CASE current' = current
      BY <1>1, <1>6, <2>1 DEF LanShowsCurrent
    <2>2. CASE current' # current
      <3>1. slot = h
        BY <1>3, <2>2 DEF Respects
      <3>2. shown = NoStamp
        BY <1>1, <1>2, <3>1 DEF Hidden
      <3> QED
        BY <1>6, <2>2, <3>2 DEF LanShowsCurrent
    <2> QED
      BY <2>1, <2>2
  <1>9. GuestRuns'
    <2>1. CASE Install(h)
      <3>1. handoff'[h].pc = "show"
        BY <1>1, <2>1 DEF Install, Goto, TypeOK, Handoff
      <3> QED
        BY <3>1 DEF GuestRuns
    <2>2. CASE TakeAuthority(h)
      BY <1>2, <2>2 DEF TakeAuthority, Become, GuestRuns
    <2>3. CASE Show(h)
      BY <1>3, <2>3 DEF Show, Placed, GuestRuns, cell
    <2>4. CASE TakeRuntime(h)
      <3>1. /\ current' = current /\ handoff[h].pc = "take runtime"
            /\ runtime' = runtime \/ inner = h \/ ~Outside(h)
        BY <2>4 DEF TakeRuntime, cell
      <3>2. handoff[h].kind \in {"shutdown", "retire"}
        BY <1>3, <3>1 DEF Placed
      <3>3. CASE handoff[h].kind = "shutdown"
        BY <1>3, <3>1, <3>3 DEF Placed, GuestRuns
      <3>4. CASE handoff[h].kind = "retire" /\ inner = h
        <4>1. ~runtime.guest
          BY <1>3, <3>4 DEF Placed
        <4>2. \A g \in Handoffs : handoff[g].pc # "show"
          BY <1>1, <3>1, <3>4 DEF AllPlaced, Placed
        <4> QED
          BY <1>1, <3>1, <4>1, <4>2 DEF GuestRuns
      <3>5. CASE handoff[h].kind = "retire" /\ inner # h
        <4>1. runtime' = runtime
          BY <3>1, <3>5 DEF Outside
        <4> QED
          BY <1>1, <1>4, <3>1, <4>1 DEF GuestRuns
      <3> QED
        BY <3>2, <3>3, <3>4, <3>5
    <2>5. CASE RetireRuntime(h)
      <3>1. /\ current' = current /\ inner = NoOne /\ handoff[h].pc = "retire runtime"
            /\ runtime' = runtime \/ runtime = handoff[h].expected
        BY <2>5 DEF RetireRuntime, cell, service
      <3>2. \A g \in Handoffs : handoff[g].pc # "show"
        BY <1>1, <1>2, <3>1 DEF AllPlaced, Placed
      <3>3. ~handoff[h].expected.guest
        BY <1>3, <3>1 DEF Placed
      <3> QED
        BY <1>1, <3>1, <3>2, <3>3 DEF GuestRuns
    <2>6. CASE ~(Install(h) \/ TakeAuthority(h) \/ Show(h) \/ TakeRuntime(h) \/ RetireRuntime(h))
      <3>1. current' = current /\ runtime' = runtime /\ handoff[h].pc # "show"
        BY <2>6 DEF Starting, Changing, TakeLane, RaiseFence, RegisterDrain, Drain, SleepDrain,
           WakeDrain, Revalidate, Discard, Commit, Hide, InstallRefused,
           ReserveClear, LowerFence, Unlock, ConnectInstall,
           Retire, Prepare, BeginShutdown, BeginConnect, BeginRetire, cell, service
      <3> QED
        BY <1>1, <1>4, <3>1 DEF GuestRuns
    <2> QED
      BY <2>1, <2>2, <2>3, <2>4, <2>5, <2>6
  <1> QED
    BY <1>5, <1>7, <1>8, <1>9 DEF Arbitration

\* A step of an actor wakes at most a waiter among the tasks.
LEMMA AskKeepsChanges ==
    ASSUME TypeOK, NEW a \in Actors, Ongoing(a) \/ \E kind \in Kinds : Ask(a, kind)
    PROVE  /\ cell' = cell /\ service' = service /\ projection' = projection /\ lane' = lane
           /\ \A h \in Handoffs : /\ handoff'[h].pc = handoff[h].pc
                                  /\ handoff'[h].kind = handoff[h].kind
                                  /\ handoff'[h].expected = handoff[h].expected
                                  /\ handoff'[h].stamp = handoff[h].stamp
  <1>1. /\ cell' = cell /\ service' = service /\ projection' = projection /\ lane' = lane
        /\ handoff' = handoff \/ handoff' = WakeDrains
    BY DEF Ongoing, Ask, FirstLook, Observe, CountIn, SecondLook, Admit, Reject, CountOut,
       NotifyDrained, RegisterWaiter, LookThenSleep, FallAsleep, WakeWaiter
  <1>2. \A h \in Handoffs : /\ WakeDrains[h].pc = handoff[h].pc
                            /\ WakeDrains[h].kind = handoff[h].kind
                            /\ WakeDrains[h].expected = handoff[h].expected
                            /\ WakeDrains[h].stamp = handoff[h].stamp
    BY DEF WakeDrains, TypeOK, Handoff
  <1> QED
    BY <1>1, <1>2

LEMMA StepArbitrates == Inv /\ Arbitration /\ [Next]_vars => Arbitration'
  <1> SUFFICES ASSUME Inv, Arbitration, [Next]_vars PROVE Arbitration'
    OBVIOUS
  <1>1. ASSUME NEW a \in Actors, Ongoing(a) \/ \E kind \in Kinds : Ask(a, kind)
        PROVE  Arbitration'
    <2>1. TypeOK
      BY DEF Inv
    <2>2. /\ UNCHANGED <<current, inner, runtime, slot, shown, lane>>
          /\ \A h \in Handoffs : /\ handoff'[h].pc = handoff[h].pc
                                 /\ handoff'[h].kind = handoff[h].kind
                                 /\ handoff'[h].expected = handoff[h].expected
                                 /\ handoff'[h].stamp = handoff[h].stamp
      BY <1>1, <2>1, AskKeepsChanges DEF cell, service, projection
    <2>3. AllPlaced'
      <3> SUFFICES ASSUME NEW h \in Handoffs PROVE Placed(h, handoff[h])'
        BY DEF AllPlaced
      <3>1. Placed(h, handoff[h])
        BY DEF Arbitration, AllPlaced
      <3>2. PICK q, r : /\ q = handoff[h] /\ r = handoff'[h]
                        /\ r.pc = q.pc /\ r.kind = q.kind
                        /\ r.expected = q.expected /\ r.stamp = q.stamp
        BY <2>2
      <3>3. Placed(h, q) => Placed(h, r)'
        BY <2>2, <3>2 DEF Placed, SlotPcs
      <3> QED
        BY <3>1, <3>2, <3>3
    <2> QED
      BY <2>2, <2>3 DEF Arbitration, Hidden, LanShowsCurrent, GuestRuns
  <1>2. CASE ConfirmOwnerSession
    BY <1>2 DEF ConfirmOwnerSession, Arbitration, AllPlaced, Placed, Hidden, LanShowsCurrent,
       GuestRuns, cell, service
  <1>3. CASE UNCHANGED vars
    BY <1>3 DEF vars, Arbitration, AllPlaced, Placed, Hidden, LanShowsCurrent, GuestRuns
  <1> QED
    BY <1>1, <1>2, <1>3, ChangeArbitrates DEF Next

LEMMA InitArbitrates == Init => Arbitration
  <1> SUFFICES ASSUME Init PROVE Arbitration
    OBVIOUS
  <1>1. NoOne \notin Handoffs
    BY CellAssumption DEF CellAssumption, NoOne
  <1>2. AllPlaced
    <2> SUFFICES ASSUME NEW h \in Handoffs PROVE Placed(h, handoff[h])
      BY DEF AllPlaced
    <2>1. handoff[h].pc = "idle" /\ handoff[h].kind = "shutdown" /\ slot # h
      BY <1>1 DEF Init, IdleHandoff
    <2> QED
      BY <2>1 DEF Placed, SlotPcs, LanePcs, SharedPcs, FencedPcs
  <1> QED
    BY <1>2 DEF Init, NoStamp, Arbitration, Hidden, LanShowsCurrent, GuestRuns

\* The LAN wire shows the session of the current authority or nothing, between
\* the steps of an install and of a clear as well (ProjectedAuthority): hiding,
\* changing and showing happen under the projection's mutex.
THEOREM LanIsCurrent == Spec => []LanShowsCurrent
  <1>1. Arbitration => LanShowsCurrent
    BY DEF Arbitration
  <1> QED
    BY InitInv, StepInv, InitArbitrates, StepArbitrates, <1>1, PTL DEF Spec

-----------------------------------------------------------------------------
(* Acting for the authority that is there.                                 *)

\* What an owner permit saw on its way in, and every token, is not a guest's.
OwnersSeen ==
    \A a \in Actors :
        /\ ~actor[a].token.current.guest
        /\ actor[a].kind = "owner" /\ actor[a].pc \in {"count", "relook", "confirm"}
              => ~actor[a].seen.current.guest

\* A change of authority leaves no action of the old one running: behind the
\* fence nobody acts, and outside it the old authority is not a guest.
LEMMA ChangeEndsActions ==
    ASSUME Inv, Arbitration, ActsForItsAuthority, OwnersSeen,
           NEW h \in Handoffs, Starting(h) \/ Changing(h)
    PROVE  ActsForItsAuthority' /\ OwnersSeen'
  <1>1. TypeOK /\ NobodyConfirms /\ AllPlaced /\ GuestRuns /\ ~NoStamp.guest
    BY DEF Inv, Arbitration, NoStamp
  <1>2. Placed(h, handoff[h])
    BY <1>1 DEF AllPlaced
  <1>3. \A a \in Actors : /\ actor'[a].token = actor[a].token /\ actor'[a].kind = actor[a].kind
                          /\ actor'[a].pc = actor[a].pc /\ actor'[a].seen = actor[a].seen
    <2>1. actor' = actor \/ actor' = ResumeAll
      BY DEF Starting, Changing, TakeLane, RaiseFence, RegisterDrain, Drain, SleepDrain,
         WakeDrain, Revalidate, Discard, Commit, Hide, Install, InstallRefused, Show,
         ReserveClear, TakeAuthority, TakeRuntime, LowerFence, Unlock, ConnectInstall,
         RetireRuntime, Retire, Prepare, BeginShutdown, BeginConnect, BeginRetire
    <2> QED
      BY <1>1, <2>1 DEF ResumeAll, TypeOK, Actor
  <1>4. OwnersSeen'
    BY <1>3 DEF OwnersSeen
  <1> SUFFICES ASSUME NEW a \in Actors, actor[a].pc = "acting"
               PROVE  /\ actor[a].kind \in {"owner", "exact"} => ~current.guest'
                      /\ actor[a].kind = "runtime" /\ actor[a].seen.current.guest
                            => current' = actor[a].seen.current
    BY <1>3, <1>4 DEF ActsForItsAuthority
  <1>5. CASE current' = current
    BY <1>5 DEF ActsForItsAuthority
  <1>6. CASE Drained(h)
    BY <1>1, <1>6 DEF NobodyConfirms
  <1>7. CASE Outside(h) /\ (Install(h) \/ TakeAuthority(h))
    <2>1. ~current.guest
      <3>1. CASE Install(h)
        <4>1. handoff[h].kind = "connect" /\ runtime = NoStamp /\ inner = h /\ handoff[h].pc = "install"
          BY <1>2, <1>7, <3>1 DEF Placed, Install, Outside
        <4>2. \A g \in Handoffs : handoff[g].pc # "show"
          BY <1>1, <4>1 DEF AllPlaced, Placed
        <4> QED
          BY <1>1, <4>1, <4>2 DEF GuestRuns
      <3>2. CASE TakeAuthority(h)
        <4>1. handoff[h].kind = "retire" /\ handoff[h].pc = "take"
          BY <1>2, <1>7, <3>2 DEF Placed, TakeAuthority, Outside
        <4> QED
          BY <1>2, <4>1 DEF Placed
      <3> QED
        BY <1>7, <3>1, <3>2
    <2>2. ~current.guest'
      <3>1. CASE Install(h)
        BY <1>2, <1>7, <3>1 DEF Placed, Install, Outside, Become
      <3>2. CASE TakeAuthority(h)
        BY <1>1, <3>2 DEF TakeAuthority, Become
      <3> QED
        BY <1>7, <3>1, <3>2
    <2> QED
      BY <2>1, <2>2 DEF ActsForItsAuthority
  <1>8. CASE ~Install(h) /\ ~TakeAuthority(h)
    <2>1. current' = current
      BY <1>8 DEF Starting, Changing, TakeLane, RaiseFence, RegisterDrain, Drain, SleepDrain,
         WakeDrain, Revalidate, Discard, Commit, Hide, InstallRefused, Show,
         ReserveClear, TakeRuntime, LowerFence, Unlock, ConnectInstall,
         RetireRuntime, Retire, Prepare, BeginShutdown, BeginConnect, BeginRetire, cell
    <2> QED
      BY <1>5, <2>1
  <1>9. Install(h) \/ TakeAuthority(h) => Drained(h) \/ Outside(h)
    BY DEF Install, TakeAuthority, Drained
  <1> QED
    BY <1>5, <1>6, <1>7, <1>8, <1>9

\* An action starts for the authority that is there, and no step of an actor
\* changes the authority.
LEMMA AskActsForCurrent ==
    ASSUME Inv, ExactSees, ActsForItsAuthority, OwnersSeen, NEW a \in Actors,
           Ongoing(a) \/ \E kind \in Kinds : Ask(a, kind)
    PROVE  ActsForItsAuthority' /\ OwnersSeen'
  <1>1. TypeOK
    BY DEF Inv
  <1>2. current' = current /\ \A b \in Actors \ {a} : actor'[b] = actor[b]
    BY <1>1 DEF cell, TypeOK, Ongoing, Ask, FirstLook, Observe, CountIn, SecondLook, Admit, Reject,
       CountOut, NotifyDrained, RegisterWaiter, LookThenSleep, FallAsleep, WakeWaiter, Refuse
  <1>3. actor[a] \in Actor
    BY <1>1, ActorTyped
  <1> DEFINE Good(r) == /\ ~r.token.current.guest
                        /\ r.kind = "owner" /\ r.pc \in {"count", "relook", "confirm"}
                              => ~r.seen.current.guest
                        /\ r.pc = "acting" =>
                              /\ r.kind \in {"owner", "exact"} => ~current.guest
                              /\ r.kind = "runtime" /\ r.seen.current.guest
                                    => current = r.seen.current
  <1>4. Good(actor[a])
    BY DEF ActsForItsAuthority, OwnersSeen
  <1>5. ASSUME NEW then \in {"idle", "await"}, Refuse(a, then) PROVE Good(actor'[a])
    <2>1. \/ actor'[a] = IdleActor(actor[a].token)
          \/ actor'[a] = [actor[a] EXCEPT !.pc = then] /\ then = "await"
      BY <1>1, <1>5 DEF Refuse, TypeOK
    <2>2. actor'[a].token = actor[a].token /\ actor'[a].pc \notin {"count", "relook", "confirm", "acting"}
      BY <1>3, <2>1 DEF IdleActor, Actor
    <2> QED
      BY <1>4, <2>2
  <1>6. ASSUME actor'[a].token = actor[a].token,
               actor'[a].pc \notin {"count", "relook", "confirm", "acting"}
        PROVE  Good(actor'[a])
    BY <1>4, <1>6
  <1>7. actor[a].then \in {"idle", "await"} /\ Fenced(a) \in {"idle", "await"}
    BY <1>1, ActorTyped DEF Fenced
  <1>8. Good(actor'[a])
    <2> HIDE DEF Good
    <2>1. ASSUME NEW kind \in Kinds, Ask(a, kind) PROVE Good(actor'[a])
      <3>1. PICK seen : actor' = [actor EXCEPT ![a].pc = "look", ![a].kind = kind, ![a].seen = seen]
        BY <2>1 DEF Ask
      <3>2. actor'[a] = [actor[a] EXCEPT !.pc = "look", !.kind = kind, !.seen = seen]
        BY <1>1, <3>1 DEF TypeOK
      <3>3. actor'[a].token = actor[a].token /\ actor'[a].pc = "look"
        BY <1>3, <3>2 DEF Actor
      <3> QED
        BY <1>6, <3>3
    <2>2. CASE FirstLook(a)
      <3>1. CASE Refuse(a, Fenced(a))
        BY <1>5, <1>7, <3>1
      <3>2. CASE actor' = [actor EXCEPT ![a].pc = "observe"]
        <4>1. actor'[a].token = actor[a].token /\ actor'[a].pc = "observe"
          BY <1>1, <1>3, <3>2 DEF TypeOK, Actor
        <4> QED
          BY <1>6, <4>1
      <3> QED
        BY <2>2, <3>1, <3>2 DEF FirstLook
    <2>3. CASE Observe(a)
      <3>1. CASE OwnerState /\ actor' = [actor EXCEPT ![a].pc = "count", ![a].seen = State]
        <4>1. actor'[a].token = actor[a].token /\ actor'[a].pc = "count" /\ actor'[a].seen = State
          BY <1>1, <1>3, <3>1 DEF TypeOK, Actor
        <4> QED
          BY <1>4, <3>1, <4>1 DEF Good, State, OwnerState
      <3>2. CASE actor[a].kind # "owner" /\ actor' = [actor EXCEPT ![a].pc = "count"]
        <4>1. /\ actor'[a].token = actor[a].token /\ actor'[a].pc = "count"
              /\ actor'[a].kind # "owner"
          BY <1>1, <1>3, <3>2 DEF TypeOK, Actor
        <4> QED
          BY <1>4, <4>1 DEF Good
      <3>3. CASE Refuse(a, "idle")
        BY <1>5, <3>3
      <3> QED
        BY <2>3, <3>1, <3>2, <3>3 DEF Observe
    <2>4. CASE CountIn(a)
      <3>1. /\ actor[a].pc = "count" /\ actor'[a] = [actor[a] EXCEPT !.pc = "relook"]
        BY <1>1, <2>4 DEF CountIn, TypeOK
      <3> QED
        BY <1>3, <1>4, <3>1 DEF Good, Actor
    <2>5. CASE SecondLook(a)
      <3>1. /\ actor[a].pc = "relook"
            /\ \/ actor'[a] = [actor[a] EXCEPT !.pc = "leave", !.then = Fenced(a)]
               \/ actor'[a] = [actor[a] EXCEPT !.pc = "confirm"]
        BY <1>1, <2>5 DEF SecondLook, TypeOK
      <3> QED
        BY <1>3, <1>4, <3>1 DEF Good, Actor
    <2>6. CASE Admit(a)
      <3> DEFINE token == IF actor[a].kind = "owner"
                          THEN [current |-> current, through |-> through, era |-> era]
                          ELSE actor[a].token
      <3>1. /\ actor'[a] = [actor[a] EXCEPT !.pc = "acting", !.token = token]
            /\ actor[a].pc = "confirm" /\ Admissible(a)
        BY <1>1, <2>6 DEF Admit, TypeOK
      <3> HIDE DEF token
      <3>2. /\ actor'[a].token = token /\ actor'[a].kind = actor[a].kind
            /\ actor'[a].seen = actor[a].seen /\ actor'[a].pc = "acting"
        BY <1>3, <3>1 DEF Actor
      <3>3. CASE actor[a].kind = "owner"
        <4>1. ~actor[a].seen.current.guest /\ actor[a].seen = State
          BY <1>4, <3>1, <3>3 DEF Good, Admissible
        <4>2. ~current.guest
          BY <4>1 DEF State
        <4> QED
          BY <3>2, <3>3, <4>2 DEF Good, token
      <3>4. CASE actor[a].kind = "exact"
        <4>1. actor[a].seen = State /\ actor[a].seen = Unmarked(actor[a].token)
          BY <3>1, <3>4 DEF Admissible, ExactSees
        <4>2. actor[a].token.current = current
          BY <4>1 DEF State, Unmarked
        <4> QED
          BY <1>4, <3>2, <3>4, <4>2 DEF Good, token
      <3>5. CASE actor[a].kind = "runtime"
        <4>1. current = actor[a].seen.current
          BY <3>1, <3>5 DEF Admissible
        <4> QED
          BY <1>4, <3>2, <3>5, <4>1 DEF Good, token
      <3>6. CASE actor[a].kind = "transport"
        BY <1>4, <3>2, <3>6 DEF Good, token
      <3> QED
        BY <1>1, <3>3, <3>4, <3>5, <3>6, ActorTyped
    <2>7. CASE Reject(a)
      <3>1. actor'[a].token = actor[a].token /\ actor'[a].pc = "leave"
        BY <1>1, <1>3, <2>7 DEF Reject, TypeOK, Actor
      <3> QED
        BY <1>6, <3>1
    <2>8. CASE CountOut(a)
      <3>1. CASE actor' = [actor EXCEPT ![a].pc = "notify"]
        <4>1. actor'[a].token = actor[a].token /\ actor'[a].pc = "notify"
          BY <1>1, <1>3, <3>1 DEF TypeOK, Actor
        <4> QED
          BY <1>6, <4>1
      <3> QED
        BY <1>5, <1>7, <2>8, <3>1 DEF CountOut
    <2>9. CASE NotifyDrained(a)
      BY <1>5, <1>7, <2>9 DEF NotifyDrained
    <2>10. CASE RegisterWaiter(a) \/ LookThenSleep(a) \/ FallAsleep(a) \/ WakeWaiter(a)
      <3>1. \/ actor'[a] = [actor[a] EXCEPT !.pc = "await look", !.then = "idle"]
            \/ actor'[a] = [actor[a] EXCEPT !.pc = "look", !.woken = FALSE]
            \/ actor'[a] = [actor[a] EXCEPT !.pc = "drowsy"]
            \/ actor'[a] = [actor[a] EXCEPT !.pc = "asleep"]
            \/ actor'[a] = [actor[a] EXCEPT !.pc = "await", !.woken = FALSE]
        BY <1>1, <2>10 DEF RegisterWaiter, LookThenSleep, FallAsleep, WakeWaiter, TypeOK
      <3>2. /\ actor'[a].token = actor[a].token
            /\ actor'[a].pc \in {"await look", "look", "drowsy", "asleep", "await"}
        BY <1>3, <3>1 DEF Actor
      <3> QED
        BY <1>6, <3>2
    <2> QED
      BY <2>1, <2>2, <2>3, <2>4, <2>5, <2>6, <2>7, <2>8, <2>9, <2>10 DEF Ongoing
  <1> QED
    BY <1>2, <1>8 DEF ActsForItsAuthority, OwnersSeen

\* No work of the owner runs while a guest has the authority, and no work of a
\* guest's runtime after that guest lost it: permits are confirmed after they
\* are counted, a fenced change waits for the count, and the two changes outside
\* the fence find no guest (begin_owner_action, begin_runtime_action).
THEOREM ActsForAuthority == Spec => []ActsForItsAuthority
  <1>1. Init => OwnersSeen /\ ActsForItsAuthority
    <2> SUFFICES ASSUME Init, NEW a \in Actors
                 PROVE  /\ actor[a].token = NoToken /\ actor[a].pc = "idle"
                        /\ ~NoToken.current.guest
      BY DEF OwnersSeen, ActsForItsAuthority
    <2> QED
      BY DEF Init, IdleActor, NoToken, NoStamp
  <1>2. /\ Inv /\ Arbitration /\ TokensLag /\ ExactSees
        /\ OwnersSeen /\ ActsForItsAuthority /\ [Next]_vars
        => (OwnersSeen /\ ActsForItsAuthority)'
    <2> SUFFICES ASSUME Inv, Arbitration, ExactSees, OwnersSeen, ActsForItsAuthority, [Next]_vars
                 PROVE  (OwnersSeen /\ ActsForItsAuthority)'
      OBVIOUS
    <2>1. CASE UNCHANGED vars \/ ConfirmOwnerSession
      BY <2>1 DEF vars, ConfirmOwnerSession, cell, OwnersSeen, ActsForItsAuthority
    <2> QED
      BY <2>1, AskActsForCurrent, ChangeEndsActions DEF Next
  <1> QED
    BY InitInv, StepInv, InitArbitrates, StepArbitrates, InitTokens, StepTokens, <1>1, <1>2,
       PTL DEF Spec
=============================================================================
