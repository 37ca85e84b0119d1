------------------------ MODULE PlaybackDriver_proofs ------------------------
(***************************************************************************)
(* What the playback driver and the player promise for any rows, whatever  *)
(* of them can be played, and any number of things the user does and that  *)
(* fail.                                                                   *)
(***************************************************************************)
EXTENDS PlaybackDriver, SequenceTheorems, FiniteSetTheorems, TLAPS

------------------------------------------------------------------------------
(* Types *)

\* Rows are counted from 1, and the first of them is there.
LEMMA RowsAreNumbers ==
    /\ Tracks \subseteq Nat \ {0} /\ Ids \subseteq Nat /\ 1 \in Tracks
<1>1. PICK t \in Tracks : TRUE
  BY EngineAssumption
<1>2. Cardinality(Tracks) \in Nat /\ t <= Cardinality(Tracks) /\ 1 <= t
  BY <1>1, FS_CardinalityType, DriverAssumption
<1> QED
  BY <1>1, <1>2, DriverAssumption, EngineAssumption DEF Ids

\* What is a phase of a position, and what is the name of a row or none.
LEMMA PhaseFacts ==
  /\ Early \in Phases /\ Window \in Phases /\ Tail2 \in Phases /\ AtEnd \in Phases
  /\ \A p \in Phases : p # AtEnd => p + 1 \in Phases
  BY DEF Phases, Early, Window, Tail2, AtEnd

LEMMA IdFacts == 0 \in Ids /\ \A t \in Tracks : t \in Ids
  BY DEF Ids

\* A command of its type, by its kind.
LEMMA CommandTypes ==
  /\ \A op \in Plays \cup {"PlayNext"}, t \in Tracks : Command(op, t, TRUE) \in Commands
  /\ \A op \in {"Pause", "Resume", "Stop"} : Command(op, 0, TRUE) \in Commands
  BY RowsAreNumbers DEF Command, Commands, Ops, Plays, Ids

\* What newer plays do to the channel and to the loads keeps their types.
LEMMA StaleTypes ==
  /\ \A queue_ \in Seq(Commands) : Stale(queue_) \in Seq(Commands)
  /\ loads \in [Callers -> LoadStates] => StaleLoads \in [Callers -> LoadStates]
<1>1. ASSUME NEW q \in Seq(Commands) PROVE Stale(q) \in Seq(Commands)
  <2>1. DOMAIN q = 1..Len(q) /\ Len(q) \in Nat /\ \A i \in 1..Len(q) : q[i] \in Commands
    OBVIOUS
  <2>2. \A i \in 1..Len(q) : [q[i] EXCEPT !.fresh = FALSE] \in Commands
    BY <2>1 DEF Commands
  <2>3. Stale(q) \in [1..Len(q) -> Commands]
    BY <2>1, <2>2 DEF Stale
  <2> QED
    BY <2>1, <2>3, SeqDef
<1>2. ASSUME loads \in [Callers -> LoadStates] PROVE StaleLoads \in [Callers -> LoadStates]
  <2>1. \A l \in LoadStates : [l EXCEPT !.fresh = FALSE] \in LoadStates
    BY DEF LoadStates
  <2> QED
    BY <1>2, <2>1 DEF StaleLoads
<1> QED
  BY <1>1, <1>2

\* A superseding play leaves a well-typed player.
LEMMA SupersededType ==
  ASSUME EngineTypeOK, Superseded
  PROVE  /\ busy' \in [op : Plays, track : Tracks, fresh : BOOLEAN] \cup {NoPlay}
         /\ intent' \in BOOLEAN /\ feed' \in [track : Ids, state : {"none", "open", "dead"}]
         /\ eng' \in EngineStates
         /\ fetches' \subseteq [track : Tracks, state : {"spawned", "running", "overtaken"}]
<1> USE DEF EngineTypeOK, Superseded
<1>1. busy' \in [op : Plays, track : Tracks, fresh : BOOLEAN] \cup {NoPlay}
  <2>1. CASE busy = NoPlay
    BY <2>1 DEF NoPlay, Command
  <2>2. CASE busy \in [op : Plays, track : Tracks, fresh : BOOLEAN]
    BY <2>2
  <2> QED
    BY <2>1, <2>2
<1>2. feed' \in [track : Ids, state : {"none", "open", "dead"}]
  BY DEF NoFeed, Ids
<1>3. eng' \in EngineStates
  BY DEF EngineStates
<1> QED
  BY <1>1, <1>2, <1>3

\* The head of the channel is a command, and what is left is a channel.
LEMMA TakenType ==
  ASSUME EngineTypeOK, NEW ops, Takes(ops)
  PROVE  Head(cmds) \in Commands /\ cmds' \in Seq(Commands) /\ Head(cmds).op \in ops
  BY HeadTailProperties DEF EngineTypeOK, Takes

\* A command the driver or a route hands over.
LEMMA SentType ==
  ASSUME EngineTypeOK, NEW q \in {cmds, Stale(cmds)}, NEW c \in Commands
  PROVE  Append(q, c) \in Seq(Commands)
  BY StaleTypes, AppendProperties DEF EngineTypeOK

LEMMA StartPlayType == EngineTypeOK /\ StartPlay => EngineTypeOK'
<1> SUFFICES ASSUME EngineTypeOK, StartPlay PROVE EngineTypeOK'
  OBVIOUS
<1>1. Head(cmds) \in Commands /\ cmds' \in Seq(Commands) /\ Head(cmds).op \in Plays
  BY TakenType DEF StartPlay
<1>2. Head(cmds) \in [op : Plays, track : Tracks, fresh : BOOLEAN]
  BY <1>1 DEF Commands, Ids
<1>3. eng' \in EngineStates
  <2>1. NoSuccessor(eng) \in EngineStates
    BY IdFacts DEF EngineTypeOK, EngineStates, NoSuccessor
  <2>2. Silenced(NoSuccessor(eng)) \in EngineStates
    BY <2>1, EmptySeq DEF Silenced, EngineStates
  <2>3. CASE UNCHANGED eng
    BY <2>3 DEF EngineTypeOK
  <2>4. CASE ~UNCHANGED eng
    <3> DEFINE quiet == Silenced(NoSuccessor(eng))
    <3>1. PICK p \in Phases :
            eng' = [quiet EXCEPT !.media = Head(cmds).track, !.loaded = TRUE, !.pos = p,
                      !.dur = IF Head(cmds).op = "PlayStreaming" THEN Head(cmds).track ELSE @]
      BY <2>4 DEF StartPlay
    <3>2. quiet \in EngineStates
      BY <2>2
    <3> QED
      BY <1>2, <3>1, <3>2, IdFacts DEF EngineStates
  <2> QED
    BY <2>3, <2>4
<1>4. busy' \in [op : Plays, track : Tracks, fresh : BOOLEAN] \cup {NoPlay}
  BY <1>2 DEF StartPlay, EngineTypeOK
<1> QED
  BY <1>1, <1>3, <1>4 DEF StartPlay, EngineTypeOK

LEMMA InstallType == EngineTypeOK /\ (Install \/ Abandon \/ BufferFails) => EngineTypeOK'
<1> SUFFICES ASSUME EngineTypeOK, Install \/ Abandon \/ BufferFails PROVE EngineTypeOK'
  OBVIOUS
<1>1. CASE Install
  <2>1. busy \in [op : Plays, track : Tracks, fresh : BOOLEAN]
    BY <1>1 DEF Install, EngineTypeOK, NoPlay, Command
  <2>2. <<busy.track>> \in Seq(Tracks)
    BY <2>1
  <2>3. eng' \in EngineStates
    BY <1>1, <2>1, <2>2, PhaseFacts, IdFacts DEF Install, EngineTypeOK, EngineStates
  <2> QED
    BY <1>1, <2>3 DEF Install, EngineTypeOK
<1>2. CASE Abandon
  BY <1>2 DEF Abandon, EngineTypeOK
<1>3. CASE BufferFails
  BY <1>3 DEF BufferFails, EngineTypeOK, EngineStates, Ids
<1> QED
  BY <1>1, <1>2, <1>3

LEMMA OrderedType ==
  EngineTypeOK /\ (PauseEngine \/ ResumeEngine \/ StopEngine \/ AppendNext) => EngineTypeOK'
<1> SUFFICES ASSUME EngineTypeOK, PauseEngine \/ ResumeEngine \/ StopEngine \/ AppendNext
             PROVE  EngineTypeOK'
  OBVIOUS
<1>1. CASE PauseEngine
  <2>1. cmds' \in Seq(Commands)
    BY <1>1, TakenType DEF PauseEngine
  <2>2. eng' \in EngineStates
    BY <1>1, EmptySeq, IdFacts DEF PauseEngine, EngineTypeOK, EngineStates, Silenced, NoSuccessor
  <2> QED
    BY <1>1, <2>1, <2>2 DEF PauseEngine, EngineTypeOK
<1>2. CASE ResumeEngine
  <2>1. cmds' \in Seq(Commands)
    BY <1>2, TakenType DEF ResumeEngine
  <2>2. eng.media # 0 => <<eng.media>> \in Seq(Tracks)
    BY DEF EngineTypeOK, EngineStates, Ids
  <2>3. eng' \in EngineStates
    BY <1>2, <2>2 DEF ResumeEngine, EngineTypeOK, EngineStates
  <2> QED
    BY <1>2, <2>1, <2>3 DEF ResumeEngine, EngineTypeOK
<1>3. CASE StopEngine
  <2>1. cmds' \in Seq(Commands)
    BY <1>3, TakenType DEF StopEngine
  <2>2. eng' \in EngineStates
    BY <1>3, EmptySeq, PhaseFacts, IdFacts DEF StopEngine, EngineTypeOK, EngineStates, Silenced,
       NoSuccessor
  <2> QED
    BY <1>3, <2>1, <2>2 DEF StopEngine, EngineTypeOK
<1>4. CASE AppendNext
  <2>1. Head(cmds) \in Commands /\ cmds' \in Seq(Commands) /\ Head(cmds).op = "PlayNext"
    BY <1>4, TakenType DEF AppendNext
  <2>2. Head(cmds).track \in Tracks
    BY <2>1 DEF Commands, Ids
  <2>3. eng.src \in Seq(Tracks)
    BY DEF EngineTypeOK, EngineStates
  <2>4. Append(eng.src, Head(cmds).track) \in Seq(Tracks)
    BY <2>2, <2>3, AppendProperties
  <2>5. eng' \in EngineStates
    <3>1. CASE eng' = [eng EXCEPT !.ready = FALSE]
      BY <3>1 DEF EngineTypeOK, EngineStates
    <3>2. CASE eng' = [eng EXCEPT !.src = Append(@, Head(cmds).track), !.next = Head(cmds).track,
                                  !.ready = FALSE, !.playing = @ \/ eng.src = <<>>]
      BY <3>2, <2>2, <2>4, IdFacts DEF EngineTypeOK, EngineStates
    <3> QED
      BY <1>4, <3>1, <3>2 DEF AppendNext
  <2> QED
    BY <1>4, <2>1, <2>5 DEF AppendNext, EngineTypeOK
<1> QED
  BY <1>1, <1>2, <1>3, <1>4

LEMMA CheckType ==
  EngineTypeOK /\ (Transition \/ AskForNext \/ RunsEmpty \/ RecordEmpty \/ Elapse)
    => EngineTypeOK'
<1> SUFFICES ASSUME EngineTypeOK,
                    Transition \/ AskForNext \/ RunsEmpty \/ RecordEmpty \/ Elapse
             PROVE  EngineTypeOK'
  OBVIOUS
<1> USE PhaseFacts, IdFacts DEF EngineTypeOK, EngineStates
<1>1. CASE Transition
  BY <1>1 DEF Transition, NoSuccessor, NoFeed
<1>2. CASE AskForNext
  BY <1>2 DEF AskForNext
<1>3. CASE RunsEmpty
  BY <1>3 DEF RunsEmpty, NoSuccessor
<1>4. CASE RecordEmpty
  BY <1>4 DEF RecordEmpty
<1>5. CASE Elapse
  BY <1>5 DEF Elapse
<1> QED
  BY <1>1, <1>2, <1>3, <1>4, <1>5

LEMMA SourceType == EngineTypeOK /\ (SourceEnds \/ FeederDone \/ FeederFails) => EngineTypeOK'
<1> SUFFICES ASSUME EngineTypeOK, SourceEnds \/ FeederDone \/ FeederFails PROVE EngineTypeOK'
  OBVIOUS
<1>1. CASE SourceEnds
  <2>1. eng.src \in Seq(Tracks) /\ eng.src # <<>>
    BY <1>1 DEF SourceEnds, EngineTypeOK, EngineStates
  <2>2. Tail(eng.src) \in Seq(Tracks)
    BY <2>1, HeadTailProperties
  <2>3. eng' \in EngineStates
    BY <1>1, <2>2 DEF SourceEnds, EngineTypeOK, EngineStates
  <2> QED
    BY <1>1, <2>3 DEF SourceEnds, EngineTypeOK
<1>2. CASE FeederDone
  BY <1>2 DEF FeederDone, EngineTypeOK, NoFeed, Ids
<1>3. CASE FeederFails
  BY <1>3 DEF FeederFails, EngineTypeOK, EngineStates, Ids
<1> QED
  BY <1>1, <1>2, <1>3

LEMMA StopType == EngineTypeOK /\ Stop => EngineTypeOK'
<1> SUFFICES ASSUME EngineTypeOK, Stop PROVE EngineTypeOK'
  OBVIOUS
<1>1. Append(Stale(cmds), Command("Stop", 0, TRUE)) \in Seq(Commands)
  BY SentType, CommandTypes
<1> QED
  BY <1>1, SupersededType, StaleTypes DEF Stop, EngineTypeOK

LEMMA TransportType ==
  ASSUME EngineTypeOK, NEW op \in {"Pause", "Resume"}, Transport(op),
         UNCHANGED <<eng, busy, feed, loads, fetches>>
  PROVE  EngineTypeOK'
<1>1. Append(cmds, Command(op, 0, TRUE)) \in Seq(Commands)
  BY SentType, CommandTypes
<1> QED
  BY <1>1 DEF Transport, EngineTypeOK

LEMMA LoadType ==
  ASSUME EngineTypeOK, NEW c \in Callers, Loading(c) \/ FailLoad(c)
  PROVE  EngineTypeOK'
<1> DEFINE L == [Callers -> LoadStates]
<1>1. NoLoad \in LoadStates /\ loads \in L
  BY IdFacts DEF NoLoad, LoadStates, EngineTypeOK
<1>2. CASE BeginLoad(c)
  <2>1. StaleLoads \in L /\ StaleLoads[c] = [loads[c] EXCEPT !.fresh = FALSE]
    BY <1>1, StaleTypes DEF StaleLoads
  <2>2. [loads[c] EXCEPT !.stage = "begun", !.fresh = TRUE] \in LoadStates
    BY <1>1, <1>2 DEF BeginLoad, LoadStates
  <2>3. loads' = [StaleLoads EXCEPT ![c] = [loads[c] EXCEPT !.stage = "begun", !.fresh = TRUE]]
    BY <1>1, <1>2, <2>1 DEF BeginLoad, LoadStates
  <2>4. loads' \in L
    BY <2>1, <2>2, <2>3
  <2> QED
    BY <1>2, <2>4, SupersededType, StaleTypes DEF BeginLoad, EngineTypeOK
<1>3. CASE FinishLoad(c)
  <2>1. loads[c].track \in Tracks
    BY <1>1, <1>3 DEF FinishLoad, LoadStates, Ids
  <2>2. loads' \in L
    BY <1>1, <1>3 DEF FinishLoad
  <2>3. \A op \in Plays : Append(cmds, Command(op, loads[c].track, TRUE)) \in Seq(Commands)
    BY <2>1, SentType, CommandTypes
  <2>4. cmds' \in Seq(Commands)
    BY <1>3, <2>3 DEF FinishLoad, Plays
  <2>5. feed' \in [track : Ids, state : {"none", "open", "dead"}]
    <3>1. CASE UNCHANGED feed
      BY <3>1 DEF EngineTypeOK
    <3>2. CASE feed' = [track |-> loads[c].track, state |-> "open"]
      BY <3>2, <2>1, IdFacts
    <3> QED
      BY <1>3, <3>1, <3>2 DEF FinishLoad
  <2> QED
    BY <1>3, <2>2, <2>4, <2>5 DEF FinishLoad, EngineTypeOK
<1>4. CASE DropLoad(c) \/ FailLoad(c)
  BY <1>1, <1>4 DEF DropLoad, FailLoad, EngineTypeOK
<1> QED
  BY <1>2, <1>3, <1>4 DEF Loading

LEMMA FetchType == ASSUME EngineTypeOK, NEW f \in fetches, FetchSteps(f) PROVE EngineTypeOK'
<1> DEFINE F == [track : Tracks, state : {"spawned", "running", "overtaken"}]
<1>1. f \in F /\ fetches \subseteq F
  BY DEF EngineTypeOK
<1>2. Append(cmds, Command("PlayNext", f.track, TRUE)) \in Seq(Commands)
  BY <1>1, SentType, CommandTypes
<1>3. [f EXCEPT !.state = "running"] \in F
  BY <1>1
<1>4. fetches' \subseteq F
  BY <1>1, <1>3 DEF FetchSteps, FetchCached, FetchStarts, FetchSends, FetchFails
<1>5. cmds' \in Seq(Commands)
  BY <1>2 DEF FetchSteps, FetchCached, FetchStarts, FetchSends, FetchFails, EngineTypeOK
<1> QED
  BY <1>4, <1>5 DEF FetchSteps, FetchCached, FetchStarts, FetchSends, FetchFails, EngineTypeOK

LEMMA EngineStepType == ASSUME EngineTypeOK, EngineSteps PROVE EngineTypeOK'
<1>1. CASE ThreadSteps
  BY <1>1, StartPlayType, InstallType, OrderedType, CheckType DEF ThreadSteps
<1>2. CASE FeederDone \/ SourceEnds
  BY <1>2, SourceType
<1>3. CASE \E c \in Callers : Loading(c)
  BY <1>3, LoadType
<1>4. CASE \E f \in fetches : FetchSteps(f)
  BY <1>4, FetchType
<1> QED
  BY <1>1, <1>2, <1>3, <1>4 DEF EngineSteps

LEMMA FaultType == ASSUME EngineTypeOK, Faults PROVE EngineTypeOK'
  BY LoadType, SourceType, InstallType DEF Faults

------------------------------------------------------------------------------
(* The driver's types *)

DriverStates ==
    [pc : {"idle", "reading", "halt", "finish", "advance", "waiting"},
     ev : Events, last : Events, asked : Ids, cur : Ids]

QueueStates == [cur : Ids, stop : Ids, repeat : Repeats]

\* All of the type invariant but the history, which every step writes last.
StateOK ==
    /\ EngineTypeOK /\ queue \in QueueStates /\ drv \in DriverStates /\ ticked \in BOOLEAN
    /\ asks \in Nat /\ faults \in Nat /\ asks + faults <= MaxEvents

LEMMA SampleType == EngineTypeOK => Sample \in Events
  BY DEF EngineTypeOK, EngineStates, Sample, Events, Buffering

LEMMA NoEventType == NoEvent \in Events
  BY PhaseFacts, IdFacts DEF NoEvent, Events

LEMMA NextRowType == \A row \in Ids : NextRow(row) \in Ids
  BY RowsAreNumbers, IdFacts DEF NextRow, Following

LEMMA PlanType == StateOK /\ Plan => StateOK'
<1> SUFFICES ASSUME StateOK, Plan PROVE StateOK'
  OBVIOUS
<1> USE DEF StateOK, QueueStates
<1>1. drv \in DriverStates /\ drv.ev \in Events /\ drv.last \in Events /\ queue.cur \in Ids
  BY DEF DriverStates
<1>2. PICK near \in NearEnd(drv.ev, drv.last) :
        LET ev == drv.ev
            last == drv.last
            sync == SyncTo(ev, last)
            ended == sync = 0 /\ Ended(ev, last, near)
            arm == IF sync = 0 THEN Arms(ev) ELSE 0
        IN  /\ drv' = [pc |-> IF ended THEN EndPlan ELSE "idle", ev |-> NoEvent,
                       last |-> IF sync # 0 THEN ev ELSE Carried(ev, last, ended),
                       asked |-> IF sync # 0 \/ ended THEN 0
                                 ELSE IF arm # 0 THEN ev.track ELSE drv.asked,
                       cur |-> IF ended THEN queue.cur ELSE 0]
            /\ fetches' = (IF sync = 0 /\ ~ended THEN fetches ELSE {})
                          \cup {[track |-> t, state |-> "spawned"] : t \in {arm} \ {0}}
            /\ queue' = [queue EXCEPT !.cur = IF sync = 0 THEN @ ELSE Synced(sync)]
            /\ ticked' = (ticked \/ ~ended)
  BY DEF Plan
<1> DEFINE sync == SyncTo(drv.ev, drv.last)
           ended == sync = 0 /\ Ended(drv.ev, drv.last, near)
           arm == IF sync = 0 THEN Arms(drv.ev) ELSE 0
<1>3. sync \in Ids
  BY <1>1, IdFacts DEF SyncTo, Events
<1>4. arm \in Ids /\ (arm # 0 => arm \in Tracks)
  BY <1>1, IdFacts, DriverAssumption DEF Arms
<1>5. Synced(sync) \in Ids
  BY <1>1, <1>3 DEF Synced
<1>6. Carried(drv.ev, drv.last, ended) \in Events
  BY <1>1, NoEventType DEF Carried, Events
<1>7. EndPlan \in {"halt", "finish", "advance"}
  BY DEF EndPlan
<1>8. drv' \in DriverStates
  BY <1>1, <1>2, <1>3, <1>6, <1>7, IdFacts, NoEventType DEF DriverStates, Events
<1>9. fetches' \subseteq [track : Tracks, state : {"spawned", "running", "overtaken"}]
  BY <1>2, <1>4 DEF EngineTypeOK
<1>10. queue' \in [cur : Ids, stop : Ids, repeat : Repeats]
  BY <1>2, <1>5
<1>11. ticked' \in BOOLEAN
  BY <1>2
<1>12. eng' \in EngineStates
  BY IdFacts DEF Plan, EngineTypeOK, EngineStates
<1>13. UNCHANGED <<cmds, busy, intent, feed, loads, asks, faults>>
  BY DEF Plan, Others
<1>14. EngineTypeOK'
  BY <1>9, <1>12, <1>13 DEF EngineTypeOK
<1> QED
  BY <1>8, <1>9, <1>10, <1>11, <1>13, <1>14 DEF DriverStates

LEMMA TickType ==
  StateOK /\ (ReadTransport \/ Halt \/ Finish \/ Advance \/ EndTick) => StateOK'
<1> SUFFICES ASSUME StateOK, ReadTransport \/ Halt \/ Finish \/ Advance \/ EndTick PROVE StateOK'
  OBVIOUS
<1> USE DEF StateOK
<1>1. CASE ReadTransport
  <2>1. EngineTypeOK'
    BY <1>1 DEF ReadTransport, EngineTypeOK, engineVars
  <2>2. drv' \in DriverStates
    BY <1>1, SampleType DEF ReadTransport, DriverStates
  <2> QED
    BY <1>1, <2>1, <2>2 DEF ReadTransport, Others
<1>2. CASE Halt
  <2>1. EngineTypeOK'
    <3>1. CASE Transport("Pause")
      BY <1>2, <3>1, TransportType DEF Halt
    <3>2. CASE UNCHANGED <<cmds, intent>>
      BY <1>2, <3>2 DEF Halt, EngineTypeOK
    <3> QED
      BY <1>2, <3>1, <3>2 DEF Halt
  <2>2. drv' \in DriverStates
    BY <1>2, IdFacts DEF Halt, DriverStates
  <2>3. queue' \in QueueStates
    BY <1>2, IdFacts DEF Halt, MarkAfter, QueueStates
  <2> QED
    BY <1>2, <2>1, <2>2, <2>3 DEF Halt, Others
<1>3. CASE Finish
  <2>1. drv' \in DriverStates
    BY <1>3, IdFacts DEF Finish, DriverStates
  <2> QED
    BY <1>3, <2>1, StopType DEF Finish, Others
<1>4. CASE Advance
  <2>1. [NoLoad EXCEPT !.stage = "walking"] \in LoadStates
    BY IdFacts DEF NoLoad, LoadStates
  <2>2. EngineTypeOK'
    BY <1>4, <2>1 DEF Advance, EngineTypeOK
  <2>3. drv' \in DriverStates
    BY <1>4 DEF Advance, DriverStates
  <2> QED
    BY <1>4, <2>2, <2>3 DEF Advance, Others
<1>5. CASE EndTick
  <2>1. EngineTypeOK'
    BY <1>5 DEF EndTick, EngineTypeOK, engineVars
  <2>2. drv' \in DriverStates
    BY <1>5, IdFacts DEF EndTick, DriverStates
  <2> QED
    BY <1>5, <2>1, <2>2 DEF EndTick, Others
<1> QED
  BY <1>1, <1>2, <1>3, <1>4, <1>5

LEMMA WalkType == ASSUME StateOK, NEW c \in Callers, Walk(c) PROVE StateOK'
<1> USE DEF StateOK
<1> DEFINE t == NextRow(queue.cur)
           L == [Callers -> LoadStates]
<1>1. t \in Ids /\ (t # 0 => t \in Tracks) /\ queue' = [queue EXCEPT !.cur = t]
  BY NextRowType DEF Walk, QueueStates, Ids
<1>2. queue' \in QueueStates
  BY <1>1 DEF QueueStates
<1>3. loads \in L /\ loads[c] \in LoadStates /\ NoLoad \in LoadStates
  BY IdFacts DEF EngineTypeOK, NoLoad, LoadStates
<1>4. drv' \in DriverStates
  BY DEF Walk, NothingFound, DriverStates
<1>5. EngineTypeOK'
  <2>1. CASE loads' = [loads EXCEPT ![c] = NoLoad]
             /\ UNCHANGED <<eng, cmds, busy, intent, feed, fetches>>
    BY <1>3, <2>1 DEF EngineTypeOK
  <2>2. CASE t # 0 /\ loads' = [loads EXCEPT ![c] = [NoLoad EXCEPT !.stage = "asked", !.track = t]]
             /\ UNCHANGED <<eng, cmds, busy, intent, feed, fetches>>
    <3>1. [NoLoad EXCEPT !.stage = "asked", !.track = t] \in LoadStates
      BY <1>1, <2>2, RowsAreNumbers DEF NoLoad, LoadStates
    <3> QED
      BY <1>3, <2>2, <3>1 DEF EngineTypeOK
  <2>3. CASE loads' = [loads EXCEPT ![c].skips = loads[c].skips + 1]
             /\ UNCHANGED <<eng, cmds, busy, intent, feed, fetches>>
    <3>1. [loads[c] EXCEPT !.skips = loads[c].skips + 1] \in LoadStates
      BY <1>3 DEF LoadStates
    <3>2. loads' = [loads EXCEPT ![c] = [loads[c] EXCEPT !.skips = loads[c].skips + 1]]
      BY <1>3, <2>3
    <3> QED
      BY <1>3, <2>3, <3>1, <3>2 DEF EngineTypeOK
  <2>4. CASE Superseded /\ loads' = [StaleLoads EXCEPT ![c] = NoLoad]
             /\ cmds' = Append(Stale(cmds), Command("Stop", 0, TRUE))
    <3>1. loads' \in L
      BY <1>3, <2>4, StaleTypes
    <3>2. cmds' \in Seq(Commands)
      BY <2>4, SentType, CommandTypes
    <3> QED
      BY <2>4, <3>1, <3>2, SupersededType DEF EngineTypeOK
  <2> QED
    BY <2>1, <2>2, <2>3, <2>4 DEF Walk
<1> QED
  BY <1>2, <1>4, <1>5 DEF Walk, Others

LEMMA RouteType ==
  ASSUME StateOK, Stays \/ Moves
  PROVE  StateOK'
<1> USE DEF StateOK
<1>1. asks' \in Nat /\ faults' = faults /\ asks' + faults' <= MaxEvents
  <2>1. Asks /\ UNCHANGED faults
    BY DEF Stays, Moves, PauseRoute, MarkRoute, NextRoute, ColdStart, ResumeRoute, StopRoute,
       StartRoute
  <2>2. asks + faults < MaxEvents /\ asks' = asks + 1 /\ MaxEvents \in Nat
    BY <2>1, DriverAssumption DEF Asks
  <2> QED
    BY <2>1, <2>2
<1>2. UNCHANGED <<drv, ticked>>
  BY DEF Stays, Moves, PauseRoute, MarkRoute, NextRoute, ColdStart, ResumeRoute, StopRoute,
     StartRoute
<1>3. loads \in [Callers -> LoadStates] /\ [NoLoad EXCEPT !.stage = "walking"] \in LoadStates
  BY IdFacts DEF EngineTypeOK, NoLoad, LoadStates
<1>4. \A t \in Tracks : [NoLoad EXCEPT !.stage = "asked", !.track = t] \in LoadStates
  BY RowsAreNumbers, IdFacts DEF NoLoad, LoadStates
<1>5. CASE PauseRoute \/ ResumeRoute
  <2>1. EngineTypeOK'
    BY <1>5, TransportType DEF PauseRoute, ResumeRoute
  <2> QED
    BY <1>1, <1>2, <1>5, <2>1 DEF PauseRoute, ResumeRoute
<1>6. CASE NextRoute
  <2>1. EngineTypeOK'
    BY <1>3, <1>6 DEF NextRoute, EngineTypeOK
  <2> QED
    BY <1>1, <1>2, <1>6, <2>1 DEF NextRoute
<1>7. ASSUME NEW t \in Starts, StartRoute(t) PROVE StateOK'
  <2>1. t \in Tracks
    BY DriverAssumption
  <2>2. EngineTypeOK'
    BY <1>3, <1>4, <1>7, <2>1 DEF StartRoute, EngineTypeOK
  <2>3. queue' \in QueueStates
    BY <1>7, <2>1, IdFacts DEF StartRoute, QueueStates
  <2> QED
    BY <1>1, <1>2, <2>2, <2>3
<1>8. CASE ColdStart
  <2>1. queue.cur \in Tracks
    BY <1>8 DEF ColdStart, QueueStates, Ids
  <2>2. EngineTypeOK'
    BY <1>3, <1>4, <1>8, <2>1 DEF ColdStart, EngineTypeOK
  <2> QED
    BY <1>1, <1>2, <1>8, <2>2 DEF ColdStart
<1>9. CASE StopRoute
  BY <1>1, <1>2, <1>9, StopType DEF StopRoute
<1>10. ASSUME NEW t \in Playable, MarkRoute(t) PROVE StateOK'
  <2>1. t \in Tracks
    BY DriverAssumption
  <2>2. queue' \in QueueStates
    BY <1>10, <2>1, IdFacts DEF MarkRoute, QueueStates
  <2>3. EngineTypeOK'
    BY <1>10 DEF MarkRoute, EngineTypeOK, engineVars
  <2> QED
    BY <1>1, <1>2, <2>2, <2>3
<1> QED
  BY <1>5, <1>6, <1>7, <1>8, <1>9, <1>10 DEF Stays, Moves

LEMMA StepType == ASSUME StateOK, Steps \/ Moves PROVE StateOK'
<1> USE DEF StateOK
<1>1. CASE DriverSteps
  BY <1>1, PlanType, TickType DEF DriverSteps
<1>2. CASE EngineSteps
  BY <1>2, EngineStepType DEF EngineSteps, Mine, Others
<1>3. CASE Stays \/ Moves
  BY <1>3, RouteType
<1>4. CASE Faults
  <2>1. asks' = asks /\ faults' \in Nat /\ asks' + faults' <= MaxEvents
    BY <1>4, DriverAssumption DEF Faults, Fails
  <2> QED
    BY <1>4, <2>1, FaultType DEF Faults, Mine
<1>5. CASE TimePasses
  BY <1>5, CheckType DEF TimePasses, Others
<1>6. CASE \E c \in Callers : Walk(c)
  BY <1>6, WalkType
<1> QED
  BY <1>1, <1>2, <1>3, <1>4, <1>5, <1>6 DEF Steps

\* The history is written from what the step leaves.
LEMMA PastType ==
  ASSUME TypeOK, StateOK', NEW moves \in 0..2, Remembers(moves)
  PROVE  past' \in [at : Ids, moves : 0..2, hush : BOOLEAN, held : Ids]
<1> DEFINE at == IF Begins THEN Head(eng'.src) ELSE past.at
           held == IF Marked THEN queue.cur ELSE IF asks' # asks THEN 0 ELSE past.held
<1>1. at \in Ids
  <2>1. eng'.src \in Seq(Tracks)
    BY DEF StateOK, EngineTypeOK, EngineStates
  <2>2. Begins => Head(eng'.src) \in Tracks
    BY <2>1, HeadTailProperties DEF Begins
  <2> QED
    BY <2>2, IdFacts DEF TypeOK
<1>2. held \in Ids
  BY IdFacts DEF TypeOK
<1>3. (past.hush \/ LostDownload \/ LatePause \/ AsksAtEnd) \in BOOLEAN
  BY DEF TypeOK
<1>4. past' = [at |-> at, moves |-> moves, held |-> held,
               hush |-> past.hush \/ LostDownload \/ LatePause \/ AsksAtEnd]
  BY DEF Remembers
<1> QED
  BY <1>1, <1>2, <1>3, <1>4

LEMMA MovesType == \A n \in 0..2 : Min({n + 1, 2}) \in 0..2
<1>1. ASSUME NEW n \in 0..2 PROVE Min({n + 1, 2}) \in 0..2
  <2>1. \E x \in {n + 1, 2} : \A y \in {n + 1, 2} : x <= y
    <3>1. n + 1 <= 2 \/ 2 <= n + 1
      BY <1>1
    <3> QED
      BY <3>1, <1>1
  <2>2. Min({n + 1, 2}) \in {n + 1, 2} /\ Min({n + 1, 2}) <= 2
    BY <2>1 DEF Min
  <2> QED
    BY <1>1, <2>2
<1> QED
  BY <1>1

\* Whatever the thread, the loads, the loop and the routes do in any order, every
\* part of the player, the queue and the driver keeps its type, and no more is
\* done than the events allow (player/mod.rs, playback_driver.rs, daemon api).
THEOREM TypeCorrect == Spec => []TypeOK
<1>1. Init => TypeOK
  <2> SUFFICES ASSUME Init PROVE TypeOK
    OBVIOUS
  <2>1. eng \in EngineStates
    BY IdFacts, PhaseFacts, EmptySeq DEF Init, EngineInit, EngineStates
  <2>2. NoLoad \in LoadStates
    BY IdFacts DEF NoLoad, LoadStates
  <2>3. EngineTypeOK
    BY <2>1, <2>2, EmptySeq, IdFacts DEF Init, EngineInit, EngineTypeOK, NoFeed
  <2>4. drv \in DriverStates
    BY NoEventType, IdFacts DEF Init, DriverStates
  <2>5. past \in [at : Ids, moves : 0..2, hush : BOOLEAN, held : Ids]
    BY IdFacts DEF Init
  <2> QED
    BY <2>3, <2>4, <2>5, IdFacts, DriverAssumption DEF Init, TypeOK, DriverStates
<1>2. TypeOK /\ [Next]_vars => TypeOK'
  <2> SUFFICES ASSUME TypeOK, [Next]_vars PROVE TypeOK'
    OBVIOUS
  <2>1. CASE Next
    <3>1. StateOK
      BY DEF TypeOK, StateOK, DriverStates, QueueStates
    <3>2. StateOK'
      BY <2>1, <3>1, StepType DEF Next
    <3>3. past.moves \in 0..2
      BY DEF TypeOK
    <3>4. \E moves \in 0..2 : Remembers(moves)
      BY <2>1, <3>3, MovesType DEF Next
    <3>5. past' \in [at : Ids, moves : 0..2, hush : BOOLEAN, held : Ids]
      BY <3>2, <3>4, PastType
    <3> QED
      BY <3>2, <3>5 DEF TypeOK, StateOK, DriverStates, QueueStates
  <2>2. CASE UNCHANGED vars
    BY <2>2 DEF vars, engineVars, TypeOK, EngineTypeOK
  <2> QED
    BY <2>1, <2>2
<1> QED
  BY <1>1, <1>2, PTL DEF Spec

------------------------------------------------------------------------------
(* A marked row *)

\* The row h alone is there, it is marked, and nothing is on its way to the thread.
Alone(h) ==
    /\ queue.cur = h /\ eng.track = h /\ eng.next = 0 /\ ToSet(eng.src) \subseteq {h}
    /\ cmds = <<>> /\ busy = NoPlay /\ fetches = {} /\ \A c \in Callers : loads[c] = NoLoad
    /\ drv.pc \in {"idle", "reading", "halt"}
    /\ drv.pc = "reading" => drv.ev.track = h
    /\ drv.pc # "halt" => drv.last.track = h
    /\ drv.pc = "halt" => drv.cur = h

\* Inductive: from the moment a row was marked in time until its mark is used up.
MarkedAlone == past.held # 0 /\ queue.stop = past.held => Alone(past.held)

\* What nobody asked for never sets a mark.
LEMMA MarksAreAsked ==
  ASSUME TypeOK, Steps, asks' = asks
  PROVE  queue'.stop \in {queue.stop, 0}
<1> USE DEF TypeOK
<1>1. CASE DriverSteps
  BY <1>1 DEF DriverSteps, ReadTransport, Plan, Halt, Finish, Advance, EndTick, MarkAfter
<1>2. CASE EngineSteps \/ Faults \/ TimePasses
  BY <1>2 DEF EngineSteps, Faults, TimePasses, Mine
<1>3. CASE Stays
  BY <1>3 DEF Stays, PauseRoute, MarkRoute, Asks
<1>4. CASE \E c \in Callers : Walk(c)
  BY <1>4 DEF Walk
<1> QED
  BY <1>1, <1>2, <1>3, <1>4 DEF Steps

\* A source that ends leaves no other row behind.
LEMMA TailIsThere == \A s \in Seq(Tracks) : s # <<>> => ToSet(Tail(s)) \subseteq ToSet(s)
<1> SUFFICES ASSUME NEW s \in Seq(Tracks), s # <<>>, NEW t \in ToSet(Tail(s)) PROVE t \in ToSet(s)
  OBVIOUS
<1>1. Tail(s) \in Seq(Tracks) /\ Len(Tail(s)) = Len(s) - 1
      /\ \A i \in 1..Len(Tail(s)) : Tail(s)[i] = s[i + 1]
  BY HeadTailProperties
<1>2. PICK i \in DOMAIN Tail(s) : t = Tail(s)[i]
  BY DEF ToSet
<1>3. i \in 1..Len(Tail(s)) /\ Len(s) \in Nat
  BY <1>1, <1>2
<1>4. i + 1 \in DOMAIN s /\ t = s[i + 1]
  BY <1>1, <1>2, <1>3
<1> QED
  BY <1>4 DEF ToSet

\* The loop neither takes the row for another one nor asks for its successor, and
\* an end of it halts.
LEMMA AloneTick ==
  ASSUME TypeOK, NEW h \in Tracks, h # 0, queue.stop = h, Alone(h), DriverSteps, queue'.stop = h
  PROVE  Alone(h)'
<1> USE DEF TypeOK
<1>1. CASE ReadTransport
  BY <1>1 DEF ReadTransport, Alone, engineVars, Sample
<1>2. CASE Plan
  <2>1. drv.pc = "reading" /\ drv.ev.track = h /\ drv.last.track = h /\ queue.cur = h
    BY <1>2 DEF Plan, Alone
  <2>2. SyncTo(drv.ev, drv.last) = 0 /\ Arms(drv.ev) = 0
    BY <2>1 DEF SyncTo, Seamless, MissedEdge, Arms
  <2>3. EndPlan = "halt"
    BY <2>1 DEF EndPlan
  <2>4. \A ended \in BOOLEAN : ~ended => Carried(drv.ev, drv.last, ended).track = h
    BY <2>1 DEF Carried
  <2>5. PICK ended \in BOOLEAN :
          /\ drv'.pc = IF ended THEN EndPlan ELSE "idle"
          /\ drv'.last = Carried(drv.ev, drv.last, ended)
          /\ drv'.cur = IF ended THEN queue.cur ELSE 0
    <3>1. \A near \in NearEnd(drv.ev, drv.last) : Ended(drv.ev, drv.last, near) \in BOOLEAN
      BY DEF Ended, SourceFailed, EngineEmpty, Stopped
    <3> QED
      BY <1>2, <2>2, <3>1 DEF Plan
  <2>6. fetches' \subseteq fetches /\ queue' = queue
    BY <1>2, <2>2 DEF Plan
  <2>7. UNCHANGED <<cmds, busy, loads>> /\ eng'.track = eng.track /\ eng'.next = eng.next
        /\ eng'.src = eng.src
    BY <1>2 DEF Plan, EngineTypeOK, EngineStates
  <2> QED
    BY <2>1, <2>3, <2>4, <2>5, <2>6, <2>7 DEF Alone
<1>3. CASE Halt
  BY <1>3 DEF Halt, Alone, MarkAfter
<1>4. CASE Finish \/ Advance \/ EndTick
  BY <1>4 DEF Finish, Advance, EndTick, Alone
<1> QED
  BY <1>1, <1>2, <1>3, <1>4 DEF DriverSteps

\* The thread has the row to play to its end, and nothing else to do.
LEMMA AloneEngine ==
  ASSUME TypeOK, NEW h \in Tracks, Alone(h), EngineSteps \/ Faults \/ TimePasses
  PROVE  Alone(h)'
<1> USE DEF TypeOK, Alone
<1>1. cmds = <<>> /\ ~busy.fresh /\ busy = NoPlay /\ eng.next = 0 /\ fetches = {}
      /\ \A c \in Callers : loads[c].stage = "none"
  BY DEF NoPlay, Command, NoLoad
<1>2. UNCHANGED <<queue, drv>>
  BY DEF EngineSteps, Faults, TimePasses, Mine
<1>3. CASE EngineSteps
  <2>1. CASE ThreadSteps
    <3>1. AskForNext \/ RunsEmpty \/ RecordEmpty
      BY <1>1, <2>1 DEF ThreadSteps, StartPlay, Install, Abandon, PauseEngine, ResumeEngine,
         StopEngine, AppendNext, Takes, Transition, HandsOff
    <3>2. eng'.track = eng.track /\ eng'.next = eng.next /\ eng'.src = eng.src
      <4>1. CASE AskForNext \/ RecordEmpty
        BY <4>1 DEF AskForNext, RecordEmpty, EngineTypeOK, EngineStates
      <4>2. CASE RunsEmpty
        BY <1>1, <4>2 DEF RunsEmpty, NoSuccessor, EngineTypeOK, EngineStates
      <4> QED
        BY <3>1, <4>1, <4>2
    <3>3. UNCHANGED <<cmds, busy, loads, fetches>>
      BY <3>1 DEF AskForNext, RunsEmpty, RecordEmpty
    <3> QED
      BY <1>2, <3>2, <3>3
  <2>2. CASE FeederDone
    BY <1>2, <2>2 DEF FeederDone
  <2>3. CASE SourceEnds
    <3>1. eng.src \in Seq(Tracks) /\ eng.src # <<>>
      BY <2>3 DEF SourceEnds, EngineTypeOK, EngineStates
    <3>2. ToSet(Tail(eng.src)) \subseteq {h}
      BY <3>1, TailIsThere
    <3>3. eng'.track = eng.track /\ eng'.next = eng.next /\ eng'.src = Tail(eng.src)
      BY <2>3 DEF SourceEnds, EngineTypeOK, EngineStates
    <3>4. UNCHANGED <<cmds, busy, loads, fetches>>
      BY <2>3 DEF SourceEnds
    <3> QED
      BY <1>2, <3>2, <3>3, <3>4
  <2>4. ~(\E c \in Callers : Loading(c)) /\ ~(\E f \in fetches : FetchSteps(f))
    BY <1>1 DEF Loading, BeginLoad, FinishLoad, DropLoad
  <2> QED
    BY <1>3, <2>1, <2>2, <2>3, <2>4 DEF EngineSteps
<1>4. CASE Faults
  <2>1. FeederFails
    BY <1>1, <1>4 DEF Faults, FailLoad, BufferFails
  <2>2. eng'.track = eng.track /\ eng'.next = eng.next /\ eng'.src = eng.src
    BY <2>1 DEF FeederFails, EngineTypeOK, EngineStates
  <2> QED
    BY <1>2, <2>1, <2>2 DEF FeederFails
<1>5. CASE TimePasses
  <2>1. eng'.track = eng.track /\ eng'.next = eng.next /\ eng'.src = eng.src
    BY <1>5 DEF TimePasses, Elapse, EngineTypeOK, EngineStates
  <2> QED
    BY <1>2, <1>5, <2>1 DEF TimePasses, Elapse
<1> QED
  BY <1>3, <1>4, <1>5

LEMMA MarkedAloneStep == TypeOK /\ MarkedAlone /\ Next => MarkedAlone'
<1> SUFFICES ASSUME TypeOK, MarkedAlone, Next, NEW h, h = past'.held, h # 0, queue'.stop = h
             PROVE  Alone(h)'
  BY DEF MarkedAlone, Alone
<1>1. past'.held = IF Marked THEN queue.cur ELSE IF asks' # asks THEN 0 ELSE past.held
  BY DEF Next, Remembers
<1>2. Moves => queue'.stop \in {queue.stop, 0} /\ asks' # asks
  <2>1. Moves => Asks
    BY DEF Moves, NextRoute, ColdStart, ResumeRoute, StopRoute, StartRoute
  <2>2. Asks => asks' # asks
    BY DEF Asks, TypeOK
  <2>3. Moves => queue'.stop \in {queue.stop, 0}
    BY DEF Moves, NextRoute, ColdStart, ResumeRoute, StopRoute, StartRoute, TypeOK
  <2> QED
    BY <2>1, <2>2, <2>3
<1>3. CASE Marked
  <2>1. asks' # asks /\ Stays
    <3>1. queue'.stop \notin {queue.stop, 0}
      BY <1>3 DEF Marked
    <3>2. Steps
      BY <1>2, <3>1 DEF Next
    <3>3. asks' # asks
      BY <3>1, <3>2, MarksAreAsked
    <3> QED
      BY <3>2, <3>3 DEF Steps, DriverSteps, ReadTransport, Plan, Halt, Finish, Advance, EndTick,
         EngineSteps, Faults, TimePasses, Walk, Others
  <2>2. UNCHANGED <<engineVars, drv>>
    <3>1. ~PauseRoute
      BY <1>3 DEF PauseRoute, Marked
    <3> QED
      BY <2>1, <3>1 DEF Stays, MarkRoute
  <2>3. ToSet(<<queue.cur>>) = {queue.cur}
    BY DEF ToSet
  <2> QED
    <3>1. h = queue.cur /\ queue'.cur = h
      BY <1>1, <1>3 DEF Marked
    <3> QED
      BY <1>3, <2>2, <2>3, <3>1 DEF Marked, Alone, engineVars
<1>4. CASE ~Marked
  <2>1. asks' = asks /\ past'.held = past.held /\ Steps
    BY <1>1, <1>2, <1>4 DEF Next
  <2>2. queue.stop = past.held /\ past.held # 0
    BY <2>1, MarksAreAsked
  <2>3. h = past.held /\ h \in Tracks /\ Alone(h)
    BY <2>1, <2>2 DEF MarkedAlone, TypeOK, Ids
  <2>4. CASE DriverSteps
    BY <2>1, <2>2, <2>3, <2>4, AloneTick
  <2>5. CASE EngineSteps \/ Faults \/ TimePasses
    BY <2>1, <2>2, <2>3, <2>5, AloneEngine
  <2>6. ~Stays
    BY <2>1 DEF Stays, PauseRoute, MarkRoute, Asks, TypeOK
  <2>7. ~(\E c \in Callers : Walk(c))
    <3>1. \A c \in Callers : loads[c].stage = "none"
      BY <2>3 DEF Alone, NoLoad
    <3> QED
      BY <3>1 DEF Walk
  <2> QED
    BY <2>1, <2>4, <2>5, <2>6, <2>7 DEF Steps
<1> QED
  BY <1>3, <1>4

\* Behind a row that was marked in time no successor is queued or sounds and the
\* driver loads nothing until the mark fires, whatever the rows, the ends the loop
\* finds and the order of its ticks (plan_tick, the gapless arm and the halt).
THEOREM MarkedRowEndsAlone == Spec => []MarkedEndsAlone
<1>1. Init => MarkedAlone
  BY DEF Init, MarkedAlone
<1>2. TypeOK /\ MarkedAlone /\ [Next]_vars => MarkedAlone'
  <2>1. TypeOK /\ MarkedAlone /\ UNCHANGED vars => MarkedAlone'
    BY DEF vars, engineVars, MarkedAlone, Alone
  <2> QED
    BY <2>1, MarkedAloneStep
<1>3. MarkedAlone => MarkedEndsAlone
  BY DriverAssumption DEF MarkedAlone, Alone, MarkedEndsAlone
<1> QED
  BY <1>1, <1>2, <1>3, TypeCorrect, PTL DEF Spec
------------------------------------------------------------------------------
(* The channel *)

\* What the channel holds: the newest play, a stop, successors of these rows.
Fresh(c) == c.op \in Plays /\ c.fresh
Outdated(c) == c.op \in Plays /\ ~c.fresh
PlayIn(q) == \E i \in DOMAIN q : Fresh(q[i])
StopIn(q) == \E i \in DOMAIN q : q[i].op = "Stop"
NextsIn(q, rows) == \A i \in DOMAIN q : q[i].op = "PlayNext" => q[i].track \in rows

\* Nothing resumes, and while sound is wanted no pause is in force.
HeedIn(q, wanted) ==
    \A i \in DOMAIN q : q[i].op # "Resume" /\ (wanted /\ q[i].op = "Pause" => ~q[i].fresh)

\* One play at most is the newest; an outdated one has it, or a stop, behind it.
OneIn(q) == \A i, j \in DOMAIN q : Fresh(q[i]) /\ Fresh(q[j]) => i = j
OvertakenIn(q) ==
    \A i \in DOMAIN q : Outdated(q[i]) =>
      \E j \in DOMAIN q : j > i /\ (Fresh(q[j]) \/ q[j].op = "Stop")

\* The newest play is of this row, and behind it come only these successors.
NewestIn(q, row, rows) ==
    \A i \in DOMAIN q : Fresh(q[i]) =>
      /\ q[i].track = row
      /\ \A j \in DOMAIN q : j > i /\ q[j].op = "PlayNext" => q[j].track \in rows

LEMMA ChannelGrows ==
  ASSUME NEW q \in Seq(Commands), NEW c \in Commands, NEW p, p = Append(q, c)
  PROVE  /\ PlayIn(p) <=> PlayIn(q) \/ Fresh(c)
         /\ StopIn(p) <=> StopIn(q) \/ c.op = "Stop"
         /\ \A rows : NextsIn(p, rows) <=> NextsIn(q, rows) /\ (c.op = "PlayNext" => c.track \in rows)
         /\ OneIn(q) /\ (Fresh(c) => ~PlayIn(q)) => OneIn(p)
         /\ OvertakenIn(q) /\ ~Outdated(c) => OvertakenIn(p)
         /\ Fresh(c) \/ c.op = "Stop" => OvertakenIn(p)
<1> DEFINE n == Len(q)
<1>1. n \in Nat /\ DOMAIN q = 1..n /\ DOMAIN p = 1..(n + 1)
      /\ p[n + 1] = c /\ \A i \in 1..n : p[i] = q[i]
  OBVIOUS
<1>2. \A i \in DOMAIN p : (i \in DOMAIN q /\ p[i] = q[i]) \/ (i = n + 1 /\ p[i] = c)
  BY <1>1
<1>3. \A i \in DOMAIN q : i \in DOMAIN p /\ p[i] = q[i] /\ i < n + 1
  BY <1>1
<1>4. n + 1 \in DOMAIN p /\ p[n + 1] = c
  BY <1>1
<1>5. \A i, j \in DOMAIN p : i \in Int /\ j \in Int
  BY <1>1
<1>6. \A i \in DOMAIN p : ~(i > n + 1)
  BY <1>1
<1>7. \A i \in DOMAIN q : n + 1 > i
  BY <1>1
<1> HIDE DEF n
<1>11. PlayIn(p) <=> PlayIn(q) \/ Fresh(c)
  BY <1>2, <1>3, <1>4 DEF PlayIn
<1>12. StopIn(p) <=> StopIn(q) \/ c.op = "Stop"
  BY <1>2, <1>3, <1>4 DEF StopIn
<1>13. \A rows : NextsIn(p, rows) <=> NextsIn(q, rows) /\ (c.op = "PlayNext" => c.track \in rows)
  BY <1>2, <1>3, <1>4 DEF NextsIn
<1>15. OneIn(q) /\ (Fresh(c) => ~PlayIn(q)) => OneIn(p)
  BY <1>2 DEF OneIn, PlayIn
<1>16. Fresh(c) \/ c.op = "Stop" => OvertakenIn(p)
  BY <1>2, <1>4, <1>7 DEF OvertakenIn, Outdated, Fresh, Plays
<1>17. OvertakenIn(q) /\ ~Outdated(c) => OvertakenIn(p)
  BY <1>2, <1>3 DEF OvertakenIn
<1> QED
  BY <1>11, <1>12, <1>13, <1>15, <1>16, <1>17

LEMMA HeedGrows ==
  ASSUME NEW q \in Seq(Commands), NEW c \in Commands, NEW p, p = Append(q, c), NEW wanted \in BOOLEAN,
         HeedIn(q, wanted), c.op # "Resume", wanted /\ c.op = "Pause" => ~c.fresh
  PROVE  HeedIn(p, wanted)
<1>1. \A i \in DOMAIN p : (i \in DOMAIN q /\ p[i] = q[i]) \/ p[i] = c
  OBVIOUS
<1> QED
  BY <1>1 DEF HeedIn

LEMMA NewestGrows ==
  ASSUME NEW q \in Seq(Commands), NEW c \in Commands, NEW p, p = Append(q, c), NEW row, NEW rows,
         NewestIn(q, row, rows) \/ ~PlayIn(q), Fresh(c) => c.track = row,
         PlayIn(q) /\ c.op = "PlayNext" => c.track \in rows
  PROVE  NewestIn(p, row, rows)
<1> DEFINE n == Len(q)
<1>1. n \in Nat /\ DOMAIN q = 1..n /\ DOMAIN p = 1..(n + 1)
      /\ p[n + 1] = c /\ \A i \in 1..n : p[i] = q[i]
  OBVIOUS
<1>2. \A i \in DOMAIN p : (i \in DOMAIN q /\ p[i] = q[i]) \/ (i = n + 1 /\ p[i] = c)
  BY <1>1
<1>3. \A i \in DOMAIN p : ~(i > n + 1)
  BY <1>1
<1> HIDE DEF n
<1> SUFFICES ASSUME NEW i \in DOMAIN p, Fresh(p[i])
             PROVE  p[i].track = row /\ \A j \in DOMAIN p :
                       j > i /\ p[j].op = "PlayNext" => p[j].track \in rows
  BY DEF NewestIn
<1>4. CASE i \in DOMAIN q /\ p[i] = q[i]
  BY <1>2, <1>4 DEF NewestIn, PlayIn
<1>5. CASE i = n + 1 /\ p[i] = c
  BY <1>3, <1>5
<1> QED
  BY <1>2, <1>4, <1>5

LEMMA ChannelShrinks ==
  ASSUME NEW q \in Seq(Commands), q # <<>>, NEW h, h = Head(q), NEW p, p = Tail(q)
  PROVE  /\ PlayIn(q) <=> Fresh(h) \/ PlayIn(p)
         /\ StopIn(q) <=> h.op = "Stop" \/ StopIn(p)
         /\ \A rows : NextsIn(q, rows) => NextsIn(p, rows) /\ (h.op = "PlayNext" => h.track \in rows)
         /\ \A wanted \in BOOLEAN :
              HeedIn(q, wanted) =>
                HeedIn(p, wanted) /\ h.op # "Resume" /\ (wanted /\ h.op = "Pause" => ~h.fresh)
         /\ OneIn(q) => OneIn(p) /\ (Fresh(h) => ~PlayIn(p))
         /\ OvertakenIn(q) => OvertakenIn(p) /\ (Outdated(h) => PlayIn(p) \/ StopIn(p))
         /\ \A row, rows :
              NewestIn(q, row, rows) =>
                NewestIn(p, row, rows) /\ (Fresh(h) => h.track = row /\ NextsIn(p, rows))
<1> DEFINE n == Len(q)
<1>1. n \in Nat \ {0} /\ DOMAIN q = 1..n /\ DOMAIN p = 1..(n - 1)
      /\ h = q[1] /\ \A i \in 1..(n - 1) : p[i] = q[i + 1]
  BY HeadTailProperties, LenProperties
<1>2. \A i \in DOMAIN p : i + 1 \in DOMAIN q /\ p[i] = q[i + 1] /\ i + 1 > 1
  BY <1>1
<1>3. \A i \in DOMAIN q : i = 1 \/ (i - 1 \in DOMAIN p /\ p[i - 1] = q[i])
  BY <1>1
<1>4. 1 \in DOMAIN q /\ q[1] = h
  BY <1>1
<1>5. DOMAIN p \subseteq Int /\ DOMAIN q \subseteq Int
  BY <1>1
<1> HIDE DEF n
<1>11. PlayIn(q) <=> Fresh(h) \/ PlayIn(p)
  BY <1>2, <1>3, <1>4 DEF PlayIn
<1>12. StopIn(q) <=> h.op = "Stop" \/ StopIn(p)
  BY <1>2, <1>3, <1>4 DEF StopIn
<1>13. \A rows : NextsIn(q, rows) => NextsIn(p, rows) /\ (h.op = "PlayNext" => h.track \in rows)
  BY <1>2, <1>4 DEF NextsIn
<1>14. \A wanted \in BOOLEAN :
         HeedIn(q, wanted) =>
           HeedIn(p, wanted) /\ h.op # "Resume" /\ (wanted /\ h.op = "Pause" => ~h.fresh)
  BY <1>2, <1>4 DEF HeedIn
<1>15. OneIn(q) => OneIn(p) /\ (Fresh(h) => ~PlayIn(p))
  <2> SUFFICES ASSUME OneIn(q) PROVE OneIn(p) /\ (Fresh(h) => ~PlayIn(p))
    OBVIOUS
  <2>1. \A i, j \in DOMAIN p : Fresh(p[i]) /\ Fresh(p[j]) => i + 1 = j + 1
    BY <1>2 DEF OneIn
  <2>2. \A i, j \in DOMAIN p : i + 1 = j + 1 => i = j
    BY <1>5
  <2>3. \A i \in DOMAIN p : Fresh(p[i]) => ~Fresh(h)
    <3>1. \A i \in DOMAIN p : i + 1 # 1
      BY <1>2, <1>5
    <3> QED
      BY <1>2, <1>4, <3>1 DEF OneIn
  <2> QED
    BY <2>1, <2>2, <2>3 DEF OneIn, PlayIn
<1>16. OvertakenIn(q) => OvertakenIn(p) /\ (Outdated(h) => PlayIn(p) \/ StopIn(p))
  <2> SUFFICES ASSUME OvertakenIn(q)
               PROVE  OvertakenIn(p) /\ (Outdated(h) => PlayIn(p) \/ StopIn(p))
    OBVIOUS
  <2>1. ASSUME NEW i \in DOMAIN p, Outdated(p[i])
        PROVE  \E j \in DOMAIN p : j > i /\ (Fresh(p[j]) \/ p[j].op = "Stop")
    <3>1. PICK k \in DOMAIN q : k > i + 1 /\ (Fresh(q[k]) \/ q[k].op = "Stop")
      BY <1>2, <2>1 DEF OvertakenIn
    <3>2. k - 1 \in DOMAIN p /\ p[k - 1] = q[k] /\ k - 1 > i
      BY <1>2, <1>3, <1>5, <3>1
    <3> QED
      BY <3>1, <3>2
  <2>2. ASSUME Outdated(h) PROVE PlayIn(p) \/ StopIn(p)
    <3>1. PICK k \in DOMAIN q : k > 1 /\ (Fresh(q[k]) \/ q[k].op = "Stop")
      BY <1>4, <2>2 DEF OvertakenIn
    <3>2. k - 1 \in DOMAIN p /\ p[k - 1] = q[k]
      BY <1>3, <1>5, <3>1
    <3> QED
      BY <3>1, <3>2 DEF PlayIn, StopIn
  <2> QED
    BY <2>1, <2>2 DEF OvertakenIn
<1>17. ASSUME NEW row, NEW rows, NewestIn(q, row, rows)
       PROVE  NewestIn(p, row, rows) /\ (Fresh(h) => h.track = row /\ NextsIn(p, rows))
  <2>1. ASSUME NEW i \in DOMAIN p, Fresh(p[i])
        PROVE  p[i].track = row /\ \A j \in DOMAIN p : j > i /\ p[j].op = "PlayNext" => p[j].track \in rows
    <3>1. \A j \in DOMAIN p : j > i => j + 1 > i + 1
      BY <1>5
    <3> QED
      BY <1>2, <1>17, <2>1, <3>1 DEF NewestIn
  <2>2. ASSUME Fresh(h) PROVE h.track = row /\ NextsIn(p, rows)
    BY <1>2, <1>4, <1>17, <2>2 DEF NewestIn, NextsIn
  <2> QED
    BY <2>1, <2>2 DEF NewestIn
<1> QED
  BY <1>11, <1>12, <1>13, <1>14, <1>15, <1>16, <1>17

LEMMA ChannelAges ==
  ASSUME NEW q \in Seq(Commands), NEW p, p = Stale(q)
  PROVE  /\ ~PlayIn(p) /\ OneIn(p) /\ (StopIn(p) <=> StopIn(q))
         /\ \A wanted, later \in BOOLEAN : HeedIn(q, wanted) => HeedIn(p, later)
         /\ \A row, rows : NewestIn(p, row, rows)
<1>1. DOMAIN p = DOMAIN q
      /\ \A i \in DOMAIN q : p[i].op = q[i].op /\ p[i].track = q[i].track /\ ~p[i].fresh
  <2>1. \A i \in DOMAIN q : q[i] \in Commands
    OBVIOUS
  <2> QED
    BY <2>1 DEF Stale, Commands
<1> QED
  BY <1>1 DEF PlayIn, OneIn, StopIn, HeedIn, NewestIn, Fresh
------------------------------------------------------------------------------
(* No dead air                                                             *)
(*                                                                         *)
(* After the first move a player that is meant to sound is in one of three *)
(* places: the loop is at work on an end it has found; a play is under way *)
(* and is of the current row (Fills); or the engine has a row (Sounds),    *)
(* whose silence, if any, the loop has yet to take for an end.  The rows   *)
(* in hand must agree for that: what is queued behind the row, what is     *)
(* fetched, where the cursor is, and what the loop has sampled.            *)

Begun == loads[Driver].stage = "begun"
Onward(row) == {row + 1} \cap Playable

\* Whatever plays: what each party has in hand.
Orderly ==
    /\ loads[User] = NoLoad
    /\ HeedIn(cmds, intent)
    /\ loads[Driver] # NoLoad => drv.pc = "waiting"
    /\ loads[Driver].stage \in {"asked", "begun"} => loads[Driver].track = queue.cur
    /\ Begun => loads[Driver].fresh /\ feed = NoFeed
    /\ drv.pc \notin {"idle", "reading"} => fetches = {} /\ drv.last = NoEvent /\ eng.failed = 0
    /\ eng.ending => ~eng.playing /\ busy = NoPlay
    /\ eng.next # 0 => eng.src # <<>> /\ Last(eng.src) = eng.next
    /\ eng.src # <<>> => eng.alive
    /\ busy # NoPlay => eng.next = 0 /\ ~eng.ready /\ eng.src = <<>>

\* One play at most is under way, and one that is overtaken is followed up.
OnePlay ==
    /\ Begun => ~Buffering
    /\ OneIn(cmds) /\ (busy.fresh => ~PlayIn(cmds))
    /\ \/ Begun
       \/ /\ OvertakenIn(cmds)
          /\ busy # NoPlay /\ ~busy.fresh => PlayIn(cmds) \/ StopIn(cmds)

\* The loop waits for nothing, and sound is wanted: a row is on its way to the
\* thread, or one is there.
AtRest == loads[Driver] = NoLoad /\ drv.pc \in {"idle", "reading", "waiting"} /\ intent
Fills == AtRest /\ Buffering
Sounds == AtRest /\ ~Buffering /\ eng.loaded /\ ~StopIn(cmds)

\* The row on its way is the current one; its successor may be, behind it; and
\* the loop knows no other row than the one that is there.
Behind == IF drv.pc = "waiting" THEN {} ELSE Onward(queue.cur)
FillsOK ==
    /\ busy.fresh => busy.track = queue.cur /\ NextsIn(cmds, Behind)
    /\ NewestIn(cmds, queue.cur, Behind)
    /\ \A f \in fetches : f.state # "overtaken" => f.track \in Onward(queue.cur)
    /\ feed.state # "none" => feed.track = queue.cur
    /\ feed.state = "dead" => eng.failed = queue.cur
    /\ eng.failed # 0 =>
         eng.failed = queue.cur /\ drv.last.track = queue.cur /\ eng.track = queue.cur
    /\ drv.last.track \in {0, eng.track}
    /\ drv.pc = "reading" => drv.ev.track = eng.track /\ (eng.track = 0 \/ drv.ev.buffering)

\* The engine has row t, and if it is silent then at its end.
HasRow(t) ==
    /\ t # 0 /\ eng.dur = t /\ ~eng.cut /\ eng.alive
    /\ eng.pos = Early => ~eng.ready
    /\ eng.src = <<>> => eng.pos \in {Tail2, AtEnd} \/ feed.state = "dead"
    /\ ~eng.playing => eng.src = <<>> /\ eng.pos = AtEnd
    /\ feed.state # "none" => feed.track = t
    /\ feed.state = "dead" => eng.failed = t

\* What is queued behind row t or on its way is t again or its successor.
Young == eng.pos = Early \/ (eng.pos = Window /\ ~ticked)
InLine(t) ==
    /\ eng.next \in {0} \cup ({t, t + 1} \cap Playable)
    /\ NextsIn(cmds, {t, t + 1} \cap Playable)
    /\ queue.cur = t => \A f \in fetches : f.state # "overtaken" => f.track \in Onward(t)
    /\ drv.pc = "waiting" => queue.cur = t /\ eng.next = 0 /\ NextsIn(cmds, {})

\* After a hand-off the cursor is still on the row before, but not for long.
HandedOff(t) ==
    /\ queue.cur # 0 /\ t \in Onward(queue.cur)
    /\ Young /\ feed = NoFeed /\ drv.last.track # t
    /\ eng.next \in {0, t} /\ NextsIn(cmds, {t})
    /\ \A f \in fetches : f.state # "overtaken" => f.track = t
    /\ drv.pc = "reading" /\ drv.ev.track = t => drv.ev.playing /\ ~drv.ev.buffering

\* What the loop has sampled of row t: a row it has not seen is young, and the
\* sample in hand is of the place the row has come to.
Seen(t) ==
    /\ drv.last.track \notin {0, t} => Young
    /\ eng.failed \in {0, queue.cur}
    /\ eng.failed = t => drv.last.track = t /\ (drv.pc = "reading" => drv.ev.track = t)
    /\ drv.pc = "reading" =>
         /\ drv.ev.track # t =>
              /\ eng.pos = Early /\ drv.last.track \in {0, drv.ev.track}
              /\ drv.ev.track = 0 \/ drv.ev.buffering \/ drv.ev.track = queue.cur
         /\ eng.pos \in {Window, Tail2} =>
              drv.ev.pos = eng.pos /\ drv.ev.track = t /\ drv.ev.dur = t
         /\ eng.pos = AtEnd =>
              \/ drv.ev.track = t /\ drv.ev.dur = t /\ drv.ev.pos \in {Tail2, AtEnd}
              \/ eng.failed = t

\* A silent row is an end that the loop has yet to take: an edge to come or
\* published, or the sample of a row that played near its end.
NearlyOver(e, t) == e.playing /\ e.track = t /\ e.dur = t /\ e.pos \in {Tail2, AtEnd}
EndIsSeen(t) ==
    \/ eng.ending \/ eng.ended = t \/ eng.failed = t
    \/ NearlyOver(drv.last, t) /\ (drv.pc = "reading" => drv.ev.track = t /\ drv.ev.dur = t)
    \/ drv.pc = "reading" /\ drv.ev.playing

SoundsOK(t) ==
    /\ HasRow(t) /\ InLine(t) /\ Seen(t)
    /\ queue.cur # t => HandedOff(t)
    /\ ~eng.playing => EndIsSeen(t)

Running == Orderly /\ OnePlay /\ (Fills => FillsOK) /\ (Sounds => SoundsOK(eng.track))

\* Buffering in terms of the channel.
LEMMA BufferingIs ==
    /\ Buffering <=> busy.fresh \/ PlayIn(cmds)
    /\ Buffering' <=> busy'.fresh \/ PlayIn(cmds')
  BY DEF Buffering, PlayIn, Fresh

\* While a row sounds no play is left in the channel or with the thread.
LEMMA NothingUnderWay ==
  ASSUME TypeOK, Running, Sounds
  PROVE  busy = NoPlay /\ ~PlayIn(cmds) /\ \A i \in DOMAIN cmds : cmds[i].op \notin Plays
<1>1. ~busy.fresh /\ ~PlayIn(cmds) /\ ~StopIn(cmds) /\ ~Begun
  BY BufferingIs DEF Sounds, AtRest, Begun, NoLoad
<1>2. OvertakenIn(cmds) /\ busy = NoPlay
  BY <1>1 DEF Running, OnePlay
<1>3. \A i \in DOMAIN cmds : ~Outdated(cmds[i]) /\ ~Fresh(cmds[i])
  BY <1>1, <1>2 DEF OvertakenIn, PlayIn, StopIn
<1>4. \A i \in DOMAIN cmds : cmds[i] \in Commands
  BY DEF TypeOK, EngineTypeOK
<1> QED
  BY <1>1, <1>2, <1>3, <1>4 DEF Fresh, Outdated, Commands
------------------------------------------------------------------------------
(* The thread *)

LEMMA InstallRuns ==
  ASSUME TypeOK, TypeOK', Running, Install, UNCHANGED <<queue, drv, ticked>>
  PROVE  Running'
<1>0. /\ busy.fresh /\ busy.track \in Tracks /\ busy' = NoPlay /\ ~busy'.fresh /\ busy # NoPlay
      /\ eng' = [eng EXCEPT !.alive = TRUE, !.src = <<busy.track>>, !.playing = intent,
                          !.pos = Early, !.dur = busy.track, !.track = busy.track,
                          !.cut = FALSE]
      /\ UNCHANGED <<cmds, intent, feed, loads, fetches, queue, drv, ticked>>
  BY DEF Install, NoPlay, Command, TypeOK, EngineTypeOK
<1>t. PICK t \in Tracks : t = busy.track
  BY <1>0
<1>1. /\ eng'.alive /\ eng'.src = <<t>> /\ eng'.playing = intent
      /\ eng'.pos = Early /\ eng'.dur = t /\ eng'.track = t /\ ~eng'.cut
      /\ UNCHANGED <<eng.next, eng.ready, eng.loaded, eng.ended, eng.failed, eng.ending>>
  BY <1>0, <1>t DEF TypeOK, EngineTypeOK, EngineStates
<1>2. ~PlayIn(cmds) /\ Buffering /\ ~Begun
  BY <1>0, BufferingIs DEF Running, OnePlay
<1>3. Orderly'
  BY <1>0, <1>1 DEF Running, Orderly, Begun
<1>4. OnePlay'
  BY <1>0, <1>1, <1>2, BufferingIs DEF Running, OnePlay, Begun
<1>5. ~Fills'
  BY <1>0, <1>2, BufferingIs DEF Fills
<1>6. ASSUME Sounds' PROVE SoundsOK(eng.track)'
  <2>1. Fills /\ FillsOK
    BY <1>0, <1>2, <1>6 DEF Sounds, AtRest, Fills, Running
  <2>a. t # 0 /\ t = queue.cur /\ NextsIn(cmds, Behind) /\ eng.next = 0 /\ ~eng.ready /\ intent
    BY <1>0, <1>t, <2>1, RowsAreNumbers DEF FillsOK, Running, Orderly, Fills, AtRest
  <2>2. HasRow(t)'
    BY <1>0, <1>1, <2>1, <2>a DEF HasRow, FillsOK
  <2>3. InLine(t)'
    <3>1. NextsIn(cmds, {t, t + 1} \cap Playable)
      BY <2>a DEF NextsIn, Behind, Onward
    <3>2. drv.pc = "waiting" => NextsIn(cmds, {})
      BY <2>a DEF NextsIn, Behind
    <3> QED
      BY <1>0, <1>1, <2>1, <2>a, <3>1, <3>2 DEF InLine, FillsOK
  <2>4. Seen(t)'
    BY <1>0, <1>1, <2>1, <2>a DEF Seen, FillsOK, Young, Early, Window, Tail2, AtEnd
  <2> QED
    BY <1>0, <1>1, <2>1, <2>a, <2>2, <2>3, <2>4 DEF SoundsOK
<1> QED
  BY <1>3, <1>4, <1>5, <1>6 DEF Running

\* What is known of the channel once its head is taken.
LEMMA TakenFacts ==
  ASSUME TypeOK, NEW ops, Takes(ops)
  PROVE  /\ busy = NoPlay /\ ~busy.fresh /\ ~eng.ending
         /\ Head(cmds) \in Commands /\ Head(cmds).op \in ops
         /\ PlayIn(cmds) <=> Fresh(Head(cmds)) \/ PlayIn(cmds')
         /\ StopIn(cmds) <=> Head(cmds).op = "Stop" \/ StopIn(cmds')
         /\ \A rows : NextsIn(cmds, rows) =>
              NextsIn(cmds', rows) /\ (Head(cmds).op = "PlayNext" => Head(cmds).track \in rows)
         /\ HeedIn(cmds, intent) =>
              /\ HeedIn(cmds', intent) /\ Head(cmds).op # "Resume"
              /\ intent /\ Head(cmds).op = "Pause" => ~Head(cmds).fresh
         /\ OneIn(cmds) => OneIn(cmds') /\ (Fresh(Head(cmds)) => ~PlayIn(cmds'))
         /\ OvertakenIn(cmds) =>
              OvertakenIn(cmds') /\ (Outdated(Head(cmds)) => PlayIn(cmds') \/ StopIn(cmds'))
         /\ \A row, rows :
              NewestIn(cmds, row, rows) =>
                /\ NewestIn(cmds', row, rows)
                /\ Fresh(Head(cmds)) => Head(cmds).track = row /\ NextsIn(cmds', rows)
<1>1. /\ cmds \in Seq(Commands) /\ cmds # <<>> /\ cmds' = Tail(cmds) /\ intent \in BOOLEAN
      /\ busy = NoPlay /\ ~busy.fresh /\ ~eng.ending /\ Head(cmds).op \in ops
  BY DEF Takes, Idle, NoPlay, Command, TypeOK, EngineTypeOK
<1> DEFINE h == Head(cmds)
<1>2. h \in Commands
  BY <1>1
<1> HIDE DEF h
<1>3. h = Head(cmds)
  BY DEF h
<1>4. /\ PlayIn(cmds) <=> Fresh(h) \/ PlayIn(cmds')
      /\ StopIn(cmds) <=> h.op = "Stop" \/ StopIn(cmds')
      /\ \A rows : NextsIn(cmds, rows) => NextsIn(cmds', rows) /\ (h.op = "PlayNext" => h.track \in rows)
      /\ \A wanted \in BOOLEAN :
           HeedIn(cmds, wanted) =>
             HeedIn(cmds', wanted) /\ h.op # "Resume" /\ (wanted /\ h.op = "Pause" => ~h.fresh)
      /\ OneIn(cmds) => OneIn(cmds') /\ (Fresh(h) => ~PlayIn(cmds'))
      /\ OvertakenIn(cmds) => OvertakenIn(cmds') /\ (Outdated(h) => PlayIn(cmds') \/ StopIn(cmds'))
      /\ \A row, rows :
           NewestIn(cmds, row, rows) =>
             NewestIn(cmds', row, rows) /\ (Fresh(h) => h.track = row /\ NextsIn(cmds', rows))
  BY <1>1, <1>3, ChannelShrinks
<1> QED
  BY <1>1, <1>2, <1>3, <1>4

LEMMA StartPlayRuns ==
  ASSUME TypeOK, TypeOK', Running, StartPlay, UNCHANGED <<queue, drv, ticked>>
  PROVE  Running'
<1> DEFINE h == Head(cmds)
<1>1. Takes(Plays) /\ UNCHANGED <<intent, feed, loads, fetches>>
  BY DEF StartPlay
<1>2. h \in Commands /\ h.op \in Plays
  BY <1>1, TakenFacts
<1>3. (Fresh(h) <=> h.fresh) /\ (Outdated(h) <=> ~h.fresh) /\ h.op # "Stop" /\ h.fresh \in BOOLEAN
  BY <1>2 DEF Fresh, Outdated, Plays, Commands
<1>4. (Buffering <=> PlayIn(cmds)) /\ (StopIn(cmds) <=> StopIn(cmds'))
  BY <1>1, <1>3, BufferingIs, TakenFacts
<1>5. CASE UNCHANGED <<eng, busy>> /\ ~h.fresh
  <2>1. PlayIn(cmds) <=> PlayIn(cmds')
    BY <1>1, <1>3, <1>5, TakenFacts
  <2>2. Buffering' <=> Buffering
    BY <1>4, <1>5, <2>1, BufferingIs, <1>1, TakenFacts
  <2>3. Orderly'
    BY <1>1, <1>5, TakenFacts DEF Running, Orderly, Begun
  <2>4. OnePlay'
    BY <1>1, <1>4, <1>5, <2>1, <2>2, TakenFacts DEF Running, OnePlay, Begun
  <2>5. Fills' => FillsOK'
    <3>1. Fills' => Fills
      BY <1>1, <2>2 DEF Fills, AtRest
    <3> QED
      BY <1>1, <1>5, <3>1, TakenFacts DEF Running, FillsOK, Behind
  <2>6. ~Sounds'
    <3>1. Sounds' => Sounds
      BY <1>1, <1>4, <1>5, <2>2 DEF Sounds, AtRest
    <3>2. Sounds => 1 \in DOMAIN cmds /\ cmds[1].op \in Plays
      BY <1>1, <1>2 DEF Takes, TypeOK, EngineTypeOK
    <3> QED
      BY <3>1, <3>2, NothingUnderWay
  <2> QED
    BY <2>3, <2>4, <2>5, <2>6 DEF Running
<1>6. CASE busy' = h /\ \E p \in Phases :
             eng' = [Silenced(NoSuccessor(eng)) EXCEPT
                       !.media = h.track, !.loaded = TRUE, !.pos = p,
                       !.dur = IF h.op = "PlayStreaming" THEN h.track ELSE @]
  <2>1. /\ eng'.next = 0 /\ ~eng'.ready /\ eng'.src = <<>>
        /\ UNCHANGED <<eng.track, eng.failed, eng.ending>>
    <3>1. PICK p, d, m : eng' = [Silenced(NoSuccessor(eng)) EXCEPT
                                !.media = m, !.loaded = TRUE, !.pos = p, !.dur = d]
      BY <1>6
    <3>2. eng \in EngineStates
      BY DEF TypeOK, EngineTypeOK
    <3> QED
      BY <3>1, <3>2 DEF EngineStates, Silenced, NoSuccessor
  <2>2. busy'.fresh = h.fresh /\ busy'.track = h.track /\ (Buffering' <=> Buffering)
    BY <1>1, <1>3, <1>4, <1>6, BufferingIs, TakenFacts
  <2>3. Orderly'
    BY <1>1, <2>1, TakenFacts DEF Running, Orderly, Begun
  <2>4. OnePlay'
    BY <1>1, <1>3, <1>4, <2>2, TakenFacts DEF Running, OnePlay, Begun
  <2>5. Fills' => FillsOK'
    <3>1. Fills' => Fills
      BY <1>1, <2>2 DEF Fills, AtRest
    <3> QED
      BY <1>1, <1>3, <2>1, <2>2, <3>1, TakenFacts DEF Running, FillsOK, Behind
  <2>6. ~Sounds'
    <3>1. Sounds' => ~Begun /\ ~PlayIn(cmds') /\ ~StopIn(cmds') /\ ~h.fresh
      BY <1>1, <2>2, BufferingIs DEF Sounds, AtRest, Begun, NoLoad
    <3> QED
      BY <1>1, <1>3, <3>1, TakenFacts DEF Running, OnePlay
  <2> QED
    BY <2>3, <2>4, <2>5, <2>6 DEF Running
<1> QED
  BY <1>2, <1>5, <1>6 DEF StartPlay, Plays

LEMMA AbandonRuns ==
  ASSUME TypeOK, TypeOK', Running, Abandon, UNCHANGED <<queue, drv, ticked>>
  PROVE  Running'
<1>1. /\ busy # NoPlay /\ ~busy.fresh /\ busy' = NoPlay /\ ~busy'.fresh
      /\ UNCHANGED <<eng, cmds, intent, feed, loads, fetches>>
  BY DEF Abandon, NoPlay, Command
<1>2. Buffering' <=> Buffering
  BY <1>1, BufferingIs
<1>3. Orderly'
  BY <1>1 DEF Running, Orderly, Begun
<1>4. OnePlay'
  BY <1>1, <1>2 DEF Running, OnePlay, Begun
<1>5. Fills' => FillsOK'
  BY <1>1, <1>2 DEF Running, Fills, AtRest, FillsOK, Behind
<1>6. ~Sounds'
  BY <1>1, <1>2, NothingUnderWay DEF Sounds, AtRest
<1> QED
  BY <1>3, <1>4, <1>5, <1>6 DEF Running

\* A command that is not a play: what it leaves of the plays under way.
LEMMA OrderTaken ==
  ASSUME TypeOK, Running, NEW ops, Takes(ops), ops \cap Plays = {},
         UNCHANGED <<busy, intent, feed, loads, fetches, queue, drv, ticked>>
  PROVE  /\ Buffering' <=> Buffering
         /\ OnePlay'
         /\ Fills' <=> Fills
         /\ Fills => /\ NewestIn(cmds', queue.cur, Behind)
                     /\ eng'.track = eng.track /\ eng'.failed = eng.failed => FillsOK'
         /\ eng.loaded = eng'.loaded /\ Head(cmds).op # "Stop" => (Sounds' <=> Sounds)
<1>1. ~Fresh(Head(cmds)) /\ ~Outdated(Head(cmds))
  BY TakenFacts DEF Fresh, Outdated
<1>2. Buffering' <=> Buffering
  BY <1>1, TakenFacts, BufferingIs
<1>3. OnePlay'
  BY <1>1, <1>2, TakenFacts DEF Running, OnePlay, Begun
<1>4. Fills' <=> Fills
  BY <1>2 DEF Fills, AtRest
<1>5. Fills => /\ NewestIn(cmds', queue.cur, Behind)
               /\ eng'.track = eng.track /\ eng'.failed = eng.failed => FillsOK'
  BY TakenFacts DEF Running, FillsOK, Behind
<1>6. eng.loaded = eng'.loaded /\ Head(cmds).op # "Stop" => (Sounds' <=> Sounds)
  BY <1>2, TakenFacts DEF Sounds, AtRest
<1> QED
  BY <1>2, <1>3, <1>4, <1>5, <1>6

\* The same of the row that is there, if the engine is left alone.
LEMMA RowKeeps ==
  ASSUME TypeOK, NEW t, SoundsOK(t), \A rows : NextsIn(cmds, rows) => NextsIn(cmds', rows),
         UNCHANGED <<eng, feed, fetches, queue, drv, ticked>>
  PROVE  SoundsOK(t)'
  BY DEF SoundsOK, HasRow, InLine, Seen, HandedOff, Young, EndIsSeen, NearlyOver

LEMMA TransportRuns ==
  ASSUME TypeOK, TypeOK', Running, PauseEngine \/ ResumeEngine \/ StopEngine,
         UNCHANGED <<queue, drv, ticked>>
  PROVE  Running'
<1>1. ~ResumeEngine
  BY TakenFacts DEF ResumeEngine, Running, Orderly
<1>2. CASE PauseEngine
  <2>1. /\ Takes({"Pause"}) /\ UNCHANGED <<busy, intent, feed, loads, fetches>>
        /\ Head(cmds).op = "Pause" /\ {"Pause"} \cap Plays = {}
    BY <1>2, TakenFacts DEF PauseEngine, Plays
  <2>2. CASE UNCHANGED eng
    <3>1. Orderly'
      BY <2>1, <2>2, TakenFacts DEF Running, Orderly, Begun
    <3>2. Sounds' => SoundsOK(eng.track)'
      <4>1. Sounds' => Sounds
        BY <2>1, <2>2, OrderTaken
      <4> QED
        BY <2>1, <2>2, <4>1, TakenFacts, RowKeeps DEF Running
    <3> QED
      BY <2>1, <2>2, <3>1, <3>2, OrderTaken DEF Running
  <2>3. CASE ~intent /\ eng' = [Silenced(NoSuccessor(eng)) EXCEPT !.playing = FALSE]
    <3>1. eng'.next = 0 /\ eng'.src = <<>> /\ ~eng'.ready /\ ~eng'.playing /\ eng'.failed = eng.failed
      BY <2>3 DEF TypeOK, EngineTypeOK, EngineStates, Silenced, NoSuccessor
    <3>2. Orderly'
      BY <2>1, <3>1, TakenFacts DEF Running, Orderly, Begun
    <3>3. ~Fills' /\ ~Sounds'
      BY <2>1, <2>3 DEF Fills, Sounds, AtRest
    <3> QED
      BY <2>1, <3>2, <3>3, OrderTaken DEF Running
  <2> QED
    BY <1>2, <2>2, <2>3 DEF PauseEngine
<1>3. CASE StopEngine
  <2>1. /\ Takes({"Stop"}) /\ UNCHANGED <<busy, intent, feed, loads, fetches>>
        /\ {"Stop"} \cap Plays = {}
    BY <1>3 DEF StopEngine, Plays
  <2>2. /\ eng'.next = 0 /\ eng'.src = <<>> /\ ~eng'.ready /\ ~eng'.playing /\ ~eng'.loaded
        /\ eng'.failed = eng.failed /\ eng'.track = eng.track
    BY <1>3 DEF StopEngine, TypeOK, EngineTypeOK, EngineStates, Silenced, NoSuccessor
  <2>3. Orderly'
    BY <2>1, <2>2, TakenFacts DEF Running, Orderly, Begun
  <2>4. ~Sounds'
    BY <2>2 DEF Sounds
  <2> QED
    BY <2>1, <2>2, <2>3, <2>4, OrderTaken DEF Running
<1> QED
  BY <1>1, <1>2, <1>3

LEMMA AppendRuns ==
  ASSUME TypeOK, TypeOK', Running, AppendNext, UNCHANGED <<queue, drv, ticked>>
  PROVE  Running'
<1>1. /\ Takes({"PlayNext"}) /\ UNCHANGED <<busy, intent, feed, loads, fetches>>
      /\ Head(cmds).op = "PlayNext" /\ {"PlayNext"} \cap Plays = {} /\ ~eng.ending
  BY TakenFacts DEF AppendNext, Plays
<1>2. CASE eng' = [eng EXCEPT !.ready = FALSE]
  <2>1. /\ ~eng'.ready /\ UNCHANGED <<eng.playing, eng.pos, eng.dur, eng.track, eng.next, eng.loaded,
             eng.ended, eng.failed, eng.alive, eng.src, eng.cut, eng.ending>>
    BY <1>2 DEF TypeOK, EngineTypeOK, EngineStates
  <2>2. Orderly'
    BY <1>1, <2>1, TakenFacts DEF Running, Orderly, Begun
  <2>3. Sounds' => SoundsOK(eng.track)'
    <3>1. Sounds' => Sounds
      BY <1>1, <2>1, OrderTaken
    <3>2. SoundsOK(eng.track) => SoundsOK(eng.track)'
      BY <1>1, <2>1, TakenFacts
         DEF SoundsOK, HasRow, InLine, Seen, HandedOff, Young, EndIsSeen, NearlyOver
    <3> QED
      BY <3>1, <3>2 DEF Running
  <2> QED
    BY <1>1, <2>1, <2>2, <2>3, OrderTaken DEF Running
<1>3. ASSUME NEW t, t = Head(cmds).track, eng.alive,
             eng' = [eng EXCEPT !.src = Append(@, t), !.next = t, !.ready = FALSE,
                                !.playing = @ \/ eng.src = <<>>]
      PROVE  Running'
  <2>1. /\ ~eng'.ready /\ eng'.next = t /\ eng'.src = Append(eng.src, t)
        /\ eng'.playing = (eng.playing \/ eng.src = <<>>)
        /\ UNCHANGED <<eng.pos, eng.dur, eng.track, eng.loaded,
             eng.ended, eng.failed, eng.alive, eng.cut, eng.ending>>
    BY <1>3 DEF TypeOK, EngineTypeOK, EngineStates
  <2>2. eng'.src # <<>> /\ Last(eng'.src) = t
    <3>1. t \in Tracks /\ eng.src \in Seq(Tracks)
      BY <1>1, <1>3, TakenFacts DEF Commands, Ids, TypeOK, EngineTypeOK, EngineStates
    <3>2. \A s \in Seq(Tracks) : Append(s, t) # <<>> /\ Last(Append(s, t)) = t
      BY <3>1 DEF Last
    <3> QED
      BY <2>1, <3>1, <3>2
  <2>3. Orderly'
    BY <1>1, <1>3, <2>1, <2>2, TakenFacts DEF Running, Orderly, Begun
  <2>4. Sounds' => SoundsOK(eng.track)'
    <3>1. Sounds' => Sounds
      BY <1>1, <2>1, OrderTaken
    <3>2. SoundsOK(eng.track) => SoundsOK(eng.track)'
      <4> SUFFICES ASSUME SoundsOK(eng.track) PROVE SoundsOK(eng.track)'
        OBVIOUS
      <4>1. HasRow(eng.track)'
        BY <1>1, <2>1, <2>2 DEF SoundsOK, HasRow
      <4>2. InLine(eng.track)'
        BY <1>1, <1>3, <2>1, TakenFacts DEF SoundsOK, InLine
      <4>3. Seen(eng.track)' /\ eng'.playing
        BY <1>1, <2>1, <2>2 DEF SoundsOK, HasRow, Seen, Young
      <4>4. queue.cur # eng.track => HandedOff(eng.track)'
        BY <1>1, <1>3, <2>1, TakenFacts DEF SoundsOK, HandedOff, Young
      <4> QED
        BY <2>1, <4>1, <4>2, <4>3, <4>4 DEF SoundsOK
    <3> QED
      BY <3>1, <3>2 DEF Running
  <2> QED
    BY <1>1, <2>1, <2>3, <2>4, OrderTaken DEF Running
<1> QED
  BY <1>2, <1>3 DEF AppendNext

LEMMA HandOffRuns ==
  ASSUME TypeOK, TypeOK', Running, Transition, UNCHANGED <<queue, drv, ticked>>
  PROVE  Running'
<1>1. /\ busy = NoPlay /\ ~busy.fresh /\ cmds = <<>> /\ ~eng.ending /\ eng.playing
      /\ eng.next # 0 /\ eng.pos = AtEnd /\ feed' = NoFeed
      /\ UNCHANGED <<cmds, busy, intent, loads, fetches>>
  BY DEF Transition, Checks, Idle, HandsOff, NoPlay, Command
<1>2. PICK n : n = eng.next
  OBVIOUS
<1>3. /\ eng'.next = 0 /\ ~eng'.ready /\ eng'.track = n /\ eng'.dur = n /\ eng'.pos = Early /\ ~eng'.cut
      /\ UNCHANGED <<eng.playing, eng.loaded, eng.ended, eng.failed, eng.alive, eng.src, eng.ending>>
  BY <1>2 DEF Transition, NoSuccessor, TypeOK, EngineTypeOK, EngineStates
<1>4. ~Buffering /\ (Buffering' <=> Buffering)
  BY <1>1 DEF Buffering
<1>5. Orderly'
  BY <1>1, <1>3 DEF Running, Orderly, Begun
<1>6. OnePlay'
  BY <1>1, <1>4 DEF Running, OnePlay, Begun
<1>7. ~Fills'
  BY <1>4 DEF Fills
<1>8. ASSUME Sounds' PROVE SoundsOK(eng.track)'
  <2>1. Sounds
    BY <1>1, <1>3, <1>4, <1>8 DEF Sounds, AtRest
  <2>2. PICK t : t = eng.track
    OBVIOUS
  <2>3. SoundsOK(t)
    BY <2>1, <2>2 DEF Running
  <2>4. queue.cur = t
    BY <1>1, <2>3 DEF SoundsOK, HandedOff, Young, Early, Window, AtEnd
  <2>5. n \in {t, t + 1} \cap Playable /\ n \in Tracks /\ n # 0 /\ t # 0 /\ drv.pc # "waiting"
    BY <1>1, <1>2, <2>3, RowsAreNumbers, DriverAssumption DEF SoundsOK, InLine, HasRow
  <2>6. eng.src # <<>> /\ eng.alive /\ eng.playing
    BY <1>1, <1>2 DEF Running, Orderly
  <2>7. HasRow(n)'
    BY <1>1, <1>3, <2>5, <2>6 DEF HasRow, NoFeed
  <2>8. \A rows : NextsIn(cmds', rows)
    BY <1>1 DEF NextsIn
  <2>9. \A f \in fetches : f.state # "overtaken" => f.track \in Onward(t)
    BY <2>3, <2>4 DEF SoundsOK, InLine
  <2>10. InLine(n)'
    <3>1. n = t \/ (n = t + 1 /\ queue.cur # n)
      BY <2>4, <2>5, RowsAreNumbers DEF Ids, TypeOK, EngineTypeOK, EngineStates
    <3> QED
      BY <1>1, <1>3, <2>4, <2>5, <2>8, <2>9, <3>1 DEF InLine
  <2>11. Seen(n)'
    <3>1. Young'
      BY <1>3 DEF Young
    <3>2. /\ eng'.failed \in {0, queue.cur}
          /\ eng'.failed = t => drv.last.track = t /\ (drv.pc = "reading" => drv.ev.track = t)
      BY <1>3, <2>3 DEF SoundsOK, Seen
    <3>3. drv.last.track \in {0, t}
      BY <1>1, <2>3 DEF SoundsOK, Seen, Young, Early, Window, AtEnd
    <3>4. drv.pc = "reading" => drv.ev.track = t
      BY <1>1, <2>3 DEF SoundsOK, Seen
    <3> QED
      BY <1>1, <1>3, <2>4, <2>5, <3>1, <3>2, <3>3, <3>4 DEF Seen, Early, Window, Tail2, AtEnd
  <2>12. queue.cur # n => HandedOff(n)'
    <3>1. ASSUME queue.cur # n
          PROVE  /\ queue.cur # 0 /\ n \in Onward(queue.cur) /\ drv.last.track # n
                 /\ \A f \in fetches : f.state # "overtaken" => f.track = n
                 /\ drv.pc = "reading" => drv.ev.track # n
      <4>1. n = t + 1 /\ n # t
        BY <2>4, <2>5, <3>1
      <4>2. drv.last.track \in {0, t}
        BY <1>1, <2>3 DEF SoundsOK, Seen, Young, Early, Window, AtEnd
      <4>3. drv.pc = "reading" => drv.ev.track = t
        BY <1>1, <2>3 DEF SoundsOK, Seen
      <4> QED
        BY <2>4, <2>5, <2>9, <4>1, <4>2, <4>3 DEF Onward
    <3> QED
      BY <1>1, <1>3, <2>8, <3>1 DEF HandedOff, Young
  <2> QED
    BY <1>1, <1>3, <2>6, <2>7, <2>10, <2>11, <2>12 DEF SoundsOK
<1> QED
  BY <1>5, <1>6, <1>7, <1>8 DEF Running

LEMMA CheckRuns ==
  ASSUME TypeOK, TypeOK', Running, AskForNext \/ RunsEmpty, UNCHANGED <<queue, drv, ticked>>
  PROVE  Running'
<1>1. /\ busy = NoPlay /\ ~busy.fresh /\ cmds = <<>> /\ ~eng.ending /\ eng.playing
      /\ UNCHANGED <<cmds, busy, intent, feed, loads, fetches>>
  BY DEF AskForNext, RunsEmpty, Checks, Idle, NoPlay, Command
<1>2. ~Buffering /\ (Buffering' <=> Buffering)
  BY <1>1 DEF Buffering
<1>3. OnePlay'
  BY <1>1, <1>2 DEF Running, OnePlay, Begun
<1>4. ~Fills'
  BY <1>2 DEF Fills
<1>5. CASE AskForNext
  <2>1. /\ eng.pos # Early
        /\ UNCHANGED <<eng.playing, eng.pos, eng.dur, eng.track, eng.next, eng.loaded,
             eng.ended, eng.failed, eng.alive, eng.src, eng.cut, eng.ending>>
    BY <1>5 DEF AskForNext, TypeOK, EngineTypeOK, EngineStates
  <2>2. Orderly'
    BY <1>1, <2>1 DEF Running, Orderly, Begun
  <2>3. Sounds' => Sounds
    BY <1>1, <1>2, <2>1 DEF Sounds, AtRest
  <2>4. SoundsOK(eng.track) => SoundsOK(eng.track)'
    BY <1>1, <2>1 DEF SoundsOK, HasRow, InLine, Seen, HandedOff, Young, EndIsSeen, NearlyOver
  <2> QED
    BY <1>3, <1>4, <2>2, <2>3, <2>4 DEF Running
<1>6. CASE RunsEmpty
  <2>1. /\ eng.alive /\ eng.src = <<>> /\ eng'.next = 0 /\ ~eng'.ready /\ ~eng'.playing
        /\ eng'.pos = AtEnd /\ eng'.ending
        /\ UNCHANGED <<eng.dur, eng.track, eng.loaded, eng.ended, eng.failed, eng.alive, eng.src, eng.cut>>
    BY <1>6 DEF RunsEmpty, NoSuccessor, TypeOK, EngineTypeOK, EngineStates
  <2>2. Orderly'
    BY <1>1, <2>1 DEF Running, Orderly, Begun
  <2>3. Sounds' => Sounds
    BY <1>1, <1>2, <2>1 DEF Sounds, AtRest
  <2>4. ASSUME NEW t, t = eng.track, SoundsOK(t) PROVE SoundsOK(t)'
    <3>1. HasRow(t)'
      BY <1>1, <2>1, <2>4 DEF SoundsOK, HasRow, Early, AtEnd
    <3>2. InLine(t)'
      BY <1>1, <2>1, <2>4 DEF SoundsOK, InLine
    <3>3. eng.pos \in {Tail2, AtEnd} \/ eng.failed = t
      BY <2>1, <2>4 DEF SoundsOK, HasRow
    <3>4. queue.cur = t
      BY <3>3, <2>4, RowsAreNumbers
         DEF SoundsOK, HandedOff, Seen, Young, Early, Window, Tail2, AtEnd, Onward
    <3>5. drv.last.track \in {0, t} \/ eng.failed = t
      BY <3>3, <2>4 DEF SoundsOK, Seen, Young, Early, Window, Tail2, AtEnd
    <3>6. Seen(t)'
      BY <1>1, <2>1, <2>4, <3>3, <3>4, <3>5 DEF SoundsOK, Seen, Young, Early, Window, Tail2, AtEnd
    <3> QED
      BY <1>1, <2>1, <3>1, <3>2, <3>4, <3>6 DEF SoundsOK, EndIsSeen
  <2> QED
    BY <1>3, <1>4, <2>1, <2>2, <2>3, <2>4 DEF Running
<1> QED
  BY <1>5, <1>6

LEMMA SourceRuns ==
  ASSUME TypeOK, TypeOK', Running, RecordEmpty \/ SourceEnds \/ FeederDone,
         UNCHANGED <<queue, drv, ticked>>
  PROVE  Running'
<1>1. UNCHANGED <<cmds, busy, intent, loads, fetches>> /\ (Buffering' <=> Buffering)
  BY DEF RecordEmpty, SourceEnds, FeederDone, Buffering
<1>2. OnePlay'
  BY <1>1 DEF Running, OnePlay, Begun
<1>3. CASE RecordEmpty
  <2>1. /\ eng.ending /\ ~eng'.ending /\ eng'.ended = eng.track /\ feed' = feed
        /\ UNCHANGED <<eng.playing, eng.pos, eng.dur, eng.track, eng.next, eng.loaded, eng.ready,
             eng.failed, eng.alive, eng.src, eng.cut>>
    BY <1>3 DEF RecordEmpty, TypeOK, EngineTypeOK, EngineStates
  <2>2. Orderly'
    BY <1>1, <2>1 DEF Running, Orderly, Begun
  <2>3. (Fills' => Fills) /\ (Sounds' => Sounds)
    BY <1>1, <2>1 DEF Fills, Sounds, AtRest
  <2>4. FillsOK => FillsOK'
    BY <1>1, <2>1 DEF FillsOK, Behind
  <2>5. SoundsOK(eng.track) => SoundsOK(eng.track)'
    BY <1>1, <2>1 DEF SoundsOK, HasRow, InLine, Seen, HandedOff, Young, EndIsSeen, NearlyOver
  <2> QED
    BY <1>2, <2>2, <2>3, <2>4, <2>5 DEF Running
<1>4. CASE SourceEnds
  <2>1. /\ eng.playing /\ eng.src # <<>> /\ eng'.src = Tail(eng.src) /\ feed' = feed
        /\ eng.src \in Seq(Tracks)
        /\ UNCHANGED <<eng.playing, eng.pos, eng.dur, eng.track, eng.next, eng.loaded, eng.ready,
             eng.ended, eng.failed, eng.alive, eng.cut, eng.ending>>
    BY <1>4 DEF SourceEnds, TypeOK, EngineTypeOK, EngineStates
  <2>2. /\ eng.next # 0 => Len(eng.src) > 1
        /\ eng.pos \in {Tail2, AtEnd} \/ eng.cut \/ feed.state = "dead" \/ Len(eng.src) > 1
    BY <1>4 DEF SourceEnds, TypeOK, EngineTypeOK, EngineStates, Phases, Early, Tail2, AtEnd
  <2>3. \A s \in Seq(Tracks) : s # <<>> /\ Len(s) > 1 => Tail(s) # <<>> /\ Last(Tail(s)) = Last(s)
    <3> SUFFICES ASSUME NEW s \in Seq(Tracks), s # <<>>, Len(s) > 1
                 PROVE  Tail(s) # <<>> /\ Last(Tail(s)) = Last(s)
      OBVIOUS
    <3>1. /\ Tail(s) \in Seq(Tracks) /\ Len(s) \in Nat /\ Len(Tail(s)) = Len(s) - 1
          /\ \A i \in 1..Len(Tail(s)) : Tail(s)[i] = s[i + 1]
      BY HeadTailProperties, LenProperties
    <3>2. Tail(s)[Len(s) - 1] = s[Len(s)]
      BY <3>1
    <3> QED
      BY <3>1, <3>2 DEF Last
  <2>4. Len(eng.src) > 1 => eng'.src # <<>> /\ Last(eng'.src) = Last(eng.src)
    BY <2>1, <2>3
  <2>5. Orderly'
    BY <1>1, <2>1, <2>2, <2>4 DEF Running, Orderly, Begun
  <2>6. (Fills' => Fills) /\ (Sounds' => Sounds)
    BY <1>1, <2>1 DEF Fills, Sounds, AtRest
  <2>7. FillsOK => FillsOK'
    BY <1>1, <2>1 DEF FillsOK, Behind
  <2>8. ASSUME NEW t, t = eng.track, SoundsOK(t) PROVE SoundsOK(t)'
    <3>1. HasRow(t)'
      BY <1>1, <2>1, <2>2, <2>4, <2>8 DEF SoundsOK, HasRow
    <3>2. InLine(t)' /\ Seen(t)' /\ (queue.cur # t => HandedOff(t)')
      BY <1>1, <2>1, <2>8 DEF SoundsOK, InLine, Seen, HandedOff, Young
    <3> QED
      BY <1>1, <2>1, <3>1, <3>2 DEF SoundsOK
  <2> QED
    BY <1>2, <2>1, <2>5, <2>6, <2>7, <2>8 DEF Running
<1>5. CASE FeederDone
  <2>1. feed.state = "open" /\ feed' = NoFeed /\ UNCHANGED eng
    BY <1>5 DEF FeederDone
  <2>2. Orderly'
    BY <1>1, <2>1 DEF Running, Orderly, Begun
  <2>3. (Fills' => Fills) /\ (Sounds' => Sounds)
    BY <1>1, <2>1 DEF Fills, Sounds, AtRest
  <2>4. FillsOK => FillsOK'
    BY <1>1, <2>1 DEF FillsOK, Behind, NoFeed
  <2>5. SoundsOK(eng.track) => SoundsOK(eng.track)'
    BY <1>1, <2>1 DEF SoundsOK, HasRow, InLine, Seen, HandedOff, Young, EndIsSeen, NearlyOver, NoFeed
  <2> QED
    BY <1>2, <2>1, <2>2, <2>3, <2>4, <2>5 DEF Running
<1> QED
  BY <1>3, <1>4, <1>5

\* A download fails of the row that sounds and that the loop has seen.
LEMMA FailureRuns ==
  ASSUME TypeOK, TypeOK', Running, FeederFails, drv.last.track = feed.track,
         UNCHANGED <<queue, drv, ticked>>
  PROVE  Running'
<1>1. /\ UNCHANGED <<cmds, busy, intent, loads, fetches>> /\ (Buffering' <=> Buffering)
      /\ feed.state = "open" /\ feed'.state = "dead" /\ feed'.track = feed.track
      /\ eng'.failed = feed.track
      /\ UNCHANGED <<eng.playing, eng.pos, eng.dur, eng.track, eng.next, eng.loaded, eng.ready,
           eng.ended, eng.alive, eng.src, eng.cut, eng.ending>>
  BY DEF FeederFails, Buffering, TypeOK, EngineTypeOK, EngineStates
<1>2. OnePlay'
  BY <1>1 DEF Running, OnePlay, Begun
<1>3. Orderly'
  BY <1>1 DEF Running, Orderly, Begun, NoEvent, NoFeed
<1>4. (Fills' => Fills) /\ (Sounds' => Sounds)
  BY <1>1 DEF Fills, Sounds, AtRest
<1>5. FillsOK => FillsOK'
  BY <1>1 DEF FillsOK, Behind
<1>6. ASSUME NEW t, t = eng.track, SoundsOK(t) PROVE SoundsOK(t)'
  <2>1. queue.cur = t /\ feed.track = t /\ t # 0
    BY <1>1, <1>6 DEF SoundsOK, HandedOff, HasRow, NoFeed
  <2>2. HasRow(t)' /\ InLine(t)'
    BY <1>1, <1>6, <2>1 DEF SoundsOK, HasRow, InLine
  <2>3. Seen(t)'
    BY <1>1, <1>6, <2>1 DEF SoundsOK, Seen, Young
  <2> QED
    BY <1>1, <2>1, <2>2, <2>3 DEF SoundsOK, EndIsSeen
<1> QED
  BY <1>1, <1>2, <1>3, <1>4, <1>5, <1>6 DEF Running

\* A position moves on by one phase between two ticks, or while a tick waits.
LEMMA TimeRuns ==
  ASSUME TypeOK, TypeOK', Running, TimePasses
  PROVE  Running'
<1>1. /\ eng.playing /\ eng.pos # AtEnd /\ eng'.pos = eng.pos + 1
      /\ UNCHANGED <<cmds, busy, intent, feed, loads, fetches, queue, drv>> /\ (Buffering' <=> Buffering)
      /\ UNCHANGED <<eng.playing, eng.dur, eng.track, eng.next, eng.loaded, eng.ready,
           eng.ended, eng.failed, eng.alive, eng.src, eng.cut, eng.ending>>
      /\ \/ drv.pc = "idle" /\ ticked /\ ~ticked'
         \/ drv.pc = "waiting"
  BY DEF TimePasses, Elapse, Buffering, TypeOK, EngineTypeOK, EngineStates
<1>2. OnePlay'
  BY <1>1 DEF Running, OnePlay, Begun
<1>3. Orderly'
  BY <1>1 DEF Running, Orderly, Begun
<1>4. (Fills' => Fills) /\ (Sounds' => Sounds)
  BY <1>1 DEF Fills, Sounds, AtRest
<1>5. FillsOK => FillsOK'
  BY <1>1 DEF FillsOK, Behind
<1>6. ASSUME NEW t, t = eng.track, SoundsOK(t) PROVE SoundsOK(t)'
  <2>1. /\ eng.pos = Early => eng'.pos = Window
        /\ eng.pos \in {Tail2, AtEnd} => eng'.pos = AtEnd
        /\ eng'.pos # Early /\ eng.pos \in {Early, Window, Tail2, AtEnd}
        /\ Early # Window /\ AtEnd # Early
    BY <1>1 DEF TypeOK, EngineTypeOK, EngineStates, Phases, Early, Window, Tail2, AtEnd
  <2>2. HasRow(t)' /\ InLine(t)'
    BY <1>1, <1>6, <2>1 DEF SoundsOK, HasRow, InLine
  <2>3. drv.pc = "idle" /\ Young => Young'
    BY <1>1, <2>1 DEF Young
  <2>4. drv.pc = "waiting" => queue.cur = t /\ drv.last.track = 0
    BY <1>6 DEF SoundsOK, InLine, Running, Orderly, NoEvent
  <2>5. Seen(t)'
    BY <1>1, <1>6, <2>1, <2>3, <2>4 DEF SoundsOK, Seen
  <2>6. queue.cur # t => HandedOff(t)'
    BY <1>1, <1>6, <2>1, <2>3, <2>4 DEF SoundsOK, HandedOff
  <2> QED
    BY <1>1, <2>2, <2>5, <2>6 DEF SoundsOK
<1> QED
  BY <1>1, <1>2, <1>3, <1>4, <1>5, <1>6 DEF Running

------------------------------------------------------------------------------
(* Fetches and loads *)

LEMMA FetchRuns ==
  ASSUME TypeOK, TypeOK', Running, NEW f \in fetches, FetchSteps(f), UNCHANGED <<queue, drv, ticked>>
  PROVE  Running'
<1>1. UNCHANGED <<eng, busy, intent, feed, loads>> /\ f.track \in Tracks /\ drv.pc \in {"idle", "reading"}
  BY DEF FetchSteps, FetchCached, FetchStarts, FetchSends, FetchFails, TypeOK, EngineTypeOK,
         Running, Orderly
<1>2. \A g \in fetches' : g.state # "overtaken" =>
         \E h \in fetches : h.track = g.track /\ h.state # "overtaken"
  <2>1. CASE FetchStarts(f)
    <3>1. /\ f.state = "spawned" /\ f \in [track : Tracks, state : {"spawned", "running", "overtaken"}]
          /\ fetches' = (fetches \ {f}) \cup {[f EXCEPT !.state = "running"]}
      BY <2>1 DEF FetchStarts, TypeOK, EngineTypeOK
    <3>2. [f EXCEPT !.state = "running"].track = f.track
      BY <3>1
    <3> QED
      BY <3>1, <3>2
  <2>2. CASE FetchCached(f) \/ FetchSends(f) \/ FetchFails(f)
    BY <2>2 DEF FetchCached, FetchSends, FetchFails
  <2> QED
    BY <2>1, <2>2 DEF FetchSteps
<1>3. CASE UNCHANGED cmds
  <2>1. Buffering' <=> Buffering
    BY <1>1, <1>3 DEF Buffering
  <2>2. Orderly' /\ OnePlay'
    BY <1>1, <1>3, <2>1 DEF Running, Orderly, OnePlay, Begun
  <2>3. (Fills' => Fills) /\ (Sounds' => Sounds)
    BY <1>1, <1>3, <2>1 DEF Fills, Sounds, AtRest
  <2>4. FillsOK => FillsOK'
    BY <1>1, <1>2, <1>3 DEF FillsOK, Behind
  <2>5. SoundsOK(eng.track) => SoundsOK(eng.track)'
    BY <1>1, <1>2, <1>3 DEF SoundsOK, HasRow, InLine, Seen, HandedOff, Young, EndIsSeen, NearlyOver
  <2> QED
    BY <1>1, <2>2, <2>3, <2>4, <2>5 DEF Running
<1>4. CASE f.state # "overtaken" /\ cmds' = Append(cmds, Command("PlayNext", f.track, TRUE))
  <2> DEFINE c == Command("PlayNext", f.track, TRUE)
  <2>1. c \in Commands /\ c.op = "PlayNext" /\ c.track = f.track /\ ~Fresh(c) /\ ~Outdated(c)
    BY <1>1, CommandTypes DEF Command, Fresh, Outdated, Plays
  <2>2. cmds \in Seq(Commands) /\ intent \in BOOLEAN /\ cmds' = Append(cmds, c)
    BY <1>4 DEF TypeOK, EngineTypeOK
  <2> HIDE DEF c
  <2>3. /\ PlayIn(cmds') <=> PlayIn(cmds)
        /\ StopIn(cmds') <=> StopIn(cmds)
        /\ HeedIn(cmds, intent) => HeedIn(cmds', intent)
        /\ OneIn(cmds) => OneIn(cmds')
        /\ OvertakenIn(cmds) => OvertakenIn(cmds')
    <3>1. PlayIn(cmds') <=> PlayIn(cmds)
      BY <2>1, <2>2, ChannelGrows
    <3>2. StopIn(cmds') <=> StopIn(cmds)
      BY <2>1, <2>2, ChannelGrows
    <3>3. HeedIn(cmds, intent) => HeedIn(cmds', intent)
      BY <2>1, <2>2, HeedGrows
    <3>4. OneIn(cmds) => OneIn(cmds')
      BY <2>1, <2>2, ChannelGrows
    <3>5. OvertakenIn(cmds) => OvertakenIn(cmds')
      BY <2>1, <2>2, ChannelGrows
    <3> QED
      BY <2>2, <3>1, <3>2, <3>3, <3>4, <3>5
  <2>10. ASSUME NEW rows, f.track \in rows, NextsIn(cmds, rows) PROVE NextsIn(cmds', rows)
    BY <2>1, <2>2, <2>10, ChannelGrows
  <2>9. \A row, rows : f.track \in rows => (NewestIn(cmds, row, rows) => NewestIn(cmds', row, rows))
    BY <2>1, <2>2, NewestGrows
  <2>4. Buffering' <=> Buffering
    BY <1>1, <2>3, BufferingIs
  <2>5. Orderly' /\ OnePlay'
    BY <1>1, <2>3, <2>4 DEF Running, Orderly, OnePlay, Begun
  <2>6. (Fills' => Fills) /\ (Sounds' => Sounds)
    BY <1>1, <2>3, <2>4 DEF Fills, Sounds, AtRest
  <2>7. FillsOK => FillsOK'
    BY <1>1, <1>2, <1>4, <2>3, <2>9, <2>10 DEF FillsOK, Behind
  <2>8. ASSUME NEW t, t = eng.track, SoundsOK(t) PROVE SoundsOK(t)'
    <3>1. f.track \in {t, t + 1} \cap Playable /\ (queue.cur # t => f.track = t)
      BY <1>4, <2>8 DEF SoundsOK, InLine, HandedOff, Onward
    <3>2. InLine(t)'
      BY <1>1, <1>2, <2>3, <2>8, <2>10, <3>1 DEF SoundsOK, InLine
    <3>3. queue.cur # t => HandedOff(t)'
      BY <1>1, <1>2, <2>3, <2>8, <2>10, <3>1 DEF SoundsOK, HandedOff, Young
    <3> QED
      BY <1>1, <2>8, <3>2, <3>3 DEF SoundsOK, HasRow, Seen, Young, EndIsSeen, NearlyOver
  <2> QED
    BY <1>1, <2>5, <2>6, <2>7, <2>8 DEF Running
<1> QED
  BY <1>3, <1>4 DEF FetchSteps, FetchCached, FetchStarts, FetchSends, FetchFails

\* A newer play, or a stop, leaves nothing of the older ones.
LEMMA SupersededFacts ==
  ASSUME TypeOK, Superseded
  PROVE  /\ ~busy'.fresh /\ (busy' # NoPlay => busy # NoPlay) /\ intent' /\ feed' = NoFeed
         /\ fetches = {} => fetches' = {}
         /\ UNCHANGED <<eng.playing, eng.pos, eng.dur, eng.track, eng.next, eng.loaded, eng.ready,
              eng.ended, eng.failed, eng.alive, eng.src, eng.ending>>
<1>1. busy' = [busy EXCEPT !.fresh = FALSE] /\ ~busy'.fresh /\ (busy' # NoPlay => busy # NoPlay)
  <2>1. CASE busy = NoPlay
    BY <2>1 DEF Superseded, NoPlay, Command
  <2>2. CASE busy \in [op : Plays, track : Tracks, fresh : BOOLEAN]
    BY <2>2 DEF Superseded, NoPlay, Command, Plays
  <2> QED
    BY <2>1, <2>2 DEF TypeOK, EngineTypeOK
<1>2. intent' /\ feed' = NoFeed /\ (fetches = {} => fetches' = {})
  BY DEF Superseded
<1>3. UNCHANGED <<eng.playing, eng.pos, eng.dur, eng.track, eng.next, eng.loaded, eng.ready,
              eng.ended, eng.failed, eng.alive, eng.src, eng.ending>>
  BY DEF Superseded, TypeOK, EngineTypeOK, EngineStates
<1> QED
  BY <1>1, <1>2, <1>3

\* A stop is the last that the thread is told.
LEMMA StopFacts ==
  ASSUME TypeOK, HeedIn(cmds, intent), Superseded, cmds' = Append(Stale(cmds), Command("Stop", 0, TRUE))
  PROVE  /\ ~Buffering' /\ StopIn(cmds') /\ HeedIn(cmds', intent') /\ OneIn(cmds') /\ OvertakenIn(cmds')
<1> DEFINE c == Command("Stop", 0, TRUE)
           q == Stale(cmds)
<1>1. c \in Commands /\ c.op = "Stop" /\ ~Fresh(c)
  BY CommandTypes DEF Command, Fresh, Plays
<1>2. q \in Seq(Commands) /\ cmds \in Seq(Commands) /\ intent \in BOOLEAN /\ cmds' = Append(q, c)
  BY StaleTypes DEF TypeOK, EngineTypeOK
<1>3. ~PlayIn(q) /\ OneIn(q) /\ HeedIn(q, TRUE)
  <2>1. q = Stale(cmds)
    OBVIOUS
  <2> HIDE DEF q
  <2> QED
    BY <1>2, <2>1, ChannelAges
<1> HIDE DEF c, q
<1>4. ~PlayIn(cmds') /\ StopIn(cmds') /\ HeedIn(cmds', TRUE) /\ OneIn(cmds') /\ OvertakenIn(cmds')
  BY <1>1, <1>2, <1>3, ChannelGrows, HeedGrows
<1>5. ~busy'.fresh /\ intent' = TRUE
  BY SupersededFacts DEF Superseded
<1> QED
  BY <1>4, <1>5, BufferingIs

LEMMA BeginRuns ==
  ASSUME TypeOK, TypeOK', Running, BeginLoad(Driver), UNCHANGED <<queue, drv, ticked>>
  PROVE  Running'
<1>1. /\ loads[Driver].stage = "asked" /\ Superseded /\ cmds' = Stale(cmds)
      /\ loads[Driver] \in LoadStates /\ User \in Callers /\ Driver \in Callers /\ User # Driver
      /\ intent \in BOOLEAN /\ cmds \in Seq(Commands) /\ loads[User] = NoLoad
  BY DriverAssumption DEF BeginLoad, TypeOK, EngineTypeOK, Running, Orderly
<1>2. /\ loads'[Driver].stage = "begun" /\ loads'[Driver].fresh /\ loads'[Driver].track = loads[Driver].track
      /\ loads'[User] = NoLoad
  <2>1. /\ loads \in [Callers -> LoadStates] /\ [NoLoad EXCEPT !.fresh = FALSE] = NoLoad
        /\ loads' = [StaleLoads EXCEPT ![Driver].stage = "begun", ![Driver].fresh = TRUE]
    <3>1. NoLoad \in [stage : {"none"}, track : {0}, fresh : {FALSE}, skips : {0}]
      BY DEF NoLoad
    <3>2. [NoLoad EXCEPT !.fresh = FALSE] = NoLoad
      BY <3>1
    <3> QED
      BY <3>2 DEF BeginLoad, TypeOK, EngineTypeOK
  <2>2. /\ StaleLoads \in [Callers -> LoadStates] /\ StaleLoads[User] = NoLoad
        /\ StaleLoads[Driver] = [loads[Driver] EXCEPT !.fresh = FALSE]
    BY <1>1, <2>1, StaleTypes DEF StaleLoads
  <2>3. StaleLoads[Driver].track = loads[Driver].track /\ StaleLoads[Driver] \in LoadStates
    BY <1>1, <2>2 DEF LoadStates
  <2>4. loads' = [StaleLoads EXCEPT
                   ![Driver] = [[StaleLoads[Driver] EXCEPT !.stage = "begun"] EXCEPT !.fresh = TRUE]]
    BY <2>1, <2>2
  <2> QED
    BY <1>1, <2>2, <2>3, <2>4 DEF LoadStates
<1>3. ~PlayIn(cmds') /\ OneIn(cmds') /\ HeedIn(cmds', TRUE) /\ ~Buffering'
  BY <1>1, ChannelAges, SupersededFacts, BufferingIs DEF Running, Orderly
<1>4. loads[Driver] # NoLoad /\ loads'[Driver] # NoLoad /\ intent' = TRUE
  BY <1>1, <1>2 DEF NoLoad, Superseded
<1>5. Orderly'
  BY <1>1, <1>2, <1>3, <1>4, SupersededFacts DEF Running, Orderly, Begun
<1>6. OnePlay' /\ ~AtRest'
  BY <1>2, <1>3, <1>4, SupersededFacts DEF OnePlay, AtRest, Begun
<1> QED
  BY <1>5, <1>6 DEF Running, Fills, Sounds

LEMMA FinishRuns ==
  ASSUME TypeOK, TypeOK', Running, FinishLoad(Driver), UNCHANGED <<queue, drv, ticked>>
  PROVE  Running'
<1>1. PICK op \in Plays :
        /\ cmds' = Append(cmds, Command(op, loads[Driver].track, TRUE))
        /\ feed' \in {feed, [track |-> loads[Driver].track, state |-> "open"]}
  BY DEF FinishLoad, Plays
<1>2. /\ Begun /\ loads' = [loads EXCEPT ![Driver] = NoLoad] /\ UNCHANGED <<eng, busy, intent, fetches>>
      /\ loads[Driver] \in LoadStates /\ loads \in [Callers -> LoadStates]
      /\ User \in Callers /\ Driver \in Callers /\ User # Driver
      /\ intent \in BOOLEAN /\ cmds \in Seq(Commands) /\ loads[User] = NoLoad
  BY DriverAssumption DEF FinishLoad, Begun, TypeOK, EngineTypeOK, Running, Orderly
<1> DEFINE c == Command(op, loads[Driver].track, TRUE)
<1>3. loads[Driver].track \in Tracks /\ c \in Commands /\ Fresh(c) /\ c.track = loads[Driver].track
      /\ c.op \notin {"Resume", "Pause", "PlayNext"}
  <2>1. loads[Driver].track \in Tracks
    BY <1>2 DEF LoadStates, Ids, Begun
  <2> QED
    BY <2>1, CommandTypes DEF Command, Fresh, Plays
<1>4. cmds' = Append(cmds, c)
  BY <1>1
<1> HIDE DEF c
<1>5. ~busy.fresh /\ ~PlayIn(cmds) /\ OneIn(cmds) /\ HeedIn(cmds, intent)
  BY <1>2, BufferingIs DEF Running, OnePlay, Orderly
<1>6. /\ PlayIn(cmds') /\ OneIn(cmds') /\ OvertakenIn(cmds') /\ HeedIn(cmds', intent)
      /\ NewestIn(cmds', loads[Driver].track, Behind)
  <2>1. PlayIn(cmds')
    BY <1>2, <1>3, <1>4, ChannelGrows
  <2>3. OneIn(cmds')
    BY <1>2, <1>3, <1>4, <1>5, ChannelGrows
  <2>4. OvertakenIn(cmds')
    BY <1>2, <1>3, <1>4, ChannelGrows
  <2>5. HeedIn(cmds', intent)
    BY <1>2, <1>3, <1>4, <1>5, HeedGrows
  <2>2. ASSUME NEW row, row = loads[Driver].track, NEW rows PROVE NewestIn(cmds', row, rows)
    BY <1>2, <1>3, <1>4, <1>5, <2>2, NewestGrows DEF Fresh, Plays
  <2> QED
    BY <1>2, <1>5, <2>1, <2>2, <2>3, <2>4, <2>5
<1>7. loads'[Driver] = NoLoad /\ loads'[User] = NoLoad /\ Buffering'
  BY <1>2, <1>6, BufferingIs
<1>8. loads[Driver].track = queue.cur /\ feed = NoFeed /\ drv.pc = "waiting"
      /\ fetches = {} /\ drv.last = NoEvent /\ eng.failed = 0
  BY <1>2 DEF Running, Orderly, Begun, NoLoad
<1>9. Orderly'
  BY <1>2, <1>6, <1>7, <1>8 DEF Running, Orderly, Begun, NoLoad
<1>10. OnePlay'
  BY <1>2, <1>5, <1>6, <1>7 DEF OnePlay, Begun, NoLoad
<1>11. FillsOK'
  <2>1. feed'.state \in {"none", "open"} /\ (feed'.state = "open" => feed'.track = queue.cur)
    BY <1>1, <1>8 DEF NoFeed
  <2>2. NewestIn(cmds', queue.cur, Behind) /\ UNCHANGED Behind
    BY <1>6, <1>8 DEF Behind
  <2>3. drv.last.track = 0
    BY <1>8 DEF NoEvent
  <2> QED
    BY <1>2, <1>5, <1>8, <2>1, <2>2, <2>3 DEF FillsOK
<1> QED
  BY <1>7, <1>9, <1>10, <1>11 DEF Running, Sounds
------------------------------------------------------------------------------
(* The loop *)

LEMMA ReadRuns ==
  ASSUME TypeOK, TypeOK', Running, ReadTransport
  PROVE  Running'
<1>1. /\ drv.pc = "idle" /\ drv'.pc = "reading" /\ drv'.ev = Sample /\ drv'.last = drv.last
      /\ UNCHANGED <<eng, cmds, busy, intent, feed, loads, fetches, queue, ticked>>
      /\ (Buffering' <=> Buffering)
  BY DEF ReadTransport, engineVars, TypeOK, Buffering
<1>2. /\ drv'.ev.playing = eng.playing /\ drv'.ev.pos = eng.pos /\ drv'.ev.dur = eng.dur
      /\ drv'.ev.track = eng.track /\ drv'.ev.buffering = Buffering
  BY <1>1 DEF Sample
<1>3. Orderly' /\ OnePlay'
  BY <1>1 DEF Running, Orderly, OnePlay, Begun
<1>4. (Fills' => Fills) /\ (Sounds' => Sounds)
  BY <1>1 DEF Fills, Sounds, AtRest
<1>5. Fills /\ FillsOK => FillsOK'
  BY <1>1, <1>2 DEF Fills, FillsOK, Behind
<1>6. ASSUME Sounds, NEW t, t = eng.track, SoundsOK(t) PROVE SoundsOK(t)'
  <2>1. ~Buffering
    BY <1>6 DEF Sounds
  <2>2. HasRow(t)' /\ InLine(t)'
    BY <1>1, <1>6 DEF SoundsOK, HasRow, InLine
  <2>3. Seen(t)'
    BY <1>1, <1>2, <1>6 DEF SoundsOK, HasRow, Seen, Young, Tail2, AtEnd
  <2>4. queue.cur # t => HandedOff(t)'
    <3>1. Young => eng.playing
      BY <1>6 DEF SoundsOK, HasRow, Young, Early, Window, AtEnd
    <3> QED
      BY <1>1, <1>2, <1>6, <2>1, <3>1 DEF SoundsOK, HandedOff, Young
  <2>5. ~eng.playing => EndIsSeen(t)'
    BY <1>1, <1>2, <1>6 DEF SoundsOK, HasRow, EndIsSeen, NearlyOver
  <2> QED
    BY <1>1, <2>2, <2>3, <2>4, <2>5 DEF SoundsOK
<1> QED
  BY <1>1, <1>3, <1>4, <1>5, <1>6 DEF Running

LEMMA EndTickRuns ==
  ASSUME TypeOK, TypeOK', Running, EndTick
  PROVE  Running'
<1>1. /\ drv.pc = "waiting" /\ drv'.pc = "idle" /\ drv'.last = drv.last /\ loads[Driver] = NoLoad
      /\ ticked'
      /\ UNCHANGED <<eng, cmds, busy, intent, feed, loads, fetches, queue>>
      /\ (Buffering' <=> Buffering)
  BY DEF EndTick, engineVars, TypeOK, Buffering
<1>2. Orderly' /\ OnePlay'
  BY <1>1 DEF Running, Orderly, OnePlay, Begun
<1>3. (Fills' => Fills) /\ (Sounds' => Sounds)
  BY <1>1 DEF Fills, Sounds, AtRest
<1>4. FillsOK => FillsOK'
  <2>1. Behind = {}
    BY <1>1 DEF Behind
  <2>2. ASSUME NEW rows PROVE /\ NextsIn(cmds, {}) => NextsIn(cmds, rows)
                              /\ NewestIn(cmds, queue.cur, {}) => NewestIn(cmds, queue.cur, rows)
    BY DEF NextsIn, NewestIn
  <2> QED
    BY <1>1, <2>1, <2>2 DEF FillsOK
<1>5. ASSUME NEW t, t = eng.track, SoundsOK(t) PROVE SoundsOK(t)'
  <2>1. queue.cur = t /\ drv.last.track = 0 /\ ~drv.last.playing /\ eng.failed = 0
    BY <1>1, <1>5 DEF SoundsOK, InLine, Running, Orderly, NoEvent
  <2> QED
    BY <1>1, <1>5, <2>1 DEF SoundsOK, HasRow, InLine, Seen, EndIsSeen, NearlyOver
<1> QED
  BY <1>1, <1>2, <1>3, <1>4, <1>5 DEF Running

LEMMA AdvanceRuns ==
  ASSUME TypeOK, TypeOK', Running, Advance
  PROVE  Running'
<1>1. /\ drv.pc = "advance" /\ drv'.pc = "waiting" /\ drv'.last = drv.last
      /\ UNCHANGED <<eng, cmds, busy, intent, feed, fetches, queue>>
      /\ (Buffering' <=> Buffering) /\ Driver \in Callers /\ User \in Callers /\ User # Driver
      /\ loads \in [Callers -> LoadStates]
      /\ loads' = [loads EXCEPT ![Driver] = [NoLoad EXCEPT !.stage = "walking"]]
  BY DriverAssumption DEF Advance, TypeOK, EngineTypeOK, Buffering
<1>2. loads'[Driver].stage = "walking" /\ loads'[User] = loads[User] /\ loads[Driver] = NoLoad
  BY <1>1 DEF NoLoad, Running, Orderly
<1>3. loads'[Driver] # NoLoad
  BY <1>2 DEF NoLoad
<1>4. Orderly' /\ OnePlay'
  BY <1>1, <1>2 DEF Running, Orderly, OnePlay, Begun, NoLoad
<1> QED
  BY <1>3, <1>4 DEF Running, Fills, Sounds, AtRest

LEMMA PauseRuns ==
  ASSUME TypeOK, TypeOK', Running, Transport("Pause"),
         UNCHANGED <<eng, busy, feed, loads, fetches, queue.cur>>,
         UNCHANGED <<drv.pc, drv.last>> \/ (drv.pc = "halt" /\ drv'.pc = "idle")
  PROVE  Running'
<1> DEFINE c == Command("Pause", 0, TRUE)
<1>1. c \in Commands /\ c.op = "Pause" /\ ~Fresh(c) /\ ~Outdated(c)
  BY CommandTypes DEF Command, Fresh, Outdated, Plays
<1>2. cmds \in Seq(Commands) /\ intent' = FALSE /\ cmds' = Append(cmds, c)
  BY DEF Transport, TypeOK, EngineTypeOK
<1> HIDE DEF c
<1>3. HeedIn(cmds, FALSE)
  BY DEF Running, Orderly, HeedIn
<1>4. HeedIn(cmds', intent')
  BY <1>1, <1>2, <1>3, HeedGrows
<1>5. PlayIn(cmds') <=> PlayIn(cmds)
  BY <1>1, <1>2, ChannelGrows
<1>6. StopIn(cmds') <=> StopIn(cmds)
  BY <1>1, <1>2, ChannelGrows
<1>7. OneIn(cmds) => OneIn(cmds')
  BY <1>1, <1>2, ChannelGrows
<1>8. OvertakenIn(cmds) => OvertakenIn(cmds')
  BY <1>1, <1>2, ChannelGrows
<1>9. Buffering' <=> Buffering
  BY <1>5, BufferingIs
<1>10. Orderly'
  BY <1>4 DEF Running, Orderly, Begun
<1>11. OnePlay'
  BY <1>5, <1>6, <1>7, <1>8, <1>9 DEF Running, OnePlay, Begun
<1> QED
  BY <1>2, <1>10, <1>11 DEF Running, Fills, Sounds, AtRest

LEMMA HaltRuns ==
  ASSUME TypeOK, TypeOK', Running, Halt
  PROVE  Running'
<1>1. drv.pc = "halt" /\ UNCHANGED <<eng, busy, feed, loads, fetches, queue.cur>>
  BY DEF Halt, TypeOK
<1>2. CASE queue.stop = drv.cur
  <2>1. Transport("Pause") /\ drv'.pc = "idle"
    BY <1>2 DEF Halt, TypeOK
  <2> QED
    BY <1>1, <2>1, PauseRuns
<1>3. CASE queue.stop # drv.cur
  <2>1. drv'.pc = "advance" /\ drv'.last = drv.last /\ UNCHANGED <<cmds, intent>>
        /\ (Buffering' <=> Buffering)
    BY <1>1, <1>3 DEF Halt, TypeOK, Buffering
  <2>2. Orderly' /\ OnePlay'
    BY <1>1, <2>1 DEF Running, Orderly, OnePlay, Begun
  <2> QED
    BY <2>1, <2>2 DEF Running, Fills, Sounds, AtRest
<1> QED
  BY <1>2, <1>3

\* A stop that no load outlives.
LEMMA StopRuns ==
  ASSUME TypeOK, TypeOK', Running, Superseded,
         cmds' = Append(Stale(cmds), Command("Stop", 0, TRUE)),
         \A c \in Callers : loads'[c] = NoLoad,
         drv'.pc = "idle" \/ (fetches = {} /\ drv'.last = NoEvent /\ eng.failed = 0)
  PROVE  Running'
<1>1. Driver \in Callers /\ User \in Callers
  BY DriverAssumption
<1>2. ~Buffering' /\ StopIn(cmds') /\ HeedIn(cmds', intent') /\ OneIn(cmds') /\ OvertakenIn(cmds')
  BY StopFacts DEF Running, Orderly
<1>3. Orderly'
  <2>1. loads'[User] = NoLoad /\ loads'[Driver] = NoLoad /\ NoLoad.stage = "none"
    BY <1>1 DEF NoLoad
  <2>2. drv'.pc \notin {"idle", "reading"} => fetches' = {} /\ drv'.last = NoEvent /\ eng'.failed = 0
    BY SupersededFacts
  <2>3. /\ eng'.ending => ~eng'.playing /\ busy' = NoPlay
        /\ eng'.next # 0 => eng'.src # <<>> /\ Last(eng'.src) = eng'.next
        /\ eng'.src # <<>> => eng'.alive
        /\ busy' # NoPlay => eng'.next = 0 /\ ~eng'.ready /\ eng'.src = <<>>
    BY SupersededFacts DEF Running, Orderly
  <2> QED
    BY <1>2, <2>1, <2>2, <2>3 DEF Orderly, Begun
<1>4. OnePlay'
  BY <1>1, <1>2, BufferingIs DEF OnePlay, Begun, NoLoad
<1> QED
  BY <1>2, <1>3, <1>4 DEF Running, Fills, Sounds

LEMMA FinishTickRuns ==
  ASSUME TypeOK, TypeOK', Running, Finish
  PROVE  Running'
<1>1. \A c \in Callers : loads[c] = NoLoad
  BY DriverAssumption DEF Finish, Running, Orderly
<1>2. \A c \in Callers : loads'[c] = NoLoad
  <2>1. NoLoad \in [stage : {"none"}, track : {0}, fresh : {FALSE}, skips : {0}]
    BY DEF NoLoad
  <2>2. [NoLoad EXCEPT !.fresh = FALSE] = NoLoad
    BY <2>1
  <2> QED
    BY <1>1, <2>2 DEF Finish, Stop, StaleLoads
<1>3. drv'.pc = "idle" /\ Superseded /\ cmds' = Append(Stale(cmds), Command("Stop", 0, TRUE))
  BY DEF Finish, Stop, TypeOK
<1> QED
  BY <1>2, <1>3, StopRuns

LEMMA WalkRuns ==
  ASSUME TypeOK, TypeOK', Running, Walk(Driver)
  PROVE  Running'
<1> DEFINE t == NextRow(queue.cur)
<1>1. /\ loads[Driver].stage = "walking" /\ drv.pc = "waiting" /\ loads[User] = NoLoad
      /\ Driver \in Callers /\ User \in Callers /\ User # Driver /\ loads \in [Callers -> LoadStates]
      /\ fetches = {} /\ drv.last = NoEvent /\ eng.failed = 0 /\ ~Begun
      /\ queue'.cur = t /\ Callers = {Driver, User}
  BY DriverAssumption DEF Walk, TypeOK, EngineTypeOK, Running, Orderly, NoLoad, Begun
<1> HIDE DEF t
<1>2. CASE /\ UNCHANGED <<eng, cmds, busy, intent, feed, fetches, drv.last>>
           /\ loads'[User] = NoLoad
           /\ \/ loads'[Driver] = NoLoad /\ drv'.pc = "finish"
              \/ /\ drv'.pc = "waiting" /\ loads'[Driver].stage \in {"walking", "asked"}
                 /\ loads'[Driver].stage = "asked" => loads'[Driver].track = t
  <2>1. Buffering' <=> Buffering
    BY <1>2 DEF Buffering
  <2>2. Orderly' /\ OnePlay'
    BY <1>1, <1>2, <2>1 DEF Running, Orderly, OnePlay, Begun, NoLoad
  <2>3. ~AtRest'
    BY <1>2 DEF AtRest, NoLoad
  <2> QED
    BY <2>2, <2>3 DEF Running, Fills, Sounds
<1>3. CASE /\ Superseded /\ loads' = [StaleLoads EXCEPT ![Driver] = NoLoad]
           /\ cmds' = Append(Stale(cmds), Command("Stop", 0, TRUE))
           /\ drv' = [drv EXCEPT !.pc = "finish"]
  <2>1. NoLoad \in [stage : {"none"}, track : {0}, fresh : {FALSE}, skips : {0}]
    BY DEF NoLoad
  <2>2. [NoLoad EXCEPT !.fresh = FALSE] = NoLoad
    BY <2>1
  <2>3. StaleLoads[User] = NoLoad /\ StaleLoads \in [Callers -> LoadStates]
    BY <1>1, <2>2, StaleTypes DEF StaleLoads
  <2>4. loads'[User] = NoLoad /\ loads'[Driver] = NoLoad
    BY <1>1, <1>3, <2>3
  <2>5. drv'.last = NoEvent
    BY <1>1, <1>3 DEF TypeOK
  <2> QED
    BY <1>1, <1>3, <2>4, <2>5, StopRuns
<1>4. CASE UNCHANGED <<eng, cmds, busy, intent, feed, fetches>>
  <2>1. NoLoad \in [stage : {"none"}, track : {0}, fresh : {FALSE}, skips : {0}]
    BY DEF NoLoad
  <2>2. \/ loads' = [loads EXCEPT ![Driver] = NoLoad] /\ NothingFound(Driver)
        \/ /\ loads' = [loads EXCEPT ![Driver] = [NoLoad EXCEPT !.stage = "asked", !.track = t]]
           /\ UNCHANGED drv
        \/ loads' = [loads EXCEPT ![Driver].skips = loads[Driver].skips + 1] /\ UNCHANGED drv
        \/ Superseded /\ loads' = [StaleLoads EXCEPT ![Driver] = NoLoad]
           /\ cmds' = Append(Stale(cmds), Command("Stop", 0, TRUE)) /\ NothingFound(Driver)
    BY DEF Walk, t
  <2>3. CASE loads' = [loads EXCEPT ![Driver] = NoLoad] /\ NothingFound(Driver)
    BY <1>1, <1>2, <1>4, <2>3 DEF NothingFound, TypeOK
  <2>4. CASE /\ loads' = [loads EXCEPT ![Driver] = [NoLoad EXCEPT !.stage = "asked", !.track = t]]
             /\ UNCHANGED drv
    BY <1>1, <1>2, <1>4, <2>1, <2>4
  <2>5. CASE loads' = [loads EXCEPT ![Driver].skips = loads[Driver].skips + 1] /\ UNCHANGED drv
    <3>1. loads'[Driver].stage = "walking" /\ loads'[User] = NoLoad
      BY <1>1, <2>5 DEF LoadStates
    <3> QED
      BY <1>1, <1>2, <1>4, <2>5, <3>1
  <2> QED
    BY <1>3, <2>2, <2>3, <2>4, <2>5 DEF NothingFound
<1> QED
  BY <1>3, <1>4 DEF Walk, NothingFound

\* The next row, if it can be played, is the first that can.
LEMMA NextIsFirst ==
  ASSUME NEW row \in Ids, NEW t \in Onward(row)
  PROVE  FirstPlayable(row) = t
<1>1. t = row + 1 /\ t \in Playable /\ Playable \subseteq Nat /\ Tracks \subseteq Nat /\ row \in Nat
      /\ t \in Tracks
  BY RowsAreNumbers, DriverAssumption DEF Onward
<1> DEFINE S == Ahead(row) \cap Playable
<1>3. t \in S /\ \A u \in S : t <= u /\ u \in Nat
  BY <1>1 DEF Ahead
<1> HIDE DEF S
<1>4. PICK m : m = Min(S)
  OBVIOUS
<1>5. m \in S /\ t <= m /\ m <= t
  BY <1>3, <1>4 DEF Min
<1>6. m = t
  BY <1>1, <1>3, <1>5
<1> QED
  BY <1>3, <1>4, <1>6 DEF FirstPlayable, S

\* What a plan does that takes its event for a hand-off to sync (0 for none), asks
\* for the row arm (0 for none), and finds the row ended or not.
Planned(ev, last, sync, arm, ended) ==
    /\ arm # 0 => sync = 0 /\ eng.ready
    /\ drv'.pc = (IF ended THEN EndPlan ELSE "idle") /\ drv'.ev = NoEvent
    /\ drv'.last = IF sync # 0 THEN ev ELSE Carried(ev, last, ended)
    /\ sync = 0 /\ ~ended => \A f \in fetches' : f \in fetches \/ (f.track = arm /\ arm # 0)
    /\ sync # 0 => fetches' = {}
    /\ queue'.cur = IF sync = 0 THEN queue.cur ELSE Synced(sync)
    /\ ~ended => ticked'
    /\ drv.pc = "reading" /\ eng'.ended = 0 /\ eng'.failed = 0
    /\ UNCHANGED <<cmds, busy, intent, feed, loads, eng.playing, eng.pos, eng.dur, eng.track,
         eng.next, eng.loaded, eng.ready, eng.alive, eng.src, eng.cut, eng.ending>>

LEMMA PlanFacts ==
  ASSUME TypeOK, Plan
  PROVE  \E ev \in {drv.ev}, last \in {drv.last}, near \in NearEnd(drv.ev, drv.last),
           sync \in {SyncTo(drv.ev, drv.last)}, arm \in {0} \cup Onward(queue.cur), ended \in BOOLEAN :
           ended = (sync = 0 /\ Ended(ev, last, near)) /\ Planned(ev, last, sync, arm, ended)
<1>1. PICK near \in NearEnd(drv.ev, drv.last) :
        LET ev == drv.ev
            last == drv.last
            sync == SyncTo(ev, last)
            ended == sync = 0 /\ Ended(ev, last, near)
            arm == IF sync = 0 THEN Arms(ev) ELSE 0
        IN  /\ drv' = [pc |-> IF ended THEN EndPlan ELSE "idle", ev |-> NoEvent,
                       last |-> IF sync # 0 THEN ev ELSE Carried(ev, last, ended),
                       asked |-> IF sync # 0 \/ ended THEN 0
                                 ELSE IF arm # 0 THEN ev.track ELSE drv.asked,
                       cur |-> IF ended THEN queue.cur ELSE 0]
            /\ fetches' = (IF sync = 0 /\ ~ended THEN fetches ELSE {})
                          \cup {[track |-> t, state |-> "spawned"] : t \in {arm} \ {0}}
            /\ queue' = [queue EXCEPT !.cur = IF sync = 0 THEN @ ELSE Synced(sync)]
            /\ ticked' = (ticked \/ ~ended)
  BY DEF Plan
<1>3. PICK sync : sync = SyncTo(drv.ev, drv.last)
  OBVIOUS
<1>4. PICK arm : arm = IF sync = 0 THEN Arms(drv.ev) ELSE 0
  OBVIOUS
<1>5. arm \in {0} \cup Onward(queue.cur) /\ (arm # 0 => sync = 0 /\ eng.ready)
  BY <1>4 DEF Arms, Onward
<1>6. PICK ended \in BOOLEAN : ended = (sync = 0 /\ Ended(drv.ev, drv.last, near))
  OBVIOUS
<1>7. /\ drv' = [pc |-> IF ended THEN EndPlan ELSE "idle", ev |-> NoEvent,
                 last |-> IF sync # 0 THEN drv.ev ELSE Carried(drv.ev, drv.last, ended),
                 asked |-> IF sync # 0 \/ ended THEN 0
                           ELSE IF arm # 0 THEN drv.ev.track ELSE drv.asked,
                 cur |-> IF ended THEN queue.cur ELSE 0]
      /\ fetches' = (IF sync = 0 /\ ~ended THEN fetches ELSE {})
                          \cup {[track |-> t, state |-> "spawned"] : t \in {arm} \ {0}}
      /\ queue' = [queue EXCEPT !.cur = IF sync = 0 THEN @ ELSE Synced(sync)]
      /\ ticked' = (ticked \/ ~ended)
  BY <1>1, <1>3, <1>4, <1>6
<1>8. queue'.cur = IF sync = 0 THEN queue.cur ELSE Synced(sync)
  BY <1>7 DEF TypeOK
<1>9. /\ sync = 0 /\ ~ended => \A f \in fetches' : f \in fetches \/ (f.track = arm /\ arm # 0)
      /\ sync # 0 => fetches' = {}
  <2>1. sync # 0 => arm = 0
    BY <1>5
  <2>2. sync # 0 => fetches' = {}
    BY <1>7, <2>1
  <2>3. ASSUME sync = 0, ~ended, NEW f \in fetches'
        PROVE  f \in fetches \/ (f.track = arm /\ arm # 0)
    BY <1>7, <2>3
  <2> QED
    BY <2>2, <2>3
<1>10. /\ drv.pc = "reading" /\ eng'.ended = 0 /\ eng'.failed = 0
       /\ UNCHANGED <<cmds, busy, intent, feed, loads, eng.playing, eng.pos, eng.dur, eng.track,
                    eng.next, eng.loaded, eng.ready, eng.alive, eng.src, eng.cut, eng.ending>>
  BY DEF Plan, TypeOK, EngineTypeOK, EngineStates
<1>11. /\ drv'.pc = (IF ended THEN EndPlan ELSE "idle") /\ drv'.ev = NoEvent
       /\ drv'.last = IF sync # 0 THEN drv.ev ELSE Carried(drv.ev, drv.last, ended)
       /\ ~ended => ticked'
  BY <1>7
<1> QED
  BY <1>1, <1>3, <1>5, <1>6, <1>8, <1>9, <1>10, <1>11 DEF Planned

LEMMA PlanRuns ==
  ASSUME TypeOK, TypeOK', Running, Plan, ~AsksAtEnd
  PROVE  Running'
<1>1. PICK ev \in {drv.ev}, last \in {drv.last}, near \in NearEnd(drv.ev, drv.last),
           sync \in {SyncTo(drv.ev, drv.last)}, arm \in {0} \cup Onward(queue.cur), ended \in BOOLEAN :
           ended = (sync = 0 /\ Ended(ev, last, near)) /\ Planned(ev, last, sync, arm, ended)
  BY PlanFacts
<1>2. ended = (sync = 0 /\ Ended(ev, last, near))
  BY <1>1
<1>3. /\ arm # 0 => sync = 0 /\ eng.ready
      /\ drv'.pc = IF ended THEN EndPlan ELSE "idle"
      /\ drv'.last = IF sync # 0 THEN ev ELSE Carried(ev, last, ended)
      /\ sync = 0 /\ ~ended => \A f \in fetches' : f \in fetches \/ (f.track = arm /\ arm # 0)
      /\ sync # 0 => fetches' = {}
      /\ queue'.cur = IF sync = 0 THEN queue.cur ELSE Synced(sync)
      /\ ~ended => ticked'
      /\ drv.pc = "reading" /\ eng'.ended = 0 /\ eng'.failed = 0
      /\ UNCHANGED <<cmds, busy, intent, feed, loads, eng.playing, eng.pos, eng.dur, eng.track,
           eng.next, eng.loaded, eng.ready, eng.alive, eng.src, eng.cut, eng.ending>>
  BY <1>1 DEF Planned
<1>4. ev = drv.ev /\ last = drv.last /\ sync = SyncTo(ev, last) /\ near \in NearEnd(ev, last)
  BY <1>1
<1>5. Buffering' <=> Buffering
  BY <1>3 DEF Buffering
<1>6. ended => drv'.pc \in {"halt", "advance", "finish"} /\ drv'.last = NoEvent /\ fetches' = {}
  BY <1>2, <1>3 DEF EndPlan, Carried, AsksAtEnd
<1>7. Orderly' /\ OnePlay'
  BY <1>3, <1>5, <1>6 DEF Running, Orderly, OnePlay, Begun, NoLoad
<1>8. CASE ended
  BY <1>6, <1>7, <1>8 DEF Running, Fills, Sounds, AtRest
<1>9. CASE ~ended
  <2>1. ~SourceFailed \/ sync # 0
    BY <1>2, <1>9 DEF Ended
  <2>2. drv'.pc = "idle" /\ drv'.last = IF sync # 0 THEN ev ELSE Carried(ev, last, FALSE)
    BY <1>3, <1>9
  <2>3. drv'.last = IF sync # 0 \/ ev.track # 0 THEN ev ELSE [last EXCEPT !.playing = ev.playing]
    BY <2>2 DEF Carried
  <2>4. ev.track = 0 => [last EXCEPT !.playing = ev.playing].track = last.track
    BY <1>4 DEF TypeOK, Events
  <2>5. ASSUME Fills' PROVE FillsOK'
    <3>1. Fills /\ FillsOK
      BY <1>3, <1>5, <2>5 DEF Fills, AtRest, Running
    <3>2. ev.track = eng.track /\ (eng.track = 0 \/ ev.buffering) /\ last.track \in {0, eng.track}
      BY <1>3, <1>4, <3>1 DEF FillsOK
    <3>3. sync = 0
      BY <1>4, <3>2 DEF SyncTo, Seamless, MissedEdge
    <3>4. queue.cur # 0
      <4>1. CASE busy.fresh
        BY <3>1, <4>1, RowsAreNumbers DEF FillsOK, TypeOK, EngineTypeOK, NoPlay, Command
      <4>2. CASE PlayIn(cmds)
        <5>1. PICK i \in DOMAIN cmds : Fresh(cmds[i])
          BY <4>2 DEF PlayIn
        <5>2. cmds[i] \in Commands /\ cmds[i].track = queue.cur
          BY <3>1, <5>1 DEF FillsOK, NewestIn, TypeOK, EngineTypeOK
        <5> QED
          BY <5>1, <5>2 DEF Fresh, Commands
      <4> QED
        BY <3>1, <4>1, <4>2, BufferingIs DEF Fills
    <3>5. feed.state # "dead"
      BY <2>1, <3>1, <3>3, <3>4 DEF FillsOK, SourceFailed
    <3>6. queue'.cur = queue.cur /\ Behind' = Behind
      BY <1>3, <2>2, <3>3 DEF Behind
    <3>7. \A f \in fetches' : f.state # "overtaken" => f.track \in Onward(queue.cur)
      BY <1>1, <1>3, <1>9, <3>1, <3>3 DEF FillsOK
    <3>8. drv'.last.track \in {0, eng.track}
      BY <2>3, <2>4, <3>2, <3>3
    <3> QED
      BY <1>3, <2>2, <3>1, <3>5, <3>6, <3>7, <3>8 DEF FillsOK
  <2>6. ASSUME Sounds', NEW t, t = eng.track PROVE SoundsOK(t)'
    <3>1. SoundsOK(t)
      BY <1>3, <1>5, <2>6 DEF Sounds, AtRest, Running
    <3>2. t # 0 /\ eng.failed # t /\ feed.state # "dead"
      <4>1. t # 0 /\ (feed.state = "dead" => eng.failed = t)
        BY <3>1 DEF SoundsOK, HasRow
      <4>2. ASSUME eng.failed = t PROVE FALSE
        <5>1. queue.cur = t /\ last.track = t /\ ev.track = t
          BY <1>3, <1>4, <3>1, <4>1, <4>2 DEF SoundsOK, Seen
        <5>2. sync = 0
          BY <1>4, <5>1 DEF SyncTo, Seamless, MissedEdge
        <5> QED
          BY <2>1, <4>1, <4>2, <5>1, <5>2 DEF SourceFailed
      <4> QED
        BY <4>1, <4>2
    <3>3. HasRow(t)'
      BY <1>3, <3>1, <3>2 DEF SoundsOK, HasRow
    <3>4. eng.pos = Early => Young'
      BY <1>3 DEF Young
    <3>5. Young => eng.playing
      BY <3>1 DEF SoundsOK, HasRow, Young, Early, Window, AtEnd
    <3>6. CASE ev.track # t
      <4>1. eng.pos = Early /\ last.track \in {0, ev.track}
            /\ (ev.track = 0 \/ ev.buffering \/ ev.track = queue.cur)
        BY <1>3, <1>4, <3>1, <3>6 DEF SoundsOK, Seen
      <4>2. sync = 0 /\ ~eng.ready
        BY <1>4, <3>1, <4>1 DEF SyncTo, Seamless, MissedEdge, SoundsOK, HasRow
      <4>3. queue'.cur = queue.cur /\ \A f \in fetches' : f \in fetches
        BY <1>3, <1>9, <4>2
      <4>4. Young /\ Young' /\ eng.playing
        BY <3>4, <3>5, <4>1 DEF Young
      <4>5. InLine(t)'
        BY <1>3, <2>2, <3>1, <4>3 DEF SoundsOK, InLine
      <4>6. Seen(t)'
        BY <1>3, <2>2, <3>2, <4>1, <4>4 DEF Seen, Early, Window, Tail2, AtEnd
      <4>7. queue.cur # t => HandedOff(t)'
        <5>1. queue.cur # t => drv'.last.track # t
          BY <1>4, <2>3, <2>4, <3>1, <3>6 DEF SoundsOK, HandedOff
        <5> QED
          BY <1>3, <2>2, <3>1, <4>3, <4>4, <5>1 DEF SoundsOK, HandedOff
      <4> QED
        BY <1>3, <3>3, <4>3, <4>4, <4>5, <4>6, <4>7 DEF SoundsOK
    <3>7. CASE ev.track = t /\ queue.cur # t
      <4>1. HandedOff(t) /\ ev.playing /\ ~ev.buffering /\ last.track # t /\ Young
        BY <1>3, <1>4, <3>1, <3>7 DEF SoundsOK, HandedOff
      <4>2. queue.cur \in Ids /\ t \in Onward(queue.cur) /\ queue.cur # 0
        BY <4>1 DEF HandedOff, TypeOK
      <4>3. FirstPlayable(queue.cur) = t
        BY <4>2, NextIsFirst
      <4>4. sync = t
        BY <1>4, <3>2, <3>7, <4>1, <4>3 DEF SyncTo, MissedEdge
      <4>5. queue'.cur = t /\ fetches' = {} /\ drv'.last = ev
        BY <1>3, <2>2, <3>2, <4>2, <4>3, <4>4 DEF Synced
      <4>6. t \in Playable
        BY <4>2 DEF Onward
      <4>7. NextsIn(cmds, {t, t + 1} \cap Playable) /\ eng.next \in {0, t}
        BY <4>1, <4>6 DEF HandedOff, NextsIn
      <4>8. InLine(t)'
        BY <1>3, <2>2, <4>5, <4>6, <4>7 DEF InLine
      <4>9. Seen(t)'
        BY <1>3, <2>2, <3>2, <3>7, <4>5 DEF Seen
      <4> QED
        BY <1>3, <3>3, <3>5, <4>1, <4>5, <4>8, <4>9 DEF SoundsOK
    <3>8. CASE ev.track = t /\ queue.cur = t /\ sync # 0
      <4>1. Seamless(ev, last)
        BY <1>4, <3>8 DEF SyncTo, MissedEdge
      <4>2. Young /\ eng.playing
        BY <1>4, <3>1, <3>5, <3>8, <4>1 DEF Seamless, SoundsOK, Seen
      <4>3. queue'.cur = t /\ fetches' = {} /\ drv'.last = ev
        BY <1>3, <1>4, <2>2, <3>8, <4>1 DEF Synced, SyncTo
      <4>4. InLine(t)'
        BY <1>3, <2>2, <3>1, <4>3 DEF SoundsOK, InLine
      <4>5. Seen(t)'
        BY <1>3, <2>2, <3>2, <3>8, <4>3 DEF Seen
      <4> QED
        BY <1>3, <3>3, <4>2, <4>3, <4>4, <4>5 DEF SoundsOK
    <3>9. CASE ev.track = t /\ queue.cur = t /\ sync = 0
      <4>1. queue'.cur = t /\ drv'.last = ev
        BY <1>3, <2>3, <3>2, <3>9
      <4>2. \A f \in fetches' : f.state # "overtaken" => f.track \in Onward(t)
        BY <1>1, <1>3, <1>9, <3>1, <3>9 DEF SoundsOK, InLine
      <4>3. InLine(t)'
        BY <1>3, <2>2, <3>1, <4>1, <4>2 DEF SoundsOK, InLine
      <4>4. Seen(t)'
        BY <1>3, <2>2, <3>2, <3>9, <4>1 DEF Seen
      <4>5. ASSUME ~eng.playing PROVE EndIsSeen(t)'
        <5>1. eng.src = <<>> /\ eng.pos = AtEnd /\ eng.next = 0
          BY <3>1, <4>5 DEF SoundsOK, HasRow, Running, Orderly
        <5>2. ev.dur = t /\ ev.pos \in {Tail2, AtEnd}
          BY <1>3, <1>4, <3>1, <3>2, <5>1 DEF SoundsOK, Seen
        <5>3. CASE ev.playing
          BY <2>2, <3>9, <4>1, <5>2, <5>3 DEF EndIsSeen, NearlyOver
        <5>4. CASE ~ev.playing
          <6>1. ~EngineEmpty(ev) /\ ~(Stopped(ev, last) /\ near)
            BY <1>2, <1>9, <3>9 DEF Ended
          <6>2. eng.ended # t
            BY <3>2, <3>9, <5>1, <5>4, <6>1 DEF EngineEmpty
          <6>3. ~NearlyOver(last, t)
            <7>1. ASSUME NearlyOver(last, t) PROVE FALSE
              <8>1. last.playing /\ last.track = t /\ last.dur = t /\ last.pos >= Tail2
                BY <7>1 DEF NearlyOver, Tail2, AtEnd
              <8>2. near
                BY <1>4, <5>2, <8>1 DEF NearEnd
              <8>3. Stopped(ev, last)
                BY <3>2, <3>9, <5>2, <5>4, <8>1 DEF Stopped
              <8> QED
                BY <6>1, <8>2, <8>3
            <7> QED
              BY <7>1
          <6>4. eng.ending
            BY <1>3, <1>4, <3>1, <3>2, <4>5, <5>4, <6>2, <6>3 DEF SoundsOK, EndIsSeen
          <6> QED
            BY <1>3, <6>4 DEF EndIsSeen
        <5> QED
          BY <5>3, <5>4
      <4> QED
        BY <1>3, <3>3, <4>1, <4>3, <4>4, <4>5 DEF SoundsOK
    <3> QED
      BY <3>6, <3>7, <3>8, <3>9
  <2> QED
    BY <1>3, <1>7, <2>5, <2>6 DEF Running
<1> QED
  BY <1>8, <1>9

\* A step that is no move of the user's and none of the driver's blind spots.
LEMMA StepRuns ==
  ASSUME TypeOK, TypeOK', Running, Steps, ~LostDownload, ~AsksAtEnd
  PROVE  Running'
<1>1. /\ User \in Callers /\ Driver \in Callers /\ Callers = {Driver, User} /\ loads[User] = NoLoad
      /\ NoLoad.stage = "none"
  BY DriverAssumption DEF Running, Orderly, NoLoad
<1>2. CASE DriverSteps
  BY <1>2, ReadRuns, PlanRuns, HaltRuns, FinishTickRuns, AdvanceRuns, EndTickRuns DEF DriverSteps
<1>3. CASE EngineSteps
  <2>1. UNCHANGED <<queue, drv, ticked>>
    BY <1>3 DEF EngineSteps, Mine
  <2>2. CASE ThreadSteps \/ FeederDone \/ SourceEnds
    BY <2>1, <2>2, StartPlayRuns, InstallRuns, AbandonRuns, TransportRuns, AppendRuns, HandOffRuns,
       CheckRuns, SourceRuns DEF ThreadSteps
  <2>3. CASE \E c \in Callers : Loading(c)
    <3>1. ~Loading(User)
      BY <1>1 DEF Loading, BeginLoad, FinishLoad, DropLoad
    <3>2. ~DropLoad(Driver)
      BY DEF DropLoad, Running, Orderly, Begun
    <3> QED
      BY <1>1, <2>1, <2>3, <3>1, <3>2, BeginRuns, FinishRuns DEF Loading
  <2>4. CASE \E f \in fetches : FetchSteps(f)
    BY <2>1, <2>4, FetchRuns
  <2> QED
    BY <1>3, <2>2, <2>3, <2>4 DEF EngineSteps
<1>4. CASE Stays
  <2>1. CASE PauseRoute
    BY <2>1, PauseRuns DEF PauseRoute
  <2>2. CASE \E t \in Playable : MarkRoute(t)
    <3>1. UNCHANGED <<engineVars, drv, ticked, queue.cur>>
      BY <2>2 DEF MarkRoute, TypeOK
    <3>2. (Buffering' <=> Buffering)
      BY <3>1 DEF engineVars, Buffering
    <3>3. Orderly' /\ OnePlay'
      BY <3>1, <3>2 DEF engineVars, Running, Orderly, OnePlay, Begun
    <3>4. (Fills' => Fills) /\ (Sounds' => Sounds)
      BY <3>1, <3>2 DEF engineVars, Fills, Sounds, AtRest
    <3>5. FillsOK => FillsOK'
      BY <3>1 DEF engineVars, FillsOK, Behind
    <3>6. SoundsOK(eng.track) => SoundsOK(eng.track)'
      BY <3>1
         DEF engineVars, SoundsOK, HasRow, InLine, Seen, HandedOff, Young, EndIsSeen, NearlyOver
    <3> QED
      BY <3>1, <3>3, <3>4, <3>5, <3>6 DEF engineVars, Running
  <2> QED
    BY <1>4, <2>1, <2>2 DEF Stays
<1>5. CASE Faults
  <2>1. faults' # faults /\ UNCHANGED <<queue, drv, ticked>>
    BY <1>5 DEF Faults, Fails, Mine, TypeOK
  <2>2. feed' # feed /\ feed.track = drv.last.track
    BY <2>1 DEF LostDownload
  <2>3. FeederFails
    BY <1>5, <2>2 DEF Faults, FailLoad, BufferFails
  <2> QED
    BY <2>1, <2>2, <2>3, FailureRuns
<1>6. CASE TimePasses
  BY <1>6, TimeRuns
<1>7. CASE \E c \in Callers : Walk(c)
  BY <1>1, <1>7, WalkRuns DEF Walk
<1> QED
  BY <1>2, <1>3, <1>4, <1>5, <1>6, <1>7 DEF Steps
------------------------------------------------------------------------------
(* Before the first row of a start, and from there on *)

\* Nothing was ever handed to the thread but pauses and stops; at most the user
\* is loading a row.
Unused ==
    /\ ~eng.playing /\ ~eng.loaded /\ ~eng.ending /\ eng.src = <<>> /\ eng.next = 0
    /\ eng.track = 0 /\ eng.failed = 0 /\ eng.ended = 0
    /\ busy = NoPlay /\ feed = NoFeed /\ fetches = {}
    /\ HeedIn(cmds, intent) /\ \A i \in DOMAIN cmds : cmds[i].op \in {"Pause", "Stop"}
    /\ loads[Driver] = NoLoad
    /\ loads[User].stage \in {"asked", "begun"} => loads[User].track = queue.cur
    /\ drv.pc \in {"idle", "reading"}
    /\ ~drv.ev.playing /\ drv.ev.track = 0 /\ ~drv.last.playing /\ drv.last.track = 0

\* The first row is handed over.
LEMMA FirstRow ==
  ASSUME TypeOK, TypeOK', Unused, FinishLoad(User), UNCHANGED <<queue, drv, ticked>>
  PROVE  Running'
<1>1. PICK op \in Plays :
        /\ cmds' = Append(cmds, Command(op, loads[User].track, TRUE))
        /\ feed' \in {feed, [track |-> loads[User].track, state |-> "open"]}
  BY DEF FinishLoad, Plays
<1>2. /\ loads' = [loads EXCEPT ![User] = NoLoad] /\ UNCHANGED <<eng, busy, intent, fetches>>
      /\ loads[User] \in LoadStates /\ loads \in [Callers -> LoadStates]
      /\ loads[User].stage = "begun" /\ loads[User].track = queue.cur
      /\ User \in Callers /\ Driver \in Callers /\ User # Driver
      /\ intent \in BOOLEAN /\ cmds \in Seq(Commands) /\ loads[Driver] = NoLoad
  BY DriverAssumption DEF FinishLoad, TypeOK, EngineTypeOK, Unused
<1> DEFINE c == Command(op, loads[User].track, TRUE)
<1>3. queue.cur \in Tracks /\ c \in Commands /\ Fresh(c) /\ c.track = queue.cur
      /\ c.op \notin {"Resume", "Pause", "PlayNext"}
  <2>1. loads[User].track \in Tracks
    BY <1>2 DEF LoadStates, Ids
  <2> QED
    BY <1>2, <2>1, CommandTypes DEF Command, Fresh, Plays
<1>4. cmds' = Append(cmds, c)
  BY <1>1
<1> HIDE DEF c
<1>5. ~busy.fresh /\ ~PlayIn(cmds) /\ OneIn(cmds) /\ HeedIn(cmds, intent)
  BY DEF Unused, NoPlay, Command, PlayIn, OneIn, Fresh, Plays
<1>6. /\ PlayIn(cmds') /\ OneIn(cmds') /\ OvertakenIn(cmds') /\ HeedIn(cmds', intent)
      /\ NewestIn(cmds', queue.cur, Behind)
  <2>1. PlayIn(cmds')
    BY <1>2, <1>3, <1>4, ChannelGrows
  <2>2. ASSUME NEW row, row = queue.cur, NEW rows PROVE NewestIn(cmds', row, rows)
    BY <1>2, <1>3, <1>4, <1>5, <2>2, NewestGrows DEF Fresh, Plays
  <2>3. OneIn(cmds')
    BY <1>2, <1>3, <1>4, <1>5, ChannelGrows
  <2>4. OvertakenIn(cmds')
    BY <1>2, <1>3, <1>4, ChannelGrows
  <2>5. HeedIn(cmds', intent)
    BY <1>2, <1>3, <1>4, <1>5, HeedGrows
  <2> QED
    BY <2>1, <2>2, <2>3, <2>4, <2>5
<1>7. loads'[Driver] = NoLoad /\ loads'[User] = NoLoad /\ Buffering'
  BY <1>2, <1>6, BufferingIs
<1>8. Orderly'
  BY <1>2, <1>6, <1>7 DEF Unused, Orderly, Begun, NoLoad
<1>9. OnePlay'
  BY <1>2, <1>5, <1>6, <1>7 DEF Unused, OnePlay, Begun, NoLoad
<1>10. FillsOK'
  <2>1. feed'.state \in {"none", "open"} /\ (feed'.state = "open" => feed'.track = queue.cur)
    BY <1>1, <1>2 DEF NoFeed, Unused
  <2>2. NewestIn(cmds', queue.cur, Behind) /\ UNCHANGED Behind
    BY <1>6 DEF Behind
  <2> QED
    BY <1>2, <1>5, <2>1, <2>2 DEF Unused, FillsOK
<1> QED
  BY <1>7, <1>8, <1>9, <1>10 DEF Running, Sounds

LEMMA UnusedEngine ==
  ASSUME TypeOK, TypeOK', Unused, EngineSteps, ~FinishLoad(User)
  PROVE  Unused'
<1>1. UNCHANGED <<queue, drv>> /\ Callers = {Driver, User} /\ User # Driver
      /\ loads \in [Callers -> LoadStates] /\ cmds \in Seq(Commands) /\ intent \in BOOLEAN
  BY DriverAssumption DEF EngineSteps, Mine, TypeOK, EngineTypeOK
<1>2. ~busy.fresh /\ feed.state = "none" /\ loads[Driver].stage = "none" /\ ~eng.playing /\ ~eng.ending
  BY DEF Unused, NoPlay, Command, NoFeed, NoLoad
<1>3. CASE PauseEngine \/ StopEngine
  <2>1. PICK ops : Takes(ops)
    BY <1>3 DEF PauseEngine, StopEngine
  <2>2. HeedIn(cmds', intent)
    BY <2>1, TakenFacts DEF Unused
  <2>3. \A i \in DOMAIN cmds' : cmds'[i].op \in {"Pause", "Stop"}
    <3>1. \A i \in DOMAIN cmds' : i + 1 \in DOMAIN cmds /\ cmds'[i] = cmds[i + 1]
      BY <1>1, <2>1, HeadTailProperties, LenProperties DEF Takes
    <3> QED
      BY <3>1 DEF Unused
  <2>4. /\ UNCHANGED <<busy, intent, feed, loads, fetches, eng.track, eng.failed, eng.ended, eng.ending>>
        /\ ~eng'.playing /\ ~eng'.loaded /\ eng'.src = <<>> /\ eng'.next = 0
    <3>1. UNCHANGED <<busy, intent, feed, loads, fetches>>
      BY <1>3 DEF PauseEngine, StopEngine
    <3>2. \/ eng' = eng
          \/ eng' = [Silenced(NoSuccessor(eng)) EXCEPT !.playing = FALSE]
          \/ \E p, m : eng' = [Silenced(NoSuccessor(eng)) EXCEPT
                               !.playing = FALSE, !.pos = p, !.media = m, !.loaded = FALSE]
      BY <1>3 DEF PauseEngine, StopEngine
    <3>3. eng \in EngineStates
      BY DEF TypeOK, EngineTypeOK
    <3> QED
      BY <3>1, <3>2, <3>3 DEF EngineStates, Silenced, NoSuccessor, Unused
  <2> QED
    BY <1>1, <2>2, <2>3, <2>4 DEF Unused
<1>4. CASE BeginLoad(User)
  <2>1. Superseded /\ cmds' = Stale(cmds)
        /\ loads' = [StaleLoads EXCEPT ![User].stage = "begun", ![User].fresh = TRUE]
        /\ loads[User].stage = "asked"
    BY <1>4 DEF BeginLoad
  <2>2. HeedIn(cmds', TRUE) /\ \A i \in DOMAIN cmds' : cmds'[i].op \in {"Pause", "Stop"}
    <3>1. HeedIn(cmds', TRUE)
      BY <1>1, <2>1, ChannelAges DEF Unused
    <3>2. \A i \in DOMAIN cmds : cmds[i] \in Commands
      BY <1>1
    <3>3. DOMAIN cmds' = DOMAIN cmds /\ \A i \in DOMAIN cmds : cmds'[i].op = cmds[i].op
      BY <2>1, <3>2 DEF Stale, Commands
    <3> QED
      BY <3>1, <3>3 DEF Unused
  <2>3. loads'[Driver] = NoLoad /\ loads'[User].track = loads[User].track
    <3>1. NoLoad \in [stage : {"none"}, track : {0}, fresh : {FALSE}, skips : {0}]
      BY DEF NoLoad
    <3>2. [NoLoad EXCEPT !.fresh = FALSE] = NoLoad
      BY <3>1
    <3>3. /\ StaleLoads \in [Callers -> LoadStates] /\ StaleLoads[Driver] = NoLoad
          /\ StaleLoads[User] = [loads[User] EXCEPT !.fresh = FALSE]
      BY <1>1, <3>2, StaleTypes DEF StaleLoads, Unused
    <3>4. loads' = [StaleLoads EXCEPT
                     ![User] = [[StaleLoads[User] EXCEPT !.stage = "begun"] EXCEPT !.fresh = TRUE]]
      BY <1>1, <2>1, <3>3
    <3>5. StaleLoads[User].track = loads[User].track /\ StaleLoads[User] \in LoadStates
      BY <1>1, <3>3 DEF LoadStates
    <3> QED
      BY <1>1, <3>3, <3>4, <3>5 DEF LoadStates
  <2>4. busy' = NoPlay
    BY <2>1, SupersededFacts DEF Unused
  <2> QED
    BY <1>1, <2>1, <2>2, <2>3, <2>4, SupersededFacts DEF Unused, Superseded
<1>5. CASE DropLoad(User)
  BY <1>1, <1>5 DEF DropLoad, Unused, NoLoad
<1>6. PauseEngine \/ StopEngine \/ BeginLoad(User) \/ DropLoad(User)
  <2>1. ASSUME NEW ops, Takes(ops), ops \cap {"Pause", "Stop"} = {} PROVE FALSE
    <3>1. 1 \in DOMAIN cmds /\ cmds[1] = Head(cmds) /\ Head(cmds).op \in ops
      BY <1>1, <2>1 DEF Takes
    <3> QED
      BY <2>1, <3>1 DEF Unused
  <2>2. ~StartPlay /\ ~ResumeEngine /\ ~AppendNext
    BY <2>1 DEF StartPlay, ResumeEngine, AppendNext, Plays
  <2>3. ~Install /\ ~Abandon /\ ~Transition /\ ~AskForNext /\ ~RunsEmpty /\ ~RecordEmpty
        /\ ~FeederDone /\ ~SourceEnds
    BY <1>2 DEF Unused, Install, Abandon, Transition, AskForNext, RunsEmpty, RecordEmpty, Checks,
       FeederDone, SourceEnds
  <2>4. ~Loading(Driver)
    BY <1>2 DEF Loading, BeginLoad, FinishLoad, DropLoad
  <2>5. ~\E f \in fetches : FetchSteps(f)
    BY DEF Unused
  <2> QED
    BY <1>1, <2>2, <2>3, <2>4, <2>5 DEF EngineSteps, ThreadSteps, Loading
<1> QED
  BY <1>3, <1>4, <1>5, <1>6

\* A stop of a player that was never used.
LEMMA StoppedUnused ==
  ASSUME TypeOK, TypeOK', Unused, Superseded, UNCHANGED drv,
         cmds' = Append(Stale(cmds), Command("Stop", 0, TRUE)),
         loads'[Driver] = NoLoad, loads'[User].stage \notin {"asked", "begun"}
  PROVE  Unused'
<1> DEFINE c == Command("Stop", 0, TRUE)
<1>1. c.op = "Stop" /\ c \in Commands
  BY CommandTypes DEF Command
<1>2. PICK q \in Seq(Commands) : q = Stale(cmds) /\ cmds' = Append(q, c)
  BY StaleTypes DEF TypeOK, EngineTypeOK
<1>3. \A i \in DOMAIN q : q[i].op \in {"Pause", "Stop"}
  <2>1. \A i \in DOMAIN cmds : cmds[i] \in Commands
    BY DEF TypeOK, EngineTypeOK
  <2> QED
    BY <1>2, <2>1 DEF Stale, Unused, Commands
<1> HIDE DEF c
<1>4. \A i \in DOMAIN cmds' : (i \in DOMAIN q /\ cmds'[i] = q[i]) \/ cmds'[i] = c
  <2>1. c \in Commands /\ cmds' = Append(q, c)
    BY <1>1, <1>2
  <2>2. \A p : p = Append(q, c) =>
          \A i \in DOMAIN p : (i \in DOMAIN q /\ p[i] = q[i]) \/ p[i] = c
    BY <2>1
  <2> QED
    BY <2>1, <2>2
<1>5. HeedIn(cmds', intent')
  BY StopFacts DEF Unused
<1> QED
  BY <1>1, <1>3, <1>4, <1>5, SupersededFacts DEF Unused

LEMMA UnusedStep ==
  ASSUME TypeOK, TypeOK', Unused, Steps, ~LostDownload, ~(EngineSteps /\ FinishLoad(User))
  PROVE  Unused'
<1>1. /\ User \in Callers /\ Driver \in Callers /\ Callers = {Driver, User} /\ User # Driver
      /\ loads \in [Callers -> LoadStates] /\ cmds \in Seq(Commands) /\ intent \in BOOLEAN
      /\ loads[Driver].stage = "none" /\ ~busy.fresh /\ feed.state = "none"
  BY DriverAssumption DEF TypeOK, EngineTypeOK, Unused, NoLoad, NoPlay, Command, NoFeed
<1>2. CASE ReadTransport
  BY <1>2 DEF ReadTransport, engineVars, Unused, Sample, TypeOK
<1>3. CASE Plan
  <2>1. PICK ev \in {drv.ev}, last \in {drv.last}, near \in NearEnd(drv.ev, drv.last),
             sync \in {SyncTo(drv.ev, drv.last)}, arm \in {0} \cup Onward(queue.cur), ended \in BOOLEAN :
             ended = (sync = 0 /\ Ended(ev, last, near)) /\ Planned(ev, last, sync, arm, ended)
    BY <1>3, PlanFacts
  <2>2. ev = drv.ev /\ last = drv.last /\ sync = SyncTo(ev, last) /\ ~ev.playing /\ ev.track = 0
        /\ ~last.playing /\ last.track = 0 /\ fetches = {}
    BY <2>1 DEF Unused
  <2>3. sync = 0 /\ ~ended
    BY <2>1, <2>2
       DEF SyncTo, Seamless, MissedEdge, Ended, SourceFailed, EngineEmpty, Stopped, Unused
  <2>4. /\ drv'.pc = "idle" /\ drv'.ev = NoEvent /\ queue'.cur = queue.cur
        /\ drv'.last = [last EXCEPT !.playing = ev.playing]
    BY <2>1, <2>2, <2>3 DEF Planned, Carried
  <2>5. ~drv'.last.playing /\ drv'.last.track = 0
    BY <2>2, <2>4 DEF TypeOK, Events
  <2>6. fetches' = {}
    <3>1. Arms(drv.ev) = 0
      BY <2>2 DEF Arms
    <3>2. {Arms(drv.ev)} \ {0} = {}
      BY <3>1
    <3> QED
      BY <1>3, <2>2, <3>1, <3>2 DEF Plan
  <2>7. /\ eng'.ended = 0 /\ eng'.failed = 0
        /\ UNCHANGED <<cmds, busy, intent, feed, loads, eng.playing, eng.track, eng.next, eng.loaded,
             eng.src, eng.ending>>
    BY <2>1 DEF Planned
  <2> QED
    BY <2>4, <2>5, <2>6, <2>7 DEF Unused, NoEvent
<1>4. CASE EngineSteps
  BY <1>4, UnusedEngine
<1>5. CASE Stays
  <2>1. CASE PauseRoute
    <3> DEFINE c == Command("Pause", 0, TRUE)
    <3>1. c \in Commands /\ c.op = "Pause"
      BY CommandTypes DEF Command
    <3>2. intent' = FALSE /\ cmds' = Append(cmds, c)
      BY <2>1 DEF PauseRoute, Transport
    <3> HIDE DEF c
    <3>3. HeedIn(cmds, FALSE)
      BY DEF Unused, HeedIn
    <3>4. HeedIn(cmds', FALSE)
      BY <1>1, <3>1, <3>2, <3>3, HeedGrows
    <3>5. \A i \in DOMAIN cmds' : (i \in DOMAIN cmds /\ cmds'[i] = cmds[i]) \/ cmds'[i] = c
      BY <1>1, <3>1, <3>2
    <3> QED
      BY <2>1, <3>1, <3>2, <3>4, <3>5 DEF PauseRoute, Unused
  <2>2. CASE \E t \in Playable : MarkRoute(t)
    BY <2>2 DEF MarkRoute, engineVars, Unused, TypeOK
  <2> QED
    BY <1>5, <2>1, <2>2 DEF Stays
<1>6. ~Faults
  <2>1. ~FeederFails /\ ~BufferFails
    BY <1>1 DEF FeederFails, BufferFails
  <2>2. \A c \in Callers : FailLoad(c) /\ Fails => LostDownload
    BY DEF FailLoad, Fails, LostDownload, TypeOK
  <2> QED
    BY <2>1, <2>2 DEF Faults
<1>7. ~TimePasses
  BY DEF TimePasses, Elapse, Unused
<1>8. CASE Walk(User)
  <2> DEFINE t == NextRow(queue.cur)
  <2>1. queue'.cur = t /\ UNCHANGED drv /\ loads[User].stage = "walking"
    BY <1>1, <1>8 DEF Walk, NothingFound, TypeOK
  <2>2. \/ /\ UNCHANGED <<eng, cmds, busy, intent, feed, fetches>>
           /\ \/ loads' = [loads EXCEPT ![User] = NoLoad]
              \/ loads' = [loads EXCEPT ![User] = [NoLoad EXCEPT !.stage = "asked", !.track = t]]
              \/ loads' = [loads EXCEPT ![User].skips = loads[User].skips + 1]
        \/ /\ Superseded /\ loads' = [StaleLoads EXCEPT ![User] = NoLoad]
           /\ cmds' = Append(Stale(cmds), Command("Stop", 0, TRUE))
    BY <1>8 DEF Walk
  <2> HIDE DEF t
  <2>3. NoLoad \in [stage : {"none"}, track : {0}, fresh : {FALSE}, skips : {0}]
    BY DEF NoLoad
  <2>4. CASE UNCHANGED <<eng, cmds, busy, intent, feed, fetches>>
    <3>1. /\ loads'[Driver] = NoLoad
          /\ loads'[User].stage \in {"asked", "begun"} => loads'[User].track = queue'.cur
      <4>1. CASE loads' = [loads EXCEPT ![User] = NoLoad]
        BY <1>1, <2>1, <2>3, <4>1 DEF Unused
      <4>2. CASE loads' = [loads EXCEPT ![User] = [NoLoad EXCEPT !.stage = "asked", !.track = t]]
        BY <1>1, <2>1, <2>3, <4>2 DEF Unused
      <4>3. CASE loads' = [loads EXCEPT ![User].skips = loads[User].skips + 1]
        BY <1>1, <2>1, <4>3 DEF Unused, LoadStates
      <4>4. CASE loads' = [StaleLoads EXCEPT ![User] = NoLoad]
        <5>1. [NoLoad EXCEPT !.fresh = FALSE] = NoLoad
          BY <2>3
        <5>2. StaleLoads \in [Callers -> LoadStates] /\ StaleLoads[Driver] = NoLoad
          BY <1>1, <5>1, StaleTypes DEF StaleLoads, Unused
        <5> QED
          BY <1>1, <2>3, <4>4, <5>2
      <4> QED
        BY <2>2, <4>1, <4>2, <4>3, <4>4
    <3> QED
      BY <2>1, <2>4, <3>1 DEF Unused
  <2>5. CASE /\ Superseded /\ loads' = [StaleLoads EXCEPT ![User] = NoLoad]
             /\ cmds' = Append(Stale(cmds), Command("Stop", 0, TRUE))
    <3>1. [NoLoad EXCEPT !.fresh = FALSE] = NoLoad
      BY <2>3
    <3>2. StaleLoads \in [Callers -> LoadStates] /\ StaleLoads[Driver] = NoLoad
      BY <1>1, <3>1, StaleTypes DEF StaleLoads, Unused
    <3>3. loads'[Driver] = NoLoad /\ loads'[User].stage = "none"
      BY <1>1, <2>3, <2>5, <3>2
    <3> QED
      BY <2>1, <2>5, <3>3, StoppedUnused
  <2> QED
    BY <2>2, <2>4, <2>5
<1>9. ~Walk(Driver)
  BY <1>1 DEF Walk
<1>10. DriverSteps => ReadTransport \/ Plan
  BY DEF DriverSteps, Halt, Finish, Advance, EndTick, Unused
<1> QED
  BY <1>1, <1>2, <1>3, <1>4, <1>5, <1>6, <1>7, <1>8, <1>9, <1>10 DEF Steps

LEMMA IdleUser ==
  ASSUME TypeOK, Unused, Steps, loads[User] = NoLoad
  PROVE  loads'[User] = NoLoad
<1>1. Callers = {Driver, User} /\ \A c \in Callers : loads[c].stage = "none"
  BY DriverAssumption DEF Unused, NoLoad
<1>2. CASE DriverSteps
  BY <1>2 DEF DriverSteps, ReadTransport, Plan, Halt, Finish, Advance, EndTick, engineVars, Unused
<1>3. CASE EngineSteps
  <2>1. ~\E c \in Callers : Loading(c)
    BY <1>1 DEF Loading, BeginLoad, FinishLoad, DropLoad
  <2>2. ~\E f \in fetches : FetchSteps(f)
    BY DEF Unused
  <2> QED
    BY <1>3, <2>1, <2>2 DEF EngineSteps, ThreadSteps, StartPlay, Install, Abandon, PauseEngine,
       ResumeEngine, StopEngine, AppendNext, Transition, AskForNext, RunsEmpty, RecordEmpty,
       FeederDone, SourceEnds
<1>4. CASE Stays
  BY <1>4 DEF Stays, PauseRoute, MarkRoute, engineVars
<1>5. CASE Faults
  BY <1>1, <1>5 DEF Faults, FailLoad, FeederFails, BufferFails
<1>6. CASE TimePasses
  BY <1>6 DEF TimePasses, Elapse
<1>7. ~\E c \in Callers : Walk(c)
  BY <1>1 DEF Walk
<1> QED
  BY <1>2, <1>3, <1>4, <1>5, <1>6, <1>7 DEF Steps

\* The user's first move.
LEMMA FirstMove ==
  ASSUME TypeOK, TypeOK', Unused, loads[User] = NoLoad, Moves
  PROVE  Unused'
<1>1. /\ Driver \in Callers /\ User \in Callers /\ User # Driver /\ loads \in [Callers -> LoadStates]
      /\ NoLoad \in [stage : {"none"}, track : {0}, fresh : {FALSE}, skips : {0}] /\ UNCHANGED drv
  BY DriverAssumption DEF TypeOK, EngineTypeOK, NoLoad, Moves, NextRoute, ColdStart, ResumeRoute,
     StopRoute, StartRoute
<1>2. CASE NextRoute
  BY <1>1, <1>2 DEF NextRoute, Unused
<1>3. CASE ColdStart
  BY <1>1, <1>3 DEF ColdStart, Unused
<1>4. ~ResumeRoute
  BY DEF ResumeRoute, Unused
<1>5. CASE StopRoute
  <2>1. Superseded /\ cmds' = Append(Stale(cmds), Command("Stop", 0, TRUE)) /\ loads' = StaleLoads
    BY <1>5 DEF StopRoute, Stop
  <2>2. [NoLoad EXCEPT !.fresh = FALSE] = NoLoad
    BY <1>1
  <2>3. loads'[Driver] = NoLoad /\ loads'[User] = NoLoad
    BY <1>1, <2>1, <2>2 DEF StaleLoads, Unused
  <2> QED
    BY <1>1, <2>1, <2>3, StoppedUnused
<1>6. CASE \E t \in Starts : StartRoute(t)
  <2>1. PICK t \in Starts : StartRoute(t)
    BY <1>6
  <2>2. queue'.cur = t
    BY <2>1 DEF StartRoute, TypeOK
  <2> QED
    BY <1>1, <2>1, <2>2 DEF StartRoute, Unused
<1> QED
  BY <1>2, <1>3, <1>4, <1>5, <1>6 DEF Moves

\* Until the user moves again, and but for what the driver cannot tell from an end.
Quiet == past.moves <= 1 /\ ~past.hush
NeverSilent ==
    Quiet => \/ Unused /\ (past.moves = 0 => loads[User] = NoLoad)
             \/ past.moves = 1 /\ Running

LEMMA NeverSilentStep == TypeOK /\ TypeOK' /\ NeverSilent /\ Next => NeverSilent'
<1> SUFFICES ASSUME TypeOK, TypeOK', NeverSilent, Next, Quiet' PROVE NeverSilent'
  BY DEF NeverSilent
<1>1. PICK moves : /\ Remembers(moves)
                   /\ \/ Steps /\ moves = past.moves
                      \/ Moves /\ moves = Min({past.moves + 1, 2})
  <2>1. CASE Steps /\ Remembers(past.moves)
    BY <2>1
  <2>2. CASE Moves /\ Remembers(Min({past.moves + 1, 2}))
    BY <2>2
  <2> QED
    BY <2>1, <2>2 DEF Next
<1>2. /\ past'.moves = moves /\ past.moves \in 0..2 /\ moves \in 0..2 /\ moves <= 1
      /\ ~past.hush /\ ~LostDownload /\ ~AsksAtEnd
  <2> DEFINE hush == past.hush \/ LostDownload \/ LatePause \/ AsksAtEnd
  <2>1. \E at, held : past' = [at |-> at, moves |-> moves, hush |-> hush, held |-> held]
    BY <1>1 DEF Remembers
  <2>2. past'.moves = moves /\ past'.hush = hush
    BY <2>1
  <2>3. past'.moves <= 1 /\ ~past'.hush /\ past'.moves \in 0..2 /\ past.moves \in 0..2
    BY DEF Quiet, TypeOK
  <2> QED
    BY <2>2, <2>3
<1>3. CASE Steps /\ moves = past.moves
  <2>1. \/ Unused /\ (past.moves = 0 => loads[User] = NoLoad)
        \/ past.moves = 1 /\ Running
    BY <1>2, <1>3 DEF NeverSilent, Quiet
  <2>2. CASE Running /\ past.moves = 1
    BY <1>2, <1>3, <2>2, StepRuns DEF NeverSilent
  <2>3. CASE /\ Unused /\ (past.moves = 0 => loads[User] = NoLoad)
             /\ EngineSteps /\ FinishLoad(User)
    <3>1. loads[User] # NoLoad
      BY <2>3 DEF FinishLoad, NoLoad
    <3>2. past.moves = 1
      BY <1>2, <1>3, <2>3, <3>1
    <3>3. UNCHANGED <<queue, drv, ticked>>
      BY <2>3 DEF EngineSteps, Mine
    <3> QED
      BY <1>2, <1>3, <2>3, <3>2, <3>3, FirstRow DEF NeverSilent
  <2>4. CASE /\ Unused /\ (past.moves = 0 => loads[User] = NoLoad)
             /\ ~(EngineSteps /\ FinishLoad(User))
    BY <1>2, <1>3, <2>4, UnusedStep, IdleUser DEF NeverSilent
  <2> QED
    BY <2>1, <2>2, <2>3, <2>4
<1>4. CASE Moves /\ moves = Min({past.moves + 1, 2})
  <2>1. past.moves = 0
    <3>1. moves \in {past.moves + 1, 2}
      <4>1. \E x \in {past.moves + 1, 2} : \A y \in {past.moves + 1, 2} : x <= y
        BY <1>2
      <4> QED
        BY <1>4, <4>1 DEF Min
    <3> QED
      BY <1>2, <3>1
  <2>2. moves # 0
    <3>1. \E x \in {1, 2} : \A y \in {1, 2} : x <= y
      OBVIOUS
    <3>2. Min({1, 2}) \in {1, 2}
      BY <3>1 DEF Min
    <3> QED
      BY <1>4, <2>1, <3>2
  <2>3. Unused /\ loads[User] = NoLoad
    BY <1>2, <2>1 DEF NeverSilent, Quiet
  <2> QED
    BY <1>2, <1>4, <2>2, <2>3, FirstMove DEF NeverSilent
<1> QED
  BY <1>1, <1>3, <1>4

LEMMA NeverSilentMeans == TypeOK /\ NeverSilent => NoDeadAir
<1> SUFFICES ASSUME TypeOK, NeverSilent,
                    cmds = <<>>, busy = NoPlay, \A c \in Callers : loads[c] = NoLoad,
                    drv.pc = "idle", ~eng.ending, eng.ended = 0, eng.failed = 0,
                    intent, eng.loaded, eng.src = <<>>, ~past.hush, past.moves <= 1
             PROVE  IF eng.playing THEN eng.alive ELSE drv.last.playing
  BY DEF NoDeadAir
<1>1. Running
  BY DEF NeverSilent, Quiet, Unused
<1>2. ~Buffering
  BY DEF Buffering, NoPlay, Command
<1>3. Sounds
  BY <1>2, DriverAssumption DEF Sounds, AtRest, StopIn
<1>4. SoundsOK(eng.track)
  BY <1>1, <1>3 DEF Running
<1> QED
  BY <1>4 DEF SoundsOK, HasRow, EndIsSeen, NearlyOver

\* No end of a track is lost between two ticks: once everything that was sent,
\* loaded, fetched or published is taken, a player that is meant to sound does,
\* or the next tick takes its silence for an end (plan_tick).
THEOREM DeadAirIsExcluded == Spec => []NoDeadAir
<1>1. Init => NeverSilent
  <2> SUFFICES ASSUME Init PROVE Unused /\ loads[User] = NoLoad
    BY DEF NeverSilent
  <2>1. /\ ~eng.playing /\ ~eng.loaded /\ ~eng.ending /\ eng.src = <<>> /\ eng.next = 0
        /\ eng.track = 0 /\ eng.failed = 0 /\ eng.ended = 0
        /\ busy = NoPlay /\ feed = NoFeed /\ fetches = {} /\ cmds = <<>>
    BY DEF Init, EngineInit
  <2>2. loads[Driver] = NoLoad /\ loads[User] = NoLoad /\ loads[User].stage = "none"
    BY DriverAssumption DEF Init, EngineInit, NoLoad
  <2>3. /\ drv.pc = "idle"
        /\ ~drv.ev.playing /\ drv.ev.track = 0 /\ ~drv.last.playing /\ drv.last.track = 0
    BY DEF Init, NoEvent
  <2> QED
    BY <2>1, <2>2, <2>3 DEF Unused, HeedIn
<1>2. TypeOK /\ TypeOK' /\ NeverSilent /\ [Next]_vars => NeverSilent'
  <2>1. TypeOK /\ NeverSilent /\ UNCHANGED vars => NeverSilent'
    BY DEF vars, engineVars, NeverSilent, Quiet, Unused, Running, Orderly, OnePlay, Begun, Fills, Sounds,
           AtRest, Buffering, FillsOK, Behind, SoundsOK, HasRow, InLine, Seen, HandedOff, Young,
           EndIsSeen, NearlyOver
  <2> QED
    BY <2>1, NeverSilentStep
<1> QED
  BY <1>1, <1>2, NeverSilentMeans, TypeCorrect, PTL DEF Spec
==============================================================================
