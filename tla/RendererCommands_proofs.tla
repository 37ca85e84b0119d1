----------------------- MODULE RendererCommands_proofs -----------------------
(***************************************************************************)
(* Theorems about RendererCommands, for any queues, commands and number of *)
(* activations.  The invariant says at which steps of the loop there is a  *)
(* command, that it and the deferred one are of the activation that was    *)
(* last seen, and what a deferred command may be wherever the loop is.     *)
(***************************************************************************)
EXTENDS RendererCommands, TLAPS

Working == {"pauseSource", "stopAnyway", "execute", "lookup", "publish"}

\* Between events, and while the sink has the queue, nothing is executed.
JobWhileWorking == pc \notin Working => job = Nothing

\* What is executed is of this activation, and its transport is the last that
\* was asked for.
JobIsCurrent ==
    pc \in Working => /\ job.born = generation /\ seen = generation
                      /\ job.cmd.mode \in {"none", intent}

\* An admitted stop is a stop; the target of a lookup has a track.
JobFitsStep ==
    /\ pc = "stopAnyway" => job.cmd.mode = "stop"
    /\ pc = "lookup" => Proposed.track # NoItem /\ Wanted

\* The deferred command is of the activation that the renderer state is of.
DeferredIsOfSeen ==
    /\ seen <= generation
    /\ deferred # Nothing => deferred.born = seen
                             /\ deferred.cmd.track \in {NoItem, aim}
                             /\ deferred.cmd.mode \in {"none", intent}

\* Only a queue that has just come can make a deferred command ready.
DeferredStillWaits ==
    pc \notin {"sink", "replay"} => deferred = Nothing \/ Needs(deferred.cmd, queue)

Inv == /\ TypeOK /\ JobWhileWorking /\ JobIsCurrent /\ JobFitsStep
       /\ DeferredIsOfSeen /\ DeferredStillWaits
------------------------------------------------------------------------------
(* What the operators of the admission return *)

LEMMA NothingTyped == Nothing \in Owed /\ NoTarget \in [born : 0..MaxGeneration, item : Items \cup {NoItem}]
                      /\ NoCommand \in Command /\ Unset \in Renderer
  BY RendererAssumption DEF Nothing, Owed, NoTarget, NoCommand, Command, Unset, Renderer

\* Merging keeps the track, and the version unless the new command has one.
LEMMA MergedLemma ==
  ASSUME NEW c \in Command, NEW p \in Command
  PROVE  /\ Merged(p, c) \in Command /\ MergedVersion(p, c) \in Command
         /\ Merged(p, c).track = p.track /\ MergedVersion(p, c).track = p.track
         /\ Merged(p, c).major = p.major
         /\ c.major # NoMajor => MergedVersion(p, c).major = c.major
         /\ Merged(p, c).mode = IF c.mode = "none" THEN p.mode ELSE c.mode
         /\ MergedVersion(p, c).mode = Merged(p, c).mode
<1> DEFINE m == Merged(p, c)
<1>1. (p.pos \/ c.pos) \in BOOLEAN
  OBVIOUS
<1>2. /\ m \in Command /\ m.track = p.track /\ m.major = p.major
      /\ m.mode = IF c.mode = "none" THEN p.mode ELSE c.mode
  BY <1>1 DEF Merged, Command
<1>3. MergedVersion(p, c) = [m EXCEPT !.major = IF c.major = NoMajor THEN @ ELSE c.major]
  BY DEF MergedVersion
<1> HIDE DEF m
<1>4. /\ MergedVersion(p, c) \in Command
      /\ MergedVersion(p, c).track = m.track /\ MergedVersion(p, c).mode = m.mode
      /\ c.major # NoMajor => MergedVersion(p, c).major = c.major
  BY <1>2, <1>3 DEF Command
<1> QED
  BY <1>2, <1>4 DEF m

\* The new deferred command is well typed, of this activation, and still waits.
LEMMA NewestLemma ==
  ASSUME TypeOK, NEW c \in Command, NEW d \in Owed,
         d # Nothing => d.born = generation
  PROVE  /\ Newest(d, c) \in Owed
         /\ Newest(d, c) # Nothing => Newest(d, c).born = generation
         /\ (d = Nothing \/ Needs(d.cmd, queue)) =>
              (Newest(d, c) = Nothing \/ Needs(Newest(d, c).cmd, queue))
         /\ Newest(d, c) # Nothing => Waits(d, c) \/ d # Nothing
<1> DEFINE n == Newest(d, c)
<1>1. CASE Needs(c, queue) /\ ~(c.track = NoItem /\ d # Nothing)
  <2>1. n = [born |-> generation, cmd |-> c]
    BY <1>1 DEF Newest
  <2> QED
    BY <1>1, <2>1 DEF TypeOK, Owed, Waits
<1>2. CASE Needs(c, queue) /\ c.track = NoItem /\ d # Nothing
  <2>1. n = [d EXCEPT !.cmd = MergedVersion(d.cmd, c)]
    BY <1>2 DEF Newest
  <2>2. c.major # NoMajor /\ c.major # queue.major
    BY <1>2 DEF Needs
  <2>3. /\ n \in Owed /\ n.born = d.born /\ n.cmd.major = c.major
    BY <2>1, <2>2, MergedLemma DEF Owed
  <2> QED
    BY <1>2, <2>2, <2>3 DEF Needs
<1>3. CASE ~Needs(c, queue) /\ (c.track # NoItem \/ c.mode = "stop" \/ d = Nothing)
  <2>1. n = Nothing
    BY <1>3 DEF Newest
  <2> QED
    BY <2>1, NothingTyped
<1>4. CASE ~Needs(c, queue) /\ c.track = NoItem /\ c.mode # "stop" /\ d # Nothing
  <2>1. n = [d EXCEPT !.cmd = Merged(d.cmd, c)]
    BY <1>4 DEF Newest
  <2>2. /\ n \in Owed /\ n.born = d.born
        /\ n.cmd.major = d.cmd.major /\ n.cmd.track = d.cmd.track
    BY <2>1, MergedLemma DEF Owed
  <2> QED
    BY <1>4, <2>2 DEF Needs
<1> QED
  BY <1>1, <1>2, <1>3, <1>4

\* It names no track and no transport that neither the old one nor the new
\* command named.
LEMMA NewestNames ==
  ASSUME NEW c \in Command, NEW d \in Owed, Newest(d, c) # Nothing
  PROVE  /\ Newest(d, c).cmd.track \in {c.track} \cup
              (IF d # Nothing /\ c.track = NoItem THEN {d.cmd.track} ELSE {})
         /\ Newest(d, c).cmd.mode \in {c.mode} \cup
              (IF d # Nothing /\ c.mode = "none" THEN {d.cmd.mode} ELSE {})
  BY MergedLemma DEF Newest, Owed

\* What an admission leaves, of a command of this activation.
LEMMA AdmitLemma ==
  ASSUME TypeOK, NEW c \in Command, NEW d \in Owed, Admit(generation, c, d),
         d # Nothing => d.born = generation,
         d = Nothing \/ Needs(d.cmd, queue)
  PROVE  /\ seen' = generation /\ renderer' \in Renderer
         /\ deferred' = Newest(d, c) /\ deferred' \in Owed
         /\ deferred' # Nothing => deferred'.born = generation
         /\ deferred' = Nothing \/ Needs(deferred'.cmd, queue)
         /\ pc' \in {"execute", "stopAnyway", "pauseSource", "idle"}
         /\ IF pc' = "idle" THEN job' = Nothing
                            ELSE job' = [born |-> generation, cmd |-> c]
         /\ job' \in Owed
         /\ pc' = "stopAnyway" => c.mode = "stop"
<1>1. /\ seen' = generation
      /\ renderer' = IF seen = generation THEN renderer ELSE Unset
      /\ deferred' = Newest(d, c)
  BY DEF Admit
<1>2. renderer' \in Renderer
  BY <1>1, NothingTyped DEF TypeOK
<1>3. /\ pc' \in {"execute", "stopAnyway", "pauseSource", "idle"}
      /\ IF pc' = "idle" THEN job' = Nothing
                         ELSE job' = [born |-> generation, cmd |-> c]
      /\ pc' = "stopAnyway" => c.mode = "stop"
  BY DEF Admit
<1>4. job' \in Owed
  BY <1>3, NothingTyped DEF TypeOK, Owed
<1> QED
  BY <1>1, <1>2, <1>3, <1>4, NewestLemma
------------------------------------------------------------------------------
(* The invariant *)

LEMMA StoppedTyped ==
  ASSUME NEW p \in Player PROVE Stopped(p) \in Player
  BY DEF Stopped, Player

LEMMA InitInv == Init => Inv
<1> SUFFICES ASSUME Init PROVE Inv
  OBVIOUS
<1>1. player \in Player
  BY DEF Init, Player
<1>2. core \in [mirrors : BOOLEAN, cursor : Items \cup {NoItem}]
  BY DEF Init
<1>3. generation \in 0..MaxGeneration /\ seen \in 0..MaxGeneration
  BY RendererAssumption DEF Init
<1>4. TypeOK
  BY <1>1, <1>2, <1>3, NothingTyped DEF Init, TypeOK
<1> QED
  BY <1>3, <1>4 DEF Init, Inv, JobWhileWorking, JobIsCurrent, JobFitsStep, DeferredIsOfSeen,
              DeferredStillWaits, Working

\* Steps that leave the queue, the deferred command, the activation and what was
\* asked for alone and go on with their command or drop it.
LEMMA GoOn ==
  ASSUME Inv, UNCHANGED <<activation, queue, deferred, history>>,
         \/ UNCHANGED <<pc, job>>
         \/ /\ pc \in {"execute", "lookup"} /\ pc' = "publish" /\ UNCHANGED job
         \/ pc \notin {"sink", "replay"} /\ Drop
  PROVE  /\ JobWhileWorking' /\ JobIsCurrent' /\ DeferredIsOfSeen' /\ DeferredStillWaits'
         /\ pc' = "stopAnyway" => job'.cmd.mode = "stop"
         /\ pc' = "lookup" => pc = "lookup" /\ job' = job
         /\ pc' \in Working \cup {"idle", "sink", "replay"} /\ job' \in Owed
<1>1. deferred' = deferred /\ queue' = queue /\ generation' = generation /\ seen' = seen
      /\ aim' = aim /\ intent' = intent
  BY DEF activation, history
<1>2. Needs(deferred.cmd, queue)' <=> Needs(deferred.cmd, queue)
  BY <1>1 DEF Needs, Known
<1> QED
  BY <1>1, <1>2, NothingTyped
  DEF Inv, TypeOK, JobWhileWorking, JobIsCurrent, JobFitsStep, DeferredIsOfSeen,
      DeferredStillWaits, Working, Drop

\* Steps beside the loop move the player or the fence.
LEMMA BesideInv ==
  ASSUME Inv, FenceRises \/ ReportConfirms \/ AudioStops \/ LoadEnds \/ AudioObeys
  PROVE  Inv'
<1>1. /\ UNCHANGED <<activation, mirror, renderer, target, deferred, pc, job, history>>
      /\ fence' \in {"none", "take", "assert"}
  BY DEF FenceRises, ReportConfirms, AudioStops, LoadEnds, AudioObeys, Inv, TypeOK
<1>2. player' \in Player
  BY DEF FenceRises, ReportConfirms, AudioStops, LoadEnds, AudioObeys, Inv, TypeOK, Player
<1>3. TypeOK'
  BY <1>1, <1>2 DEF Inv, TypeOK, activation, mirror, history
<1>4. JobFitsStep'
  BY <1>1 DEF Inv, JobFitsStep, Proposed, Wanted, cmd
<1> QED
  BY <1>1, <1>3, <1>4, GoOn DEF Inv, mirror

LEMMA ProposedTyped == ASSUME TypeOK PROVE Proposed \in Renderer
  BY DEF TypeOK, Proposed, Renderer, Owed, Command, cmd

\* The steps of an execution; only a lookup needs a track and a transport.
LEMMA ExecutionInv == ASSUME Inv, Execution PROVE Inv'
<1> USE DEF Inv
<1>1. /\ UNCHANGED <<activation, fence, queue, applied, deferred, history>>
      /\ pc \in {"execute", "lookup", "publish"}
  BY DEF Execution, SkipOrRefuse, ExecuteTransport, ExecuteUnaligned, ExecutePrepared,
         ExecuteLookup, StreamStarts, LookupFails, Publish, Executes, mirror
<1>2. \/ pc' = "publish" /\ UNCHANGED job /\ pc \in {"execute", "lookup"}
      \/ Drop
      \/ ExecuteLookup
  BY DEF Execution, SkipOrRefuse, ExecuteTransport, ExecuteUnaligned, ExecutePrepared,
         StreamStarts, LookupFails, Publish, Executes, Fails, Transport
<1>3. renderer' \in Renderer
  BY ProposedTyped
  DEF Execution, SkipOrRefuse, ExecuteTransport, ExecuteUnaligned, ExecutePrepared,
      ExecuteLookup, StreamStarts, LookupFails, Publish, TypeOK
<1>4. target' \in [born : 0..MaxGeneration, item : Items \cup {NoItem}]
  <2>1. Registered \in [born : 0..MaxGeneration, item : Items \cup {NoItem}]
    BY DEF Registered, TypeOK, Owed, Command, cmd
  <2> QED
    BY <2>1, NothingTyped
    DEF Execution, SkipOrRefuse, ExecuteTransport, ExecuteUnaligned, ExecutePrepared,
        ExecuteLookup, StreamStarts, LookupFails, Publish, TypeOK
<1>5. core' \in [mirrors : BOOLEAN, cursor : Items \cup {NoItem}]
  <2>1. MoveCursor \/ UNCHANGED core
    BY DEF Execution, SkipOrRefuse, ExecuteTransport, ExecuteUnaligned, ExecutePrepared,
           ExecuteLookup, StreamStarts, LookupFails, Publish, mirror
  <2> QED
    BY <2>1, ProposedTyped DEF MoveCursor, TypeOK, Renderer
<1>6. player' \in Player
  <2>1. CASE StreamStarts
    <3>1. Song[Proposed.track] \in Songs
      BY <2>1, ProposedTyped, RendererAssumption DEF StreamStarts, JobFitsStep, Renderer
    <3>2. player \in Player /\ (Proposed.mode = "play") \in BOOLEAN
      BY DEF TypeOK
    <3> QED
      BY <2>1, <3>1, <3>2 DEF StreamStarts, Player
  <2>2. CASE Transport
    BY <2>2, StoppedTyped DEF Transport, TypeOK, Player
  <2>3. CASE UNCHANGED player \/ player' = Stopped(player)
    BY <2>3, StoppedTyped DEF TypeOK
  <2> QED
    BY <2>1, <2>2, <2>3
    DEF Execution, SkipOrRefuse, ExecuteTransport, ExecuteUnaligned, ExecutePrepared,
        ExecuteLookup, LookupFails, Publish, Fails
<1>7. CASE ExecuteLookup
  <2>1. /\ pc = "execute" /\ pc' = "lookup" /\ UNCHANGED <<job, renderer>>
        /\ Proposed.track # NoItem /\ Wanted
    BY <1>7 DEF ExecuteLookup, Executes, Prepares
  <2>2. TypeOK'
    BY <1>1, <1>3, <1>4, <1>5, <1>6, <2>1 DEF TypeOK, activation, history
  <2>3. JobFitsStep'
    BY <2>1 DEF JobFitsStep, Proposed, Wanted, cmd
  <2>4. Needs(deferred.cmd, queue)' <=> Needs(deferred.cmd, queue)
    BY <1>1 DEF Needs, Known
  <2> QED
    BY <1>1, <2>1, <2>2, <2>3, <2>4
    DEF JobWhileWorking, JobIsCurrent, DeferredIsOfSeen, DeferredStillWaits, Working,
        activation, history
<1>8. CASE ~ExecuteLookup
  <2>1. /\ \/ pc \in {"execute", "lookup"} /\ pc' = "publish" /\ UNCHANGED job
           \/ pc \notin {"sink", "replay"} /\ Drop
        /\ pc' # "lookup"
    BY <1>1, <1>2, <1>8 DEF Drop
  <2>2. job' \in Owed
    BY <2>1, NothingTyped DEF Drop, TypeOK
  <2>3. TypeOK'
    BY <1>1, <1>3, <1>4, <1>5, <1>6, <2>1, <2>2 DEF TypeOK, activation, history, Drop
  <2>4. JobFitsStep'
    BY <2>1 DEF JobFitsStep, Drop
  <2> QED
    BY <1>1, <2>1, <2>3, <2>4, GoOn
<1> QED
  BY <1>7, <1>8

\* A received command or a replay: an admission and what it is asked for.
LEMMA AdmittedInv ==
  ASSUME Inv, NEW c \in Command, NEW d \in Owed, Admit(generation, c, d),
         pc \notin Working,
         d # Nothing => d.born = generation /\ d.cmd.track \in {NoItem, aim}
                        /\ d.cmd.mode \in {"none", intent} /\ seen = generation,
         d = Nothing \/ Needs(d.cmd, queue),
         UNCHANGED <<generation, fence, mirror, player, target>>,
         aim' = IF c.track = NoItem THEN aim ELSE c.track,
         intent' \in Modes \cup {"none"}, c.mode \in {"none", intent'},
         d # Nothing /\ c.mode = "none" => intent' = intent
  PROVE  Inv'
<1> USE DEF Inv
<1>1. /\ seen' = generation /\ renderer' \in Renderer
      /\ deferred' = Newest(d, c) /\ deferred' \in Owed
      /\ deferred' # Nothing => deferred'.born = generation
      /\ deferred' = Nothing \/ Needs(deferred'.cmd, queue)
      /\ pc' \in {"execute", "stopAnyway", "pauseSource", "idle"}
      /\ IF pc' = "idle" THEN job' = Nothing
                         ELSE job' = [born |-> generation, cmd |-> c]
      /\ job' \in Owed
      /\ pc' = "stopAnyway" => c.mode = "stop"
  BY AdmitLemma
<1>2. TypeOK'
  BY <1>1 DEF TypeOK, Command, mirror
<1>3. (Needs(deferred.cmd, queue))' <=> Needs(deferred'.cmd, queue)
  BY DEF mirror, Needs, Known
<1>4. deferred' # Nothing => /\ deferred'.cmd.track \in {NoItem, aim'}
                             /\ deferred'.cmd.mode \in {"none", intent'}
  BY <1>1, NewestNames
<1>5. DeferredIsOfSeen'
  BY <1>1, <1>4 DEF DeferredIsOfSeen, TypeOK
<1> QED
  BY <1>1, <1>2, <1>3, <1>5
  DEF JobWhileWorking, JobIsCurrent, JobFitsStep, DeferredStillWaits, Working

LEMMA ReceiveInv == ASSUME Inv, NEW c \in Sent, ReceiveCommand(c) PROVE Inv'
<1> USE DEF Inv
<1> DEFINE d == Retained
<1>1. c \in Command /\ d \in Owed
  BY RendererAssumption, NothingTyped DEF Retained, TypeOK
<1>2. /\ Admit(generation, c, d) /\ pc = "idle"
      /\ UNCHANGED <<generation, fence, mirror, player, target>>
      /\ aim' = IF c.track = NoItem THEN aim ELSE c.track
      /\ intent' = IF c.mode # "none" THEN c.mode
                   ELSE IF seen = generation THEN intent ELSE "none"
  BY DEF ReceiveCommand
<1>3. d # Nothing => d = deferred /\ seen = generation
  BY DEF Retained
<1>4. /\ d # Nothing => d.born = generation /\ d.cmd.track \in {NoItem, aim}
                        /\ d.cmd.mode \in {"none", intent} /\ seen = generation
      /\ d = Nothing \/ Needs(d.cmd, queue)
  BY <1>2, <1>3 DEF DeferredIsOfSeen, DeferredStillWaits
<1>5. /\ intent' \in Modes \cup {"none"} /\ c.mode \in {"none", intent'}
      /\ d # Nothing /\ c.mode = "none" => intent' = intent
  BY <1>1, <1>2, <1>3 DEF TypeOK, Command
<1> HIDE DEF d
<1> QED
  BY <1>1, <1>2, <1>4, <1>5, AdmittedInv DEF Working

LEMMA ReplayInv == ASSUME Inv, Replay PROVE Inv'
<1> USE DEF Inv
<1>1. /\ pc = "replay" /\ deferred # Nothing /\ UNCHANGED history
      /\ UNCHANGED <<generation, fence, mirror, player, target>>
  BY DEF Replay, Ready
<1>2. CASE Replayable
  <2>1. Admit(generation, deferred.cmd, Nothing) /\ seen = generation
    BY <1>1, <1>2 DEF Replay, Replayable, DeferredIsOfSeen
  <2>2. /\ deferred.cmd \in Command /\ deferred.cmd.track \in {NoItem, aim}
        /\ deferred.cmd.mode \in {"none", intent}
    BY <1>1 DEF TypeOK, Owed, DeferredIsOfSeen
  <2> QED
    BY <1>1, <2>1, <2>2, NothingTyped, AdmittedInv DEF Working, TypeOK, history
<1>3. CASE ~Replayable
  <2>1. pc' = "idle" /\ job' = Nothing /\ deferred' = Nothing /\ UNCHANGED <<seen, renderer>>
    BY <1>3 DEF Replay, Drop
  <2>2. TypeOK'
    BY <1>1, <2>1, NothingTyped DEF TypeOK, mirror, history
  <2> QED
    BY <1>1, <2>1, <2>2
    DEF JobWhileWorking, JobIsCurrent, JobFitsStep, DeferredIsOfSeen, DeferredStillWaits, Working
<1> QED
  BY <1>2, <1>3

\* What else the loop does while no command is executed.
LEMMA IdleInv ==
  ASSUME Inv, \/ ReceiveOther \/ NewActivation \/ FollowPeer
              \/ (\E q \in Queues, same \in BOOLEAN : QueueEvent(q, same))
  PROVE  Inv'
<1> USE DEF Inv
<1>1. CASE ReceiveOther
  <2>1. /\ pc = "idle" /\ seen' = generation /\ deferred' = Retained
        /\ UNCHANGED <<generation, fence, mirror, player, target, pc, job, aim>>
        /\ renderer' = IF seen = generation THEN renderer ELSE Unset
        /\ intent' = IF seen = generation THEN intent ELSE "none"
    BY <1>1 DEF ReceiveOther
  <2>2. deferred' = Nothing \/ (deferred' = deferred /\ seen = generation)
    BY <2>1 DEF Retained
  <2>3. TypeOK'
    BY <2>1, <2>2, NothingTyped DEF TypeOK, mirror
  <2>4. Needs(deferred.cmd, queue)' <=> Needs(deferred'.cmd, queue)
    BY <2>1 DEF Needs, Known, mirror
  <2> QED
    BY <2>1, <2>2, <2>3, <2>4
    DEF TypeOK, JobWhileWorking, JobIsCurrent, JobFitsStep, DeferredIsOfSeen,
        DeferredStillWaits, Working
<1>2. CASE NewActivation
  <2>1. /\ pc = "idle" /\ generation' = generation + 1 /\ generation < MaxGeneration
        /\ fence' \in {fence, "none"}
        /\ UNCHANGED <<seen, mirror, player, renderer, target, deferred, pc, job, history>>
    BY <1>2 DEF NewActivation
  <2>2. TypeOK'
    BY <2>1, RendererAssumption DEF TypeOK, mirror, history
  <2>3. Needs(deferred.cmd, queue)' <=> Needs(deferred.cmd, queue)
    BY <2>1 DEF Needs, Known, mirror
  <2> QED
    BY <2>1, <2>2, <2>3
    DEF TypeOK, JobWhileWorking, JobIsCurrent, JobFitsStep, DeferredIsOfSeen,
        DeferredStillWaits, Working, history
<1>3. CASE FollowPeer
  <2>1. UNCHANGED <<activation, fence, queue, applied, renderer, target, deferred, pc, job, history>>
    BY <1>3 DEF FollowPeer
  <2>2. core' \in [mirrors : BOOLEAN, cursor : Items \cup {NoItem}] /\ player' \in Player
    BY <1>3, StoppedTyped, RendererAssumption DEF FollowPeer, TypeOK, Queue
  <2>3. TypeOK'
    BY <2>1, <2>2 DEF TypeOK, activation, history
  <2>4. JobFitsStep'
    BY <2>1 DEF JobFitsStep, Proposed, Wanted, cmd
  <2> QED
    BY <2>1, <2>3, <2>4, GoOn
<1>4. CASE \E q \in Queues, same \in BOOLEAN : QueueEvent(q, same)
  <2>1. /\ pc = "idle" /\ pc' = "sink" /\ queue' \in Queues
        /\ applied' \in BOOLEAN /\ core' \in [mirrors : BOOLEAN, cursor : Items \cup {NoItem}]
        /\ UNCHANGED <<activation, fence, player, renderer, target, deferred, job, history>>
    BY <1>4 DEF QueueEvent, TypeOK
  <2>2. TypeOK'
    BY <2>1 DEF TypeOK, activation, history
  <2> QED
    BY <2>1, <2>2
    DEF JobWhileWorking, JobIsCurrent, JobFitsStep, DeferredIsOfSeen, DeferredStillWaits,
        Working, activation, history
<1> QED
  BY <1>1, <1>2, <1>3, <1>4

\* The steps of a queue event after the reducer, up to the replay.
LEMMA SinkInv == ASSUME Inv, Materialize \/ LeaveQueue \/ NotReady PROVE Inv'
<1> USE DEF Inv
<1>1. /\ UNCHANGED <<activation, queue, renderer, target, deferred, job, history>>
      /\ \/ pc = "sink" /\ pc' = "replay"
         \/ pc = "replay" /\ pc' = "idle" /\ ~Ready(deferred)
  BY DEF Materialize, LeaveQueue, NotReady, mirror
<1>2. fence' \in {"none", "take", "assert"} /\ applied' \in BOOLEAN
  BY DEF Materialize, LeaveQueue, NotReady, TypeOK, mirror
<1>3. core' \in [mirrors : BOOLEAN, cursor : Items \cup {NoItem}]
  <2>1. queue.queued \subseteq Items
    BY RendererAssumption DEF TypeOK, Queue
  <2>2. CASE Materialize
    BY <2>1, <2>2 DEF Materialize, TypeOK
  <2>3. CASE LeaveQueue
    BY <2>1, <2>3 DEF LeaveQueue, TypeOK
  <2>4. CASE NotReady
    BY <2>4 DEF NotReady, TypeOK, mirror
  <2> QED
    BY <2>2, <2>3, <2>4
<1>4. player' \in Player
  BY StoppedTyped DEF Materialize, LeaveQueue, NotReady, TypeOK
<1>5. TypeOK'
  BY <1>1, <1>2, <1>3, <1>4 DEF TypeOK, activation, history
<1>6. Needs(deferred.cmd, queue)' <=> Needs(deferred.cmd, queue)
  BY <1>1 DEF Needs, Known
<1> QED
  BY <1>1, <1>5, <1>6
  DEF Ready, JobWhileWorking, JobIsCurrent, JobFitsStep, DeferredIsOfSeen,
      DeferredStillWaits, Working, activation, history

\* A stop or a pause that does not wait for the queue of its target.
LEMMA WithoutQueueInv == ASSUME Inv, StopAnyway \/ PauseSource PROVE Inv'
<1> USE DEF Inv
<1>1. CASE StopAnyway /\ fence = "none"
  <2> DEFINE stop == [NoCommand EXCEPT !.mode = "stop"]
  <2>1. /\ pc = "stopAnyway" /\ pc' = "execute" /\ deferred' = Nothing
        /\ job' = [job EXCEPT !.cmd = stop]
        /\ UNCHANGED <<activation, fence, mirror, player, renderer, target, history>>
    BY <1>1 DEF StopAnyway
  <2>2. stop \in Command /\ stop.mode = "stop"
    BY NothingTyped DEF Command, Modes
  <2>3. job' \in Owed /\ job'.born = job.born /\ job'.cmd.mode = "stop"
    BY <2>1, <2>2 DEF TypeOK, Owed
  <2>4. TypeOK'
    BY <2>1, <2>3, NothingTyped DEF TypeOK, activation, mirror, history
  <2>5. intent = "stop"
    BY <2>1 DEF JobFitsStep, JobIsCurrent, Working
  <2> QED
    BY <2>1, <2>3, <2>4, <2>5
    DEF JobWhileWorking, JobIsCurrent, JobFitsStep, DeferredIsOfSeen, DeferredStillWaits,
        Working, activation, history
<1>2. CASE PauseSource \/ (StopAnyway /\ fence # "none")
  <2>1. /\ UNCHANGED <<activation, fence, mirror, renderer, target, deferred, history>>
        /\ Drop /\ pc \in {"stopAnyway", "pauseSource"}
    BY <1>2 DEF PauseSource, StopAnyway
  <2>2. player' \in Player
    BY <1>2 DEF PauseSource, StopAnyway, TypeOK, Player
  <2>3. TypeOK'
    BY <2>1, <2>2, NothingTyped DEF TypeOK, activation, mirror, history, Drop
  <2>4. JobFitsStep'
    BY <2>1 DEF JobFitsStep, Drop
  <2> QED
    BY <2>1, <2>3, <2>4, GoOn DEF mirror
<1> QED
  BY <1>1, <1>2
------------------------------------------------------------------------------
(* The theorems *)

THEOREM Invariance == Spec => []Inv
<1>1. Inv /\ [Next]_vars => Inv'
  <2> SUFFICES ASSUME Inv, [Next]_vars PROVE Inv'
    OBVIOUS
  <2>1. CASE \E c \in Sent : ReceiveCommand(c)
    BY <2>1, ReceiveInv
  <2>2. CASE \/ ReceiveOther \/ NewActivation \/ FollowPeer
             \/ (\E q \in Queues, same \in BOOLEAN : QueueEvent(q, same))
    BY <2>2, IdleInv
  <2>3. CASE UNCHANGED vars
    <3>1. UNCHANGED <<activation, fence, mirror, player, renderer, target, deferred, pc, job, history>>
      BY <2>3 DEF vars
    <3>2. TypeOK'
      BY <3>1 DEF Inv, TypeOK, activation, mirror, history
    <3>3. JobFitsStep'
      BY <3>1 DEF Inv, JobFitsStep, Proposed, Wanted, cmd
    <3> QED
      BY <3>1, <3>2, <3>3, GoOn DEF Inv, mirror
  <2> QED
    BY <2>1, <2>2, <2>3, ExecutionInv, SinkInv, WithoutQueueInv, ReplayInv, BesideInv
    DEF Next, Event
<1> QED
  BY <1>1, InitInv, PTL DEF Spec

\* The state is well typed for any queues, commands and number of activations.
THEOREM TypeCorrect == Spec => []TypeOK
  BY Invariance, PTL DEF Inv

\* The deferred command is the newest intent of its activation.
THEOREM NewestDeferred == Spec => []DeferredIsNewest
<1>1. Inv => DeferredIsNewest
  BY DEF Inv, DeferredIsOfSeen, DeferredIsNewest
<1> QED
  BY <1>1, Invariance, PTL

\* Between events no deferred command is left whose queue is here.
THEOREM NoneForgotten == Spec => []ReadyIsReplayed
<1>1. Inv => ReadyIsReplayed
  BY DEF Inv, DeferredStillWaits, ReadyIsReplayed
<1> QED
  BY <1>1, Invariance, PTL

\* A late queue does not revive a PLAY that was paused or stopped since.
THEOREM NoResurrection == Spec => NeverResurrects
<1>1. Inv /\ [Next]_vars => [Accepts /\ cmd.mode = "play" => intent = "play"]_vars
  <2> SUFFICES ASSUME Inv, Next, Accepts, cmd.mode = "play" PROVE intent = "play"
    OBVIOUS
  <2>1. pc \in Working
    BY DEF Accepts, Next, Event, ReceiveCommand, ReceiveOther, QueueEvent, NewActivation,
           FollowPeer, StopAnyway, PauseSource, Execution, SkipOrRefuse, Executes,
           ExecuteTransport, ExecuteUnaligned, ExecutePrepared, ExecuteLookup, StreamStarts,
           LookupFails, Publish, Materialize, LeaveQueue, NotReady, Replay, Admit, Drop,
           FenceRises, ReportConfirms, AudioStops, LoadEnds, AudioObeys, Working
  <2> QED
    BY <2>1 DEF Inv, JobIsCurrent, cmd
<1> QED
  BY <1>1, Invariance, PTL DEF Spec, NeverResurrects

\* A command of an activation that is over does not touch the player.
THEOREM RetiredStaysOut == Spec => RetiredNeverActs
<1>1. Inv /\ [Next]_vars => [pc' # pc /\ player' # player /\ job # Nothing => job.born = generation]_vars
  BY DEF Inv, JobWhileWorking, JobIsCurrent
<1> QED
  BY <1>1, Invariance, PTL DEF Spec, RetiredNeverActs

\* What is accepted of a target with a transport is what the player does.
LEMMA AcceptedLemma ==
  ASSUME Inv, Next, Accepts, cmd.track # NoItem, cmd.mode \in {"play", "pause"},
         pc = "execute" => CaughtUp(player)
  PROVE  Serves(player', cmd.track, cmd.mode)
<1>1. /\ cmd.track \in Items /\ Song[cmd.track] \in Songs /\ Song[cmd.track] # NoSong
      /\ player \in Player
  BY RendererAssumption DEF Inv, TypeOK, Owed, Command, cmd
<1>2. Proposed.track = cmd.track /\ Proposed.mode = cmd.mode /\ Wanted /\ Prepares /\ ~IsEcho
  BY DEF Proposed, Wanted, Prepares, IsEcho
<1>3. ExecutePrepared \/ StreamStarts
  BY <1>2
  DEF Accepts, Next, Event, ReceiveCommand, ReceiveOther, QueueEvent, NewActivation,
      FollowPeer, StopAnyway, PauseSource, Execution, SkipOrRefuse, Executes,
      ExecuteTransport, ExecuteUnaligned, ExecuteLookup, LookupFails, Publish, Fails,
      Materialize, LeaveQueue, NotReady, Replay, Admit, Drop, FenceRises, ReportConfirms,
      AudioStops, LoadEnds, AudioObeys
<1>4. CASE ExecutePrepared
  <2>1. CaughtUp(player) /\ IsPrepared /\ Transport
    BY <1>4 DEF ExecutePrepared, Executes
  <2>2. /\ player.song = Song[cmd.track] /\ player.loaded /\ ~player.stopping
        /\ player.loading = NoSong /\ player.on = player.plays
    BY <1>1, <1>2, <2>1 DEF CaughtUp, IsPrepared
  <2>3. /\ player' = [player EXCEPT !.plays = player'.plays]
        /\ player'.plays = (cmd.mode = "play")
    BY <1>1, <2>1, <2>2 DEF Transport, Player
  <2> QED
    BY <1>1, <2>2, <2>3 DEF Serves, Player
<1>5. CASE StreamStarts
  <2>1. player'.plays = (cmd.mode = "play") /\ player'.loading = Song[cmd.track]
    BY <1>1, <1>2, <1>5 DEF StreamStarts, Player
  <2> QED
    BY <1>1, <2>1 DEF Serves
<1> QED
  BY <1>3, <1>4, <1>5

\* An accepted target is what a player that had caught up does or is about to do.
THEOREM AcceptedTargetIsServed == Spec => AcceptedIsDone
<1>1. Inv /\ [Next]_vars =>
        [/\ Accepts /\ cmd.track # NoItem /\ cmd.mode \in {"play", "pause"}
         /\ pc = "execute" => CaughtUp(player)
         => Serves(player', cmd.track, cmd.mode)]_vars
  BY AcceptedLemma
<1> QED
  BY <1>1, Invariance, PTL DEF Spec, AcceptedIsDone
==============================================================================
