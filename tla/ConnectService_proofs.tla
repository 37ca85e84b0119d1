------------------------- MODULE ConnectService_proofs -------------------------
(***************************************************************************)
(* Safety of the service with its delegation coordinator, for any number   *)
(* of generations and of requests.                                         *)
(***************************************************************************)
EXTENDS ConnectService, SequenceTheorems, TLAPS

USE GenerationAssumption, RequestsAssumption

------------------------------------------------------------------------------
(* Types, in parts *)

Pcs == {"idle", "fail", "done"} \cup CandidatePcs \cup RestorePcs

Tasks == [pc : Pcs, over : 0..MaxGeneration, expected : Stamps, captured : {"none", "owner", "guest"}]

\* A restore is owed only over a guest.
ActiveOK ==
    /\ active \in [generation : 0..MaxGeneration, required : BOOLEAN]
    /\ active.required => active.generation \in Generations

CoordOK ==
    /\ lifecycle \in {"disabled", "enabled", "shutting down"}
    /\ generation \in 0..MaxGeneration
    /\ pending \in [generation : 0..MaxGeneration, kind : {"none", "candidate", "restore"},
                    over : 0..MaxGeneration]
    /\ ActiveOK
    /\ cancelled \subseteq Generations

TaskOK == task \in [Generations -> Tasks]

StopOK ==
    /\ stop \in [pc : {"idle", "join", "gate", "clear", "restore", "drop", "end", "over"},
                 by : {"none", "coordinator", "service"}, late : BOOLEAN]
    /\ expired \subseteq Generations

HostOK ==
    /\ lane \in {Free, Playback, Stamp("shutdown", 0)} \cup [by : {"task", "retire"}, id : Generations]
    /\ authority \in Stamps
    /\ snapshot \in {"none", "owner", "guest"} /\ queue \in {"owner", "guest"}

Calls == [op : {"connect", "disconnect"}, token : 0..MaxRequests]

Services == [pc : {"start", "dial", "bootstrap", "listen", "undo", "retire", "await",
                   "stop", "stop directly"}, stamp : Stamps]

Outcomes == {"none", "connected", "cancelled", "failed", "superseded",
             "superseded by enable", "disconnected"}

\* Who waits for the gate, who holds it, and how the last one returned.
GateOK == gate \in Seq(Calls) /\ service \in Services /\ outcome \in Outcomes

\* Epochs and waiting disables are bounded by what was asked for.
BoundsOK ==
    /\ intent.epoch <= requests /\ withdrawing <= requests
    /\ gate # <<>> => requests > 0

ServiceOK ==
    /\ intent \in [on : BOOLEAN, epoch : 0..MaxRequests]
    /\ requests \in 0..MaxRequests /\ withdrawing \in 0..MaxRequests
    /\ GateOK
    /\ claim \in 0..MaxRequests
    /\ offered \in BOOLEAN /\ incomplete \in BOOLEAN /\ listener \in Stamps
    /\ BoundsOK

Types == CoordOK /\ TaskOK /\ StopOK /\ HostOK /\ ServiceOK

LEMMA TypesAreTypeOK == Types => TypeOK
<1> SUFFICES ASSUME Types PROVE TypeOK
  OBVIOUS
<1>1. CoordOK /\ TaskOK /\ StopOK /\ HostOK /\ ServiceOK
  BY DEF Types
<1>2. task \in [Generations -> [pc : {"idle", "fail", "done"} \cup CandidatePcs \cup RestorePcs,
                                over : 0..MaxGeneration, expected : Stamps,
                                captured : {"none", "owner", "guest"}]]
  BY <1>1 DEF TaskOK, Tasks, Pcs
<1>3. gate \in Seq([op : {"connect", "disconnect"}, token : 0..MaxRequests])
  BY <1>1 DEF ServiceOK, GateOK, Calls
<1> QED
  BY <1>1, <1>2, <1>3, Zenon DEF TypeOK, CoordOK, ActiveOK, StopOK, HostOK, ServiceOK, GateOK, Services, Outcomes

\* Stamps are told apart by who installed them.
LEMMA StampFacts ==
  /\ NoStamp \in Stamps /\ NoStamp.by = "none"
  /\ \A a \in Stamps : a.by \in {"none", "connect", "guest", "restore"}
                       /\ (a.by = "none" <=> a = NoStamp)
  /\ \A g \in Generations : /\ Guest(g) \in Stamps /\ Guest(g).by = "guest"
                            /\ Restored(g) \in Stamps /\ Restored(g).by = "restore"
  /\ \A n \in 1..MaxRequests : Connected(n) \in Stamps /\ Connected(n).by = "connect"
<1>1. /\ NoStamp.by = "none" /\ \A g : Guest(g).by = "guest" /\ Restored(g).by = "restore"
      /\ \A n : Connected(n).by = "connect"
  BY DEF NoStamp, Guest, Restored, Connected, Stamp
<1> QED
  BY <1>1 DEF Stamps

LEMMA InitTypes == Init => Types
<1> SUFFICES ASSUME Init PROVE Types
  OBVIOUS
<1>0. 0 \in 0..MaxGeneration /\ 0 \in 0..MaxRequests
  OBVIOUS
<1>1. CoordOK
  BY <1>0 DEF CoordOK, ActiveOK, NotPending, Owner, Init, DelegationInit
<1>2. TaskOK
  <2>1. NoTask \in Tasks
    BY <1>0, StampFacts DEF Tasks, Pcs, NoTask
  <2> QED
    BY <2>1 DEF TaskOK, Init, DelegationInit
<1>3. StopOK
  BY DEF StopOK, NoStop, Init, DelegationInit
<1>4. HostOK
  BY StampFacts DEF HostOK, Init, DelegationInit
<1>5. ServiceOK
  <2>1. gate \in Seq(Calls) /\ gate = <<>>
    BY DEF Init
  <2>2. service \in Services
    BY StampFacts DEF Init, Resting, Services
  <2>3. intent \in [on : BOOLEAN, epoch : 0..MaxRequests] /\ intent.epoch = 0
    BY <1>0 DEF Init
  <2>4. requests = 0 /\ withdrawing = 0 /\ claim = 0 /\ listener = NoStamp /\ offered = FALSE
        /\ incomplete = FALSE /\ outcome = "none"
    BY DEF Init
  <2>5. intent.epoch <= requests /\ withdrawing <= requests /\ (gate # <<>> => requests > 0)
    BY <2>1, <2>3, <2>4
  <2>6. offered \in BOOLEAN /\ incomplete \in BOOLEAN
    BY <2>4, Zenon
  <2> QED
    BY <1>0, <2>1, <2>2, <2>3, <2>4, <2>5, <2>6, StampFacts DEF ServiceOK, GateOK, BoundsOK, Outcomes
<1> QED
  BY <1>1, <1>2, <1>3, <1>4, <1>5 DEF Types

------------------------------------------------------------------------------
(* The helpers of the coordinator keep types. *)

LEMMA GotoTyped ==
  ASSUME TaskOK, NEW g \in Generations, NEW pc \in Pcs
  PROVE  [task EXCEPT ![g].pc = pc] \in [Generations -> Tasks]
<1>1. task[g] \in Tasks
  BY DEF TaskOK
<1>2. [task[g] EXCEPT !.pc = pc] \in Tasks
  BY <1>1 DEF Tasks
<1> QED
  BY <1>2 DEF TaskOK

LEMMA EndedTyped ==
  ASSUME TaskOK, NEW ends
  PROVE  Ended(ends) \in [Generations -> Tasks]
<1>1. ASSUME NEW g \in Generations PROVE [task[g] EXCEPT !.pc = "done"] \in Tasks
  <2>1. task[g] \in Tasks /\ "done" \in Pcs
    BY DEF TaskOK, Pcs
  <2> QED
    BY <2>1 DEF Tasks
<1> QED
  BY <1>1 DEF Ended, TaskOK

LEMMA NewTaskTyped ==
  ASSUME NEW over \in 0..MaxGeneration, NEW pc \in Pcs
  PROVE  [NoTask EXCEPT !.pc = pc] \in Tasks /\ [NoTask EXCEPT !.pc = pc, !.over = over] \in Tasks
<1>1. 0 \in 0..MaxGeneration
  OBVIOUS
<1> QED
  BY <1>1, StampFacts DEF Tasks, NoTask

LEMMA ReplacedTyped ==
  ASSUME CoordOK
  PROVE  Replaced \subseteq Generations /\ Delegated \subseteq Generations
<1>1. pending.generation \in 0..MaxGeneration /\ active.generation \in 0..MaxGeneration
  BY DEF CoordOK, ActiveOK
<1>2. (0..MaxGeneration) \ {0} \subseteq Generations
  BY DEF Generations
<1> QED
  BY <1>1, <1>2 DEF Replaced, Delegated

LEMMA NextGeneration ==
  ASSUME CoordOK, generation # MaxGeneration
  PROVE  generation + 1 \in Generations /\ generation + 1 \in 0..MaxGeneration
<1>1. generation \in 0..MaxGeneration
  BY DEF CoordOK
<1> QED
  BY <1>1 DEF Generations

LEMMA ExhaustTyped ==
  ASSUME CoordOK, NEW guest \in SUBSET Generations, Exhaust(guest),
         ActiveOK'
  PROVE  CoordOK'
<1>1. NotPending \in [generation : 0..MaxGeneration, kind : {"none", "candidate", "restore"},
                      over : 0..MaxGeneration]
  BY DEF NotPending
<1>2. cancelled' \subseteq Generations
  BY ReplacedTyped DEF Exhaust, CoordOK
<1> QED
  BY <1>1, <1>2 DEF Exhaust, CoordOK

LEMMA PendRestoreTyped ==
  ASSUME CoordOK, TaskOK, NEW g \in Generations, NEW ends, PendRestore(g, ends),
         ActiveOK'
  PROVE  CoordOK' /\ TaskOK'
<1>1. CASE generation = MaxGeneration
  <2>1. Exhaust({g}) /\ task' = Ended(ends)
    BY <1>1 DEF PendRestore
  <2> QED
    BY <2>1, ExhaustTyped, EndedTyped DEF TaskOK
<1>2. CASE generation # MaxGeneration
  <2>1. generation + 1 \in Generations /\ generation + 1 \in 0..MaxGeneration
    BY <1>2, NextGeneration
  <2>2. g \in 0..MaxGeneration
    BY DEF Generations
  <2>3. [NoTask EXCEPT !.pc = "restore", !.over = g] \in Tasks
    BY <2>2, NewTaskTyped DEF Pcs, RestorePcs
  <2>4. TaskOK'
    BY <1>2, <2>1, <2>3, EndedTyped DEF PendRestore, TaskOK
  <2>5. cancelled' \subseteq Generations
    BY <1>2, ReplacedTyped DEF PendRestore, CoordOK
  <2>6. pending' \in [generation : 0..MaxGeneration, kind : {"none", "candidate", "restore"},
                      over : 0..MaxGeneration]
    BY <1>2, <2>1, <2>2 DEF PendRestore
  <2>7. lifecycle' = lifecycle /\ generation' = generation + 1
    BY <1>2 DEF PendRestore
  <2>8. CoordOK'
    BY <2>1, <2>5, <2>6, <2>7 DEF CoordOK
  <2> QED
    BY <2>4, <2>8
<1> QED
  BY <1>1, <1>2

LEMMA AdmitTyped ==
  ASSUME CoordOK, TaskOK, Admit
  PROVE  CoordOK' /\ TaskOK'
<1>0. ActiveOK'
  BY DEF Admit, CoordOK, ActiveOK
<1>1. CASE generation = MaxGeneration
  <2>1. Exhaust({}) /\ task' = task
    BY <1>1 DEF Admit
  <2> QED
    BY <1>0, <2>1, ExhaustTyped DEF TaskOK
<1>2. CASE generation # MaxGeneration
  <2>1. generation + 1 \in Generations /\ generation + 1 \in 0..MaxGeneration /\ 0 \in 0..MaxGeneration
    BY <1>2, NextGeneration
  <2>3. [NoTask EXCEPT !.pc = "prepare"] \in Tasks
    BY <2>1, NewTaskTyped DEF Pcs, CandidatePcs
  <2>4. TaskOK'
    BY <1>2, <2>1, <2>3 DEF Admit, TaskOK
  <2>5. cancelled' \subseteq Generations
    BY <1>2, ReplacedTyped DEF Admit, CoordOK
  <2>6. pending' \in [generation : 0..MaxGeneration, kind : {"none", "candidate", "restore"},
                      over : 0..MaxGeneration]
    BY <1>2, <2>1 DEF Admit
  <2>7. lifecycle' = lifecycle /\ generation' = generation + 1
    BY <1>2 DEF Admit
  <2>8. CoordOK'
    BY <1>0, <2>1, <2>5, <2>6, <2>7 DEF CoordOK
  <2> QED
    BY <2>4, <2>8
<1> QED
  BY <1>1, <1>2

LEMMA StartRestoreTyped ==
  ASSUME CoordOK, TaskOK, NEW g \in Generations, NEW ends, StartRestore(g, ends)
  PROVE  CoordOK' /\ TaskOK'
<1>1. ActiveOK'
  <2>1. active \in [generation : 0..MaxGeneration, required : BOOLEAN] /\ active.generation = g
    BY DEF StartRestore, CoordOK, ActiveOK
  <2>2. active' = [generation |-> active.generation, required |-> TRUE]
    BY <2>1 DEF StartRestore
  <2> QED
    BY <2>1, <2>2 DEF ActiveOK
<1>2. CASE PendRestore(g, ends)
  BY <1>1, <1>2, PendRestoreTyped
<1>3. CASE task' = Ended(ends) /\ UNCHANGED <<lifecycle, generation, pending, cancelled>>
  BY <1>1, <1>3, EndedTyped DEF CoordOK, TaskOK
<1> QED
  BY <1>2, <1>3 DEF StartRestore

LEMMA NothingPendingTyped ==
  /\ NotPending \in [generation : 0..MaxGeneration, kind : {"none", "candidate", "restore"},
                     over : 0..MaxGeneration]
  /\ Owner \in [generation : 0..MaxGeneration, required : BOOLEAN] /\ ~Owner.required
<1>1. 0 \in 0..MaxGeneration
  OBVIOUS
<1> QED
  BY <1>1 DEF NotPending, Owner

LEMMA FailPendingTyped ==
  ASSUME CoordOK, TaskOK, NEW g \in Generations, FailPending(g), active' = active
  PROVE  CoordOK' /\ TaskOK'
<1>0. ActiveOK /\ ActiveOK'
  BY DEF CoordOK, ActiveOK
<1>1. CASE pending.generation = g /\ lifecycle = "enabled" /\ active.required
  <2>1. PendRestore(active.generation, {g})
    BY <1>1 DEF FailPending
  <2>2. active.generation \in Generations
    BY <1>0, <1>1 DEF ActiveOK
  <2> QED
    BY <1>0, <2>1, <2>2, PendRestoreTyped
<1>2. CASE task' = Ended({g}) /\ pending' \in {pending, NotPending}
           /\ UNCHANGED <<lifecycle, generation, cancelled>>
  BY <1>0, <1>2, EndedTyped, NothingPendingTyped DEF CoordOK, TaskOK
<1> QED
  BY <1>1, <1>2 DEF FailPending

LEMMA BeginShutdownTyped ==
  ASSUME CoordOK, StopOK, BeginShutdown, UNCHANGED expired
  PROVE  CoordOK' /\ StopOK'
<1>1. cancelled \cup Replaced \cup Delegated \subseteq Generations
  BY ReplacedTyped DEF CoordOK
<1>2. CoordOK'
  BY <1>1, NothingPendingTyped DEF BeginShutdown, CoordOK, ActiveOK, coordinator
<1>3. stop' \in [pc : {"idle", "join", "gate", "clear", "restore", "drop", "end", "over"},
                 by : {"none", "coordinator", "service"}, late : BOOLEAN]
  BY DEF BeginShutdown, NoStop
<1> QED
  BY <1>2, <1>3 DEF StopOK

------------------------------------------------------------------------------
(* The invariant *)

Holding == {"capture", "join", "commit", "recommit"}

Expecting == {"preparing", "prepared", "validated", "activate", "capture", "join", "commit"}

Connecting == {"dial", "bootstrap", "listen", "retire", "undo"}

Stopping == {"stop", "stop directly", "undo"}

\* What task t of generation g may be while l holds the lane: a task between
\* activation and commit has the lane and expects something installed, and
\* captures a queue exactly if that is not a guest's, so never a guest's queue.
Fine(t, g, l) ==
    /\ t.pc \in Expecting => t.expected.by # "none"
    /\ t.pc \in Holding => l = Stamp("task", g)
    /\ t.captured # "guest"
    /\ t.pc \in {"join", "commit"} /\ t.captured = "none" => t.expected.by = "guest"

TaskInv == \A g \in Generations : Fine(task[g], g, lane)

\* The shutdown has the lane from the fence to its end.
StopInv ==
    /\ stop.pc \in {"clear", "restore", "drop"} => lane = Stamp("shutdown", 0)
    /\ stop.pc \in {"restore", "drop"} => authority = NoStamp
    /\ stop.pc = "drop" => queue = "owner"
    /\ stop.pc \in {"end", "over"} /\ ~stop.late /\ stop.by = "service" =>
          authority = NoStamp /\ snapshot = "none"
    /\ stop.pc # "idle" => lifecycle # "enabled" /\ service.pc \in Stopping

HostInv ==
    /\ OwnerKeepsQueue
    /\ authority.by = "guest" => snapshot = "owner"
    /\ authority.by \in {"connect", "restore"} => snapshot = "none"

\* Nothing of a delegation is left that could disturb a connect.
Clean ==
    /\ queue = "owner" /\ snapshot = "none"
    /\ pending = NotPending /\ listener = NoStamp /\ ~offered
    /\ lifecycle = "enabled" => active = Owner

ServiceInv ==
    /\ service.stamp.by \in {"none", "connect"}
    /\ service.pc \in Connecting => Clean /\ ~incomplete /\ authority \in {NoStamp, service.stamp}
    /\ service.pc \in Connecting \ {"dial"} => service.stamp.by = "connect"
    /\ service.pc = "dial" => authority = NoStamp
    /\ authority = NoStamp /\ ~incomplete /\ service.pc \in {"start", "await"} => Clean
    /\ service.pc \in {"await", "stop", "stop directly"} => listener = NoStamp /\ ~offered
    /\ service.pc = "stop directly" => stop.by = "service"

PendingInv == lifecycle # "enabled" => pending = NotPending

IInv == Types /\ TaskInv /\ StopInv /\ HostInv /\ ServiceInv /\ PendingInv

------------------------------------------------------------------------------
(* Steps that move one task and nothing else *)

LEMMA GotoIs ==
  ASSUME TaskOK, NEW g \in Generations, NEW pc \in Pcs, Goto(g, pc)
  PROVE  \E t \in Tasks : /\ task' = [task EXCEPT ![g] = t]
                          /\ t.pc = pc /\ t.expected = task[g].expected
                          /\ t.captured = task[g].captured
<1>1. task[g] \in Tasks
  BY DEF TaskOK
<1>2. [task[g] EXCEPT !.pc = pc] \in Tasks
  BY <1>1 DEF Tasks
<1>3. LET t == [task[g] EXCEPT !.pc = pc]
      IN t.pc = pc /\ t.expected = task[g].expected /\ t.captured = task[g].captured
  BY <1>1 DEF Tasks
<1>4. task' = [task EXCEPT ![g] = [task[g] EXCEPT !.pc = pc]]
  BY DEF Goto
<1> QED
  BY <1>2, <1>3, <1>4

\* A task that goes to a place where it needs neither the lane nor what it
\* expects, or stays on a side of both, remains fine.
LEMMA GotoFine ==
  ASSUME TaskOK, TaskInv, NEW g \in Generations, NEW pc \in Pcs, Goto(g, pc),
         pc \in Expecting => task[g].pc \in Expecting,
         pc \in Holding => task[g].pc \in Holding,
         pc \in {"join", "commit"} => task[g].pc \in {"join", "commit"}
  PROVE  \E t \in Tasks : task' = [task EXCEPT ![g] = t] /\ Fine(t, g, lane)
<1>1. PICK t \in Tasks : /\ task' = [task EXCEPT ![g] = t]
                         /\ t.pc = pc /\ t.expected = task[g].expected
                         /\ t.captured = task[g].captured
  BY GotoIs
<1>2. Fine(task[g], g, lane)
  BY DEF TaskInv
<1>3. Fine(t, g, lane)
  BY <1>1, <1>2 DEF Fine
<1> QED
  BY <1>1, <1>3

LEMMA OneTask ==
  ASSUME TaskOK, TaskInv, NEW g \in Generations, NEW t \in Tasks,
         task' = [task EXCEPT ![g] = t], Fine(t, g, lane'),
         lane' = lane \/ \A h \in Generations \ {g} : lane # Stamp("task", h)
  PROVE  TaskOK' /\ TaskInv'
<1>1. TaskOK'
  BY DEF TaskOK
<1>2. ASSUME NEW h \in Generations PROVE Fine(task'[h], h, lane')
  <2>1. CASE h = g
    BY <2>1 DEF TaskOK
  <2>2. CASE h # g
    <3>1. task'[h] = task[h]
      BY <2>2 DEF TaskOK
    <3>2. Fine(task[h], h, lane)
      BY DEF TaskInv
    <3> QED
      BY <2>2, <3>1, <3>2 DEF Fine
  <2> QED
    BY <2>1, <2>2
<1> QED
  BY <1>1, <1>2 DEF TaskInv

PureStep(g) ==
    \/ Prepare(g) \/ Prepared(g) \/ PrepareStops(g) \/ Validate(g) \/ StartActivation(g)
    \/ Capture(g) \/ Joined(g) \/ ActivationStops(g) \/ CommitRefused(g)
    \/ ReadGuest(g) \/ Reconnect(g) \/ RestoreStumbles(g) \/ RestoreStops(g)
    \/ RecordFailure(g) \/ Retry(g)

LEMMA PureTask ==
  ASSUME TaskOK, HostOK, HostInv, TaskInv, NEW g \in Generations, PureStep(g)
  PROVE  /\ UNCHANGED <<coordinator, stop, expired, host>>
         /\ TaskOK' /\ TaskInv'
<1> DEFINE Moved == \E t \in Tasks : task' = [task EXCEPT ![g] = t] /\ Fine(t, g, lane)
<1> USE DEF Pcs, CandidatePcs, RestorePcs, Expecting, Holding
<1>0. task[g] \in Tasks /\ Fine(task[g], g, lane)
  BY DEF TaskOK, TaskInv
<1>1. CASE Prepare(g)
  <2> DEFINE pc == IF authority = NoStamp THEN "fail" ELSE "preparing"
             t == [task[g] EXCEPT !.pc = pc, !.expected = authority]
  <2>1. task' = [task EXCEPT ![g] = t]
    BY <1>0, <1>1 DEF Prepare, TaskOK, Tasks
  <2>2. t \in Tasks /\ t.pc = pc /\ t.expected = authority /\ t.captured = task[g].captured
    BY <1>0 DEF Tasks, HostOK
  <2>3. pc = "preparing" => authority.by # "none"
    BY StampFacts DEF HostOK
  <2>4. Fine(t, g, lane)
    BY <1>0, <2>2, <2>3 DEF Fine
  <2>5. Moved
    BY <2>1, <2>2, <2>4
  <2> QED
    BY <1>1, <2>5, OneTask DEF Prepare, host
<1>2. CASE Capture(g)
  <2> DEFINE c == IF authority.by = "guest" THEN "none" ELSE queue
             t == [task[g] EXCEPT !.pc = "join", !.captured = c]
  <2>1. task' = [task EXCEPT ![g] = t]
    BY <1>0, <1>2 DEF Capture, TaskOK, Tasks
  <2>2. t \in Tasks /\ t.pc = "join" /\ t.expected = authority /\ t.captured = c
    BY <1>0, <1>2 DEF Tasks, HostOK, Capture
  <2>3. authority.by # "none"
    BY <1>0, <1>2 DEF Capture, Fine
  <2>4. authority.by # "guest" => c = "owner"
    BY <2>3, StampFacts DEF HostOK, HostInv, OwnerKeepsQueue
  <2>5. lane = Stamp("task", g)
    BY <1>0, <1>2 DEF Capture, Fine
  <2>6. Fine(t, g, lane)
    BY <2>2, <2>3, <2>4, <2>5 DEF Fine
  <2>7. Moved
    BY <2>1, <2>2, <2>6
  <2> QED
    BY <1>2, <2>7, OneTask DEF Capture, host
<1>3. CASE ReadGuest(g)
  <2> DEFINE pc == IF authority.by = "guest" THEN "reconnect" ELSE "failed"
             t == [task[g] EXCEPT !.pc = pc, !.expected = authority]
  <2>1. task' = [task EXCEPT ![g] = t]
    BY <1>0, <1>3 DEF ReadGuest, TaskOK, Tasks
  <2>2. t \in Tasks /\ t.pc = pc /\ t.captured = task[g].captured
    BY <1>0 DEF Tasks, HostOK
  <2>3. Fine(t, g, lane)
    BY <1>0, <2>2 DEF Fine
  <2>4. Moved
    BY <2>1, <2>2, <2>3
  <2> QED
    BY <1>3, <2>4, OneTask DEF ReadGuest, host
<1>4. CASE Prepared(g)
  <2>1. Moved
    BY <1>4, GotoFine DEF Prepared
  <2> QED
    BY <1>4, <2>1, OneTask DEF Prepared, host
<1>5. CASE PrepareStops(g)
  <2>1. Moved
    BY <1>5, GotoFine DEF PrepareStops
  <2> QED
    BY <1>5, <2>1, OneTask DEF PrepareStops, host
<1>6. CASE Validate(g)
  <2>1. Moved
    BY <1>6, GotoFine DEF Validate
  <2> QED
    BY <1>6, <2>1, OneTask DEF Validate, host
<1>7. CASE StartActivation(g)
  <2>1. Moved
    BY <1>7, GotoFine DEF StartActivation
  <2> QED
    BY <1>7, <2>1, OneTask DEF StartActivation, host
<1>8. CASE Joined(g)
  <2>1. Moved
    BY <1>8, GotoFine DEF Joined
  <2> QED
    BY <1>8, <2>1, OneTask DEF Joined, host
<1>9. CASE ActivationStops(g)
  <2>1. Moved
    BY <1>9, GotoFine DEF ActivationStops
  <2> QED
    BY <1>9, <2>1, OneTask DEF ActivationStops, host
<1>10. CASE CommitRefused(g)
  <2>1. Moved
    BY <1>10, GotoFine DEF CommitRefused
  <2> QED
    BY <1>10, <2>1, OneTask DEF CommitRefused, host
<1>11. CASE Reconnect(g)
  <2>1. Moved
    BY <1>11, GotoFine DEF Reconnect
  <2> QED
    BY <1>11, <2>1, OneTask DEF Reconnect, host
<1>12. CASE RestoreStumbles(g)
  <2>1. Moved
    BY <1>12, GotoFine DEF RestoreStumbles
  <2> QED
    BY <1>12, <2>1, OneTask DEF RestoreStumbles, host
<1>13. CASE RestoreStops(g)
  <2>1. Moved
    BY <1>13, GotoFine DEF RestoreStops
  <2> QED
    BY <1>13, <2>1, OneTask DEF RestoreStops, host
<1>14. CASE RecordFailure(g)
  <2>1. Moved
    BY <1>14, GotoFine DEF RecordFailure
  <2> QED
    BY <1>14, <2>1, OneTask DEF RecordFailure, host
<1>15. CASE Retry(g)
  <2>1. Moved
    BY <1>15, GotoFine DEF Retry
  <2> QED
    BY <1>15, <2>1, OneTask DEF Retry, host
<1> QED
  BY <1>1, <1>2, <1>3, <1>4, <1>5, <1>6, <1>7, <1>8, <1>9, <1>10, <1>11, <1>12, <1>13,
     <1>14, <1>15 DEF PureStep

------------------------------------------------------------------------------
(* What a step of the delegation may do to the rest *)

\* The service waits for the delegation's steps without taking part in them:
\* what it may rely on meanwhile.
Frame ==
    /\ Clean => Clean'
    /\ \/ authority' = authority
       \/ ~Clean /\ authority' # NoStamp
       \/ authority' = NoStamp /\ stop.pc = "clear"
    /\ stop'.by = stop.by
    /\ stop'.pc = "idle" <=> stop.pc = "idle"
    /\ lifecycle' = lifecycle \/ lifecycle' # "enabled"

Kept ==
    /\ CoordOK' /\ TaskOK' /\ StopOK' /\ HostOK'
    /\ TaskInv' /\ StopInv' /\ HostInv' /\ PendingInv'
    /\ Frame

LEMMA LaneFacts ==
  /\ Free.by = "none" /\ Playback.by = "playback" /\ Stamp("shutdown", 0).by = "shutdown"
  /\ \A g : Stamp("task", g).by = "task" /\ Stamp("retire", g).by = "retire"
  /\ \A g, h : Stamp("task", g) = Stamp("task", h) => g = h
  /\ \A g \in Generations : /\ Stamp("task", g) \in [by : {"task", "retire"}, id : Generations]
                            /\ Stamp("retire", g) \in [by : {"task", "retire"}, id : Generations]
BY DEF Free, Playback, Stamp

LEMMA KeptByTasks ==
  ASSUME IInv, UNCHANGED <<coordinator, stop, expired, host, calls, lan>>, TaskOK', TaskInv'
  PROVE  Kept
<1>0. CoordOK /\ StopOK /\ HostOK
  BY DEF IInv, Types
<1>1. CoordOK' /\ StopOK' /\ HostOK'
  <2>1. CoordOK'
    BY <1>0 DEF CoordOK, ActiveOK, coordinator
  <2>2. StopOK'
    BY <1>0 DEF StopOK
  <2>3. HostOK'
    BY <1>0 DEF HostOK, host
  <2> QED
    BY <2>1, <2>2, <2>3
<1>2. StopInv' /\ HostInv' /\ PendingInv'
  BY DEF IInv, StopInv, HostInv, OwnerKeepsQueue, PendingInv, coordinator, host, calls
<1>3. Frame
  BY DEF Frame, Clean, coordinator, host, lan
<1> QED
  BY <1>1, <1>2, <1>3 DEF Kept

LEMMA KeptPure ==
  ASSUME IInv, UNCHANGED <<calls, lan>>, NEW g \in Generations, PureStep(g)
  PROVE  Kept
<1>1. UNCHANGED <<coordinator, stop, expired, host>> /\ TaskOK' /\ TaskInv'
  BY PureTask DEF IInv, Types
<1> QED
  BY <1>1, KeptByTasks

\* The steps that take the lane for a task or give it back.
LaneStep(g) == TakeLane(g) \/ Discard(g) \/ TakeLaneBack(g) \/ DiscardOwner(g)

LEMMA LaneTask ==
  ASSUME TaskOK, HostOK, TaskInv, NEW g \in Generations, LaneStep(g)
  PROVE  /\ UNCHANGED <<coordinator, stop, expired, authority, snapshot, queue>>
         /\ TaskOK' /\ TaskInv' /\ HostOK'
         /\ lane = Stamp("shutdown", 0) => lane' = lane
<1> USE DEF Pcs, CandidatePcs, RestorePcs, Expecting, Holding
<1>0. task[g] \in Tasks /\ Fine(task[g], g, lane)
  BY DEF TaskOK, TaskInv
<1>1. CASE TakeLane(g)
  <2>1. CASE authority = task[g].expected
    <3>1. lane' = Stamp("task", g) /\ lane = Free /\ Goto(g, "capture")
      BY <1>1, <2>1 DEF TakeLane
    <3>2. PICK t \in Tasks : /\ task' = [task EXCEPT ![g] = t]
                             /\ t.pc = "capture" /\ t.expected = task[g].expected
                             /\ t.captured = task[g].captured
      BY <3>1, GotoIs
    <3>3. Fine(t, g, lane')
      BY <1>0, <1>1, <3>1, <3>2 DEF Fine, TakeLane
    <3>4. \A h \in Generations \ {g} : lane # Stamp("task", h)
      BY <3>1, LaneFacts
    <3>5. TaskOK' /\ TaskInv'
      BY <3>2, <3>3, <3>4, OneTask
    <3> QED
      BY <1>1, <3>1, <3>5, LaneFacts DEF TakeLane, HostOK
  <2>2. CASE authority # task[g].expected
    <3>1. lane' = lane /\ Goto(g, "discard")
      BY <1>1, <2>2 DEF TakeLane
    <3>2. \E t \in Tasks : task' = [task EXCEPT ![g] = t] /\ Fine(t, g, lane)
      BY <3>1, GotoFine
    <3>3. TaskOK' /\ TaskInv'
      BY <3>1, <3>2, OneTask
    <3> QED
      BY <1>1, <3>1, <3>3 DEF TakeLane, HostOK
  <2> QED
    BY <2>1, <2>2
<1>2. CASE TakeLaneBack(g)
  <2>1. CASE authority = task[g].expected
    <3>1. lane' = Stamp("task", g) /\ lane = Free /\ Goto(g, "recommit")
      BY <1>2, <2>1 DEF TakeLaneBack
    <3>2. PICK t \in Tasks : /\ task' = [task EXCEPT ![g] = t]
                             /\ t.pc = "recommit" /\ t.expected = task[g].expected
                             /\ t.captured = task[g].captured
      BY <3>1, GotoIs
    <3>3. Fine(t, g, lane')
      BY <1>0, <3>1, <3>2 DEF Fine
    <3>4. \A h \in Generations \ {g} : lane # Stamp("task", h)
      BY <3>1, LaneFacts
    <3>5. TaskOK' /\ TaskInv'
      BY <3>2, <3>3, <3>4, OneTask
    <3> QED
      BY <1>2, <3>1, <3>5, LaneFacts DEF TakeLaneBack, HostOK
  <2>2. CASE authority # task[g].expected
    <3>1. lane' = lane /\ Goto(g, "failed")
      BY <1>2, <2>2 DEF TakeLaneBack
    <3>2. \E t \in Tasks : task' = [task EXCEPT ![g] = t] /\ Fine(t, g, lane)
      BY <3>1, GotoFine
    <3>3. TaskOK' /\ TaskInv'
      BY <3>1, <3>2, OneTask
    <3> QED
      BY <1>2, <3>1, <3>3 DEF TakeLaneBack, HostOK
  <2> QED
    BY <2>1, <2>2
<1>3. ASSUME NEW pc \in {"fail", "done", "failed"}, Goto(g, pc), LetGo(g)
      PROVE  /\ TaskOK' /\ TaskInv'
             /\ lane' \in {lane, Free}
             /\ lane = Stamp("shutdown", 0) => lane' = lane
  <2>0. pc \in Pcs /\ pc \notin Expecting /\ pc \notin Holding /\ pc \notin {"join", "commit"}
    OBVIOUS
  <2>1. PICK t \in Tasks : /\ task' = [task EXCEPT ![g] = t]
                           /\ t.pc = pc /\ t.expected = task[g].expected
                           /\ t.captured = task[g].captured
    <3> HIDE DEF Pcs, Expecting, Holding
    <3> QED
      BY <1>3, <2>0, GotoIs
  <2>2. Fine(t, g, lane')
    BY <1>0, <2>0, <2>1 DEF Fine
  <2>3. lane' = lane \/ (lane = Stamp("task", g) /\ lane' = Free)
    BY <1>3 DEF LetGo
  <2>4. lane' = lane \/ \A h \in Generations \ {g} : lane # Stamp("task", h)
    BY <2>3, LaneFacts
  <2>5. TaskOK' /\ TaskInv'
    BY <2>1, <2>2, <2>4, OneTask
  <2>6. lane = Stamp("shutdown", 0) => lane' = lane
    BY <2>3, LaneFacts
  <2> QED
    BY <2>3, <2>5, <2>6
<1>4. CASE Discard(g)
  <2>1. Goto(g, "fail") /\ LetGo(g)
    BY <1>4 DEF Discard
  <2> QED
    BY <1>3, <1>4, <2>1 DEF Discard, HostOK
<1>5. CASE DiscardOwner(g)
  <2>1. LetGo(g) /\ (Goto(g, "done") \/ Goto(g, "failed"))
    BY <1>5 DEF DiscardOwner
  <2> QED
    BY <1>3, <1>5, <2>1 DEF DiscardOwner, HostOK
<1> QED
  BY <1>1, <1>2, <1>4, <1>5 DEF LaneStep

LEMMA KeptLane ==
  ASSUME IInv, UNCHANGED <<calls, lan>>, NEW g \in Generations, LaneStep(g)
  PROVE  Kept
<1>1. /\ UNCHANGED <<coordinator, stop, expired, authority, snapshot, queue>>
      /\ TaskOK' /\ TaskInv' /\ HostOK'
      /\ lane = Stamp("shutdown", 0) => lane' = lane
  BY LaneTask DEF IInv, Types
<1>2. CoordOK' /\ StopOK'
  BY <1>1 DEF IInv, Types, CoordOK, ActiveOK, StopOK, coordinator
<1>3. StopInv' /\ HostInv' /\ PendingInv'
  BY <1>1 DEF IInv, StopInv, HostInv, OwnerKeepsQueue, PendingInv, coordinator, calls
<1>4. Frame
  BY <1>1 DEF Frame, Clean, coordinator, lan
<1> QED
  BY <1>1, <1>2, <1>3, <1>4 DEF Kept

------------------------------------------------------------------------------
(* The transactions of the coordinator *)

LEMMA EndedFine ==
  ASSUME TaskOK, TaskInv, NEW ends,
         lane' = lane \/ \A h \in Generations \ ends : lane # Stamp("task", h)
  PROVE  \A h \in Generations : Fine(Ended(ends)[h], h, lane')
<1> SUFFICES ASSUME NEW h \in Generations PROVE Fine(Ended(ends)[h], h, lane')
  OBVIOUS
<1>1. task[h] \in Tasks /\ Fine(task[h], h, lane)
  BY DEF TaskOK, TaskInv
<1>2. CASE h \in ends
  <2>1. Ended(ends)[h] = [task[h] EXCEPT !.pc = "done"]
    BY <1>2 DEF Ended
  <2>2. Ended(ends)[h].pc = "done" /\ Ended(ends)[h].captured = task[h].captured
    BY <1>1, <2>1 DEF Tasks
  <2> QED
    BY <1>1, <2>2 DEF Fine, Expecting, Holding
<1>3. CASE h \notin ends
  <2>1. Ended(ends)[h] = task[h]
    BY <1>3 DEF Ended
  <2> QED
    BY <1>1, <1>3, <2>1 DEF Fine
<1> QED
  BY <1>2, <1>3

LEMMA NewTaskFine ==
  ASSUME NEW g, NEW l, NEW over
  PROVE  /\ Fine([NoTask EXCEPT !.pc = "prepare"], g, l)
         /\ Fine([NoTask EXCEPT !.pc = "restore", !.over = over], g, l)
BY DEF Fine, NoTask, Expecting, Holding

LEMMA PendRestoreFine ==
  ASSUME CoordOK, TaskOK, TaskInv, NEW g \in Generations, NEW ends, PendRestore(g, ends),
         lane' = lane \/ \A h \in Generations \ ends : lane # Stamp("task", h)
  PROVE  /\ TaskInv'
         /\ lifecycle' = lifecycle \/ (lifecycle' = "disabled" /\ pending' = NotPending)
<1>1. \A h \in Generations : Fine(Ended(ends)[h], h, lane')
  BY EndedFine
<1>2. CASE generation = MaxGeneration
  BY <1>1, <1>2 DEF PendRestore, Exhaust, TaskInv
<1>3. CASE generation # MaxGeneration
  <2> DEFINE new == [NoTask EXCEPT !.pc = "restore", !.over = g]
  <2>1. task' = [Ended(ends) EXCEPT ![generation + 1] = new] /\ lifecycle' = lifecycle
    BY <1>3 DEF PendRestore
  <2>2. \A h \in Generations : Fine(new, h, lane')
    BY NewTaskFine
  <2>3. Ended(ends) \in [Generations -> Tasks]
    BY EndedTyped
  <2>4. \A h \in Generations : task'[h] \in {new, Ended(ends)[h]}
    <3> HIDE DEF new
    <3> QED
      BY <2>1, <2>3
  <2>5. \A h \in Generations : Fine(task'[h], h, lane')
    <3> HIDE DEF new
    <3> QED
      BY <1>1, <2>2, <2>4
  <2> QED
    BY <2>1, <2>5 DEF TaskInv
<1> QED
  BY <1>2, <1>3

LEMMA StartRestoreFine ==
  ASSUME CoordOK, TaskOK, TaskInv, PendingInv, NEW g \in Generations, NEW ends, StartRestore(g, ends),
         lane' = lane
  PROVE  /\ TaskInv' /\ PendingInv'
         /\ lifecycle' = lifecycle \/ lifecycle' # "enabled"
<1>1. lifecycle = "enabled"
  BY DEF StartRestore
<1>2. CASE PendRestore(g, ends)
  BY <1>1, <1>2, PendRestoreFine DEF PendingInv
<1>3. CASE task' = Ended(ends) /\ UNCHANGED <<lifecycle, generation, pending, cancelled>>
  BY <1>1, <1>3, EndedFine DEF PendingInv, TaskInv
<1> QED
  BY <1>2, <1>3 DEF StartRestore

LEMMA FailPendingFine ==
  ASSUME CoordOK, TaskOK, TaskInv, PendingInv, NEW g \in Generations, FailPending(g), lane' = lane
  PROVE  /\ TaskInv' /\ PendingInv'
         /\ lifecycle' = lifecycle \/ lifecycle' # "enabled"
         /\ pending = NotPending => lifecycle' = lifecycle /\ pending' = NotPending
<1>0. NotPending.generation = 0 /\ g # 0
  BY DEF NotPending, Generations
<1>1. CASE pending.generation = g /\ lifecycle = "enabled" /\ active.required
  <2>1. PendRestore(active.generation, {g})
    BY <1>1 DEF FailPending
  <2>2. active.generation \in Generations
    BY <1>1 DEF CoordOK, ActiveOK
  <2> QED
    BY <1>0, <1>1, <2>1, <2>2, PendRestoreFine DEF PendingInv
<1>2. CASE /\ task' = Ended({g}) /\ UNCHANGED <<lifecycle, generation, cancelled>>
           /\ pending' = IF pending.generation = g THEN NotPending ELSE pending
  BY <1>0, <1>2, EndedFine DEF PendingInv, TaskInv
<1> QED
  BY <1>1, <1>2 DEF FailPending

\* What Clean excludes.
LEMMA CleanFacts ==
  ASSUME Clean, HostInv
  PROVE  /\ authority.by # "guest"
         /\ \A g \in Generations : pending.generation # g
         /\ lifecycle = "enabled" => active.generation = 0
BY DEF Clean, HostInv, NotPending, Owner, Generations

LEMMA KeptFail ==
  ASSUME IInv, UNCHANGED <<calls, lan>>, NEW g \in Generations, Fail(g)
  PROVE  Kept
<1>1. FailPending(g) /\ UNCHANGED <<active, stop, expired, host>>
  BY DEF Fail
<1>2. CoordOK /\ TaskOK /\ StopOK /\ HostOK
  BY DEF IInv, Types
<1>3. CoordOK' /\ TaskOK'
  BY <1>1, <1>2, FailPendingTyped
<1>4. StopOK' /\ HostOK'
  BY <1>1, <1>2 DEF StopOK, HostOK, host
<1>5. /\ TaskInv' /\ PendingInv'
      /\ lifecycle' = lifecycle \/ lifecycle' # "enabled"
      /\ pending = NotPending => lifecycle' = lifecycle /\ pending' = NotPending
  BY <1>1, <1>2, FailPendingFine DEF IInv, host
<1>6. StopInv' /\ HostInv'
  BY <1>1, <1>5 DEF IInv, StopInv, HostInv, OwnerKeepsQueue, host, calls
<1>7. Frame
  BY <1>1, <1>5 DEF Frame, Clean, host, lan
<1> QED
  BY <1>3, <1>4, <1>5, <1>6, <1>7 DEF Kept

\* Both ways in which a restore becomes due: the monitor and the guest's loop.
LEMMA KeptStartRestore ==
  ASSUME IInv, UNCHANGED <<calls, lan>>, NEW g \in Generations, NEW ends,
         StartRestore(g, ends), UNCHANGED <<stop, expired, host>>
  PROVE  Kept
<1>2. CoordOK /\ TaskOK /\ StopOK /\ HostOK
  BY DEF IInv, Types
<1>3. CoordOK' /\ TaskOK'
  BY <1>2, StartRestoreTyped
<1>4. StopOK' /\ HostOK'
  BY <1>2 DEF StopOK, HostOK, host
<1>5. /\ TaskInv' /\ PendingInv'
      /\ lifecycle' = lifecycle \/ lifecycle' # "enabled"
  BY <1>2, StartRestoreFine DEF IInv, host
<1>6. StopInv' /\ HostInv'
  BY <1>5 DEF IInv, StopInv, HostInv, OwnerKeepsQueue, host, calls
<1>7. ~Clean
  <2>1. lifecycle = "enabled" /\ active.generation = g /\ g # 0
    BY DEF StartRestore, Generations
  <2> QED
    BY <2>1, CleanFacts DEF IInv
<1>8. Frame
  BY <1>5, <1>7 DEF Frame, host
<1> QED
  BY <1>3, <1>4, <1>5, <1>6, <1>8 DEF Kept

LEMMA KeptMonitor ==
  ASSUME IInv, UNCHANGED <<calls, lan>>, NEW g \in Generations, MonitorEnds(g)
  PROVE  Kept
<1>0. UNCHANGED <<stop, expired, host>>
  BY DEF MonitorEnds
<1>1. CASE StartRestore(g, {g})
  BY <1>0, <1>1, KeptStartRestore
<1>2. CASE Goto(g, "done") /\ UNCHANGED coordinator
  <2>1. "done" \in Pcs /\ "done" \notin Expecting \cup Holding \cup {"join", "commit"}
    BY DEF Pcs, Expecting, Holding
  <2>2. \E t \in Tasks : task' = [task EXCEPT ![g] = t] /\ Fine(t, g, lane)
    BY <1>2, <2>1, GotoFine DEF IInv, Types
  <2>3. TaskOK' /\ TaskInv'
    BY <1>0, <2>2, OneTask DEF IInv, Types, host
  <2> QED
    BY <1>0, <1>2, <2>3, KeptByTasks
<1> QED
  BY <1>1, <1>2 DEF MonitorEnds

LEMMA KeptGuestFails ==
  ASSUME IInv, UNCHANGED <<calls, lan>>, GuestFails
  PROVE  Kept
<1>1. authority.id \in Generations
  <2>1. authority \in Stamps /\ authority.by = "guest"
    BY DEF GuestFails, IInv, Types, HostOK
  <2>2. PICK g \in Generations : authority = Guest(g)
    BY <2>1 DEF Stamps, NoStamp, Connected, Restored, Guest, Stamp
  <2> QED
    BY <2>2 DEF Guest, Stamp
<1> QED
  BY <1>1, KeptStartRestore DEF GuestFails

\* The swap to a guest: the snapshot holds the owner's queue from here on,
\* captured just now or, over an earlier guest, long ago.
LEMMA KeptCommit ==
  ASSUME IInv, UNCHANGED <<calls, lan>>, NEW g \in Generations, Commit(g)
  PROVE  Kept
<1>1. CoordOK /\ TaskOK /\ StopOK /\ HostOK
  BY DEF IInv, Types
<1>2. task[g] \in Tasks /\ Fine(task[g], g, lane) /\ task[g].pc = "commit"
  BY <1>1 DEF TaskOK, IInv, TaskInv, Commit
<1>3. lifecycle = "enabled" /\ pending.generation = g /\ stop.pc = "idle" /\ authority = task[g].expected
  BY DEF Commit, MayCommit, IsPending, IInv, StopInv
<1>4. ~Clean
  BY <1>3, CleanFacts DEF IInv
<1>5. lane = Stamp("task", g) /\ \A h \in Generations \ {g} : lane # Stamp("task", h)
  BY <1>2, LaneFacts DEF Fine, Holding
<1>6. /\ authority' = Guest(g) /\ lane' = Stamp("retire", g) /\ queue' = queue
      /\ snapshot' = IF task[g].captured = "none" THEN snapshot ELSE task[g].captured
  BY DEF Commit, InstallGuest
<1>7. snapshot' = "owner"
  <2>1. CASE task[g].captured = "none"
    BY <1>2, <1>3, <1>6, <2>1 DEF Fine, IInv, HostInv
  <2>2. CASE task[g].captured # "none"
    BY <1>2, <1>6, <2>2 DEF Fine, Tasks
  <2> QED
    BY <2>1, <2>2
<1>8. HostOK' /\ HostInv'
  <2>1. authority' \in Stamps /\ authority'.by = "guest"
    BY <1>6, StampFacts
  <2>2. lane' \in [by : {"task", "retire"}, id : Generations]
    BY <1>6, LaneFacts
  <2> QED
    BY <1>1, <1>6, <1>7, <2>1, <2>2 DEF HostOK, HostInv, OwnerKeepsQueue
<1>9. PICK late \in BOOLEAN :
          /\ active' = [generation |-> g, required |-> late]
          /\ expired' = IF late THEN expired \cup {g} ELSE expired
          /\ IF late THEN PendRestore(g, {g})
             ELSE /\ pending' = NotPending
                  /\ cancelled' = cancelled \cup Delegated
                  /\ Goto(g, "watch")
                  /\ UNCHANGED <<lifecycle, generation>>
  BY DEF Commit
<1>10. ActiveOK'
  <2>1. g \in 0..MaxGeneration
    BY DEF Generations
  <2> QED
    BY <1>9, <2>1 DEF ActiveOK
<1>11. StopOK'
  BY <1>1, <1>9 DEF StopOK, Commit
<1>12. /\ CoordOK' /\ TaskOK' /\ TaskInv' /\ PendingInv'
       /\ lifecycle' = lifecycle \/ lifecycle' # "enabled"
  <2>1. CASE late
    <3>1. PendRestore(g, {g})
      BY <1>9, <2>1
    <3>2. CoordOK' /\ TaskOK'
      BY <1>1, <1>10, <3>1, PendRestoreTyped
    <3>3. TaskInv' /\ (lifecycle' = lifecycle \/ (lifecycle' = "disabled" /\ pending' = NotPending))
      BY <1>1, <1>5, <3>1, PendRestoreFine DEF IInv
    <3> QED
      BY <1>3, <3>2, <3>3 DEF PendingInv
  <2>2. CASE ~late
    <3>1. /\ pending' = NotPending /\ cancelled' = cancelled \cup Delegated
          /\ Goto(g, "watch") /\ UNCHANGED <<lifecycle, generation>>
      BY <1>9, <2>2
    <3>2. cancelled' \subseteq Generations
      BY <1>1, <3>1, ReplacedTyped DEF CoordOK
    <3>3. CoordOK'
      BY <1>1, <1>10, <3>1, <3>2, NothingPendingTyped DEF CoordOK
    <3>4. "watch" \in Pcs
      BY DEF Pcs, CandidatePcs
    <3>5. PICK t \in Tasks : /\ task' = [task EXCEPT ![g] = t]
                             /\ t.pc = "watch" /\ t.captured = task[g].captured
      BY <1>1, <3>1, <3>4, GotoIs
    <3>6. Fine(t, g, lane')
      BY <1>2, <3>5 DEF Fine, Expecting, Holding
    <3>7. TaskOK' /\ TaskInv'
      BY <1>1, <1>5, <3>5, <3>6, OneTask DEF IInv
    <3> QED
      BY <3>1, <3>3, <3>7 DEF PendingInv
  <2> QED
    BY <2>1, <2>2
<1>13. stop' = stop
  BY DEF Commit
<1>14. StopInv'
  BY <1>3, <1>13 DEF StopInv
<1>15. authority' # NoStamp
  BY <1>6, StampFacts
<1>16. Frame
  BY <1>4, <1>12, <1>13, <1>15 DEF Frame
<1> QED
  BY <1>8, <1>11, <1>12, <1>14, <1>16 DEF Kept

\* The swap back: the queue comes from the snapshot, which is the owner's.
LEMMA KeptCommitOwner ==
  ASSUME IInv, UNCHANGED <<calls, lan>>, NEW g \in Generations, CommitOwner(g)
  PROVE  Kept
<1>1. CoordOK /\ TaskOK /\ StopOK /\ HostOK
  BY DEF IInv, Types
<1>2. task[g] \in Tasks /\ Fine(task[g], g, lane) /\ task[g].pc = "recommit"
  BY <1>1 DEF TaskOK, IInv, TaskInv, CommitOwner
<1>3. lane = Stamp("task", g) /\ \A h \in Generations \ {g} : lane # Stamp("task", h)
  BY <1>2, LaneFacts DEF Fine, Holding
<1>4. CASE Goto(g, "discard owner") /\ UNCHANGED <<coordinator, stop, expired, host>>
  <2>1. /\ "discard owner" \in Pcs
        /\ "discard owner" \notin Expecting \cup Holding \cup {"join", "commit"}
    BY DEF Pcs, RestorePcs, Expecting, Holding
  <2>2. \E t \in Tasks : task' = [task EXCEPT ![g] = t] /\ Fine(t, g, lane)
    BY <1>1, <1>4, <2>1, GotoFine DEF IInv
  <2>3. TaskOK' /\ TaskInv'
    BY <1>1, <1>4, <2>2, OneTask DEF IInv, host
  <2> QED
    BY <1>4, <2>3, KeptByTasks
<1>5. CASE /\ lifecycle = "enabled" /\ RestorePending(g)
           /\ authority = task[g].expected /\ snapshot # "none"
           /\ authority' = Restored(g) /\ queue' = snapshot /\ snapshot' = "none"
           /\ lane' = Stamp("retire", g)
           /\ pending' = NotPending /\ active' = Owner /\ Goto(g, "done")
           /\ UNCHANGED <<lifecycle, generation, cancelled, stop, expired>>
  <2>1. pending.generation = g /\ stop.pc = "idle"
    BY <1>5 DEF RestorePending, IInv, StopInv
  <2>2. ~Clean
    BY <2>1, CleanFacts DEF IInv
  <2>3. queue' = "owner"
    BY <1>1, <1>5 DEF HostOK, IInv, HostInv, OwnerKeepsQueue
  <2>4. authority' \in Stamps /\ authority'.by = "restore" /\ authority' # NoStamp
    BY <1>5, StampFacts
  <2>5. lane' \in [by : {"task", "retire"}, id : Generations]
    BY <1>5, LaneFacts
  <2>6. HostOK' /\ HostInv'
    BY <1>5, <2>3, <2>4, <2>5 DEF HostOK, HostInv, OwnerKeepsQueue
  <2>7. ActiveOK'
    BY <1>5, NothingPendingTyped DEF ActiveOK
  <2>8. CoordOK'
    BY <1>1, <1>5, <2>7, NothingPendingTyped DEF CoordOK
  <2>9. StopOK'
    BY <1>1, <1>5 DEF StopOK
  <2>10. "done" \in Pcs
    BY DEF Pcs
  <2>11. PICK t \in Tasks : /\ task' = [task EXCEPT ![g] = t]
                            /\ t.pc = "done" /\ t.captured = task[g].captured
    BY <1>1, <1>5, <2>10, GotoIs
  <2>12. Fine(t, g, lane')
    BY <1>2, <2>11 DEF Fine, Expecting, Holding
  <2>13. TaskOK' /\ TaskInv'
    BY <1>1, <1>3, <2>11, <2>12, OneTask DEF IInv
  <2>14. StopInv' /\ PendingInv'
    BY <1>5, <2>1 DEF StopInv, PendingInv
  <2>15. Frame
    BY <1>5, <2>2, <2>4 DEF Frame
  <2> QED
    BY <2>6, <2>8, <2>9, <2>13, <2>14, <2>15 DEF Kept
<1>6. stop' = stop /\ expired' = expired
  BY DEF CommitOwner
<1> QED
  BY <1>4, <1>5, <1>6, Zenon DEF CommitOwner

LEMMA KeptExpire ==
  ASSUME IInv, UNCHANGED <<calls, lan>>, NEW g \in Generations, Expire(g)
  PROVE  Kept
<1>1. CoordOK /\ TaskOK /\ StopOK /\ HostOK
  BY DEF IInv, Types
<1>2. UNCHANGED <<coordinator, task, stop, host>> /\ expired' = expired \cup {g}
  BY DEF Expire
<1>3. CoordOK'
  BY <1>1, <1>2 DEF CoordOK, ActiveOK, coordinator
<1>4. TaskOK' /\ StopOK'
  BY <1>1, <1>2 DEF TaskOK, StopOK
<1>5. HostOK' /\ HostInv'
  BY <1>1, <1>2 DEF HostOK, IInv, HostInv, OwnerKeepsQueue, host
<1>6. TaskInv' /\ StopInv' /\ PendingInv'
  BY <1>2 DEF IInv, TaskInv, Fine, StopInv, PendingInv, coordinator, host, calls
<1>7. Frame
  BY <1>2 DEF Frame, Clean, coordinator, host, lan
<1> QED
  BY <1>3, <1>4, <1>5, <1>6, <1>7 DEF Kept

\* Steps that change nothing but who has the lane, which no task has.
LEMMA KeptLaneOnly ==
  ASSUME IInv, UNCHANGED <<coordinator, task, stop, expired, authority, snapshot, queue, calls, lan>>,
         lane.by \in {"retire", "playback"}, lane' \in {Free, Playback}
  PROVE  Kept
<1>1. CoordOK /\ TaskOK /\ StopOK /\ HostOK
  BY DEF IInv, Types
<1>2. CoordOK'
  BY <1>1 DEF CoordOK, ActiveOK, coordinator
<1>3. TaskOK' /\ StopOK' /\ HostOK'
  BY <1>1 DEF TaskOK, StopOK, HostOK
<1>4. lane # Stamp("shutdown", 0) /\ \A g \in Generations : lane # Stamp("task", g)
  BY LaneFacts
<1>5. TaskInv'
  BY <1>4 DEF IInv, TaskInv, Fine
<1>6. StopInv' /\ HostInv' /\ PendingInv'
  BY <1>4 DEF IInv, StopInv, HostInv, OwnerKeepsQueue, PendingInv, coordinator, calls
<1>7. Frame
  BY DEF Frame, Clean, coordinator, lan
<1> QED
  BY <1>2, <1>3, <1>5, <1>6, <1>7 DEF Kept

LEMMA KeptGuestLoads ==
  ASSUME IInv, UNCHANGED <<calls, lan>>, GuestLoads
  PROVE  Kept
<1>1. CoordOK /\ TaskOK /\ StopOK /\ HostOK
  BY DEF IInv, Types
<1>2. /\ UNCHANGED <<coordinator, task, stop, expired, lane, authority, snapshot>>
      /\ queue' = "guest" /\ authority.by = "guest" /\ snapshot = "owner" /\ authority # NoStamp
  BY StampFacts DEF GuestLoads, IInv, HostInv
<1>3. CoordOK'
  BY <1>1, <1>2 DEF CoordOK, ActiveOK, coordinator
<1>4. TaskOK' /\ StopOK' /\ HostOK'
  BY <1>1, <1>2 DEF TaskOK, StopOK, HostOK
<1>5. TaskInv'
  BY <1>2 DEF IInv, TaskInv, Fine
<1>6. StopInv' /\ HostInv' /\ PendingInv'
  BY <1>2 DEF IInv, StopInv, HostInv, OwnerKeepsQueue, PendingInv, coordinator, calls
<1>7. Frame
  BY <1>2, CleanFacts DEF Frame, IInv, coordinator
<1> QED
  BY <1>3, <1>4, <1>5, <1>6, <1>7 DEF Kept

------------------------------------------------------------------------------
(* The shutdown *)

StopPcs == {"idle", "join", "gate", "clear", "restore", "drop", "end", "over"}

LEMMA StopTyped ==
  ASSUME StopOK, NEW pc \in StopPcs, expired' = expired,
         \/ stop' = [stop EXCEPT !.pc = pc]
         \/ stop' = [stop EXCEPT !.pc = pc, !.late = TRUE]
  PROVE  StopOK' /\ stop'.pc = pc /\ stop'.by = stop.by
                 /\ (stop' = [stop EXCEPT !.pc = pc] => stop'.late = stop.late)
BY DEF StopOK, StopPcs

\* The steps of the shutdown before it has the lane.
LEMMA KeptWaiting ==
  ASSUME IInv, UNCHANGED <<calls, lan>>, JoinTasks \/ AbortTasks \/ ShutdownTakesLane
  PROVE  Kept
<1>1. CoordOK /\ TaskOK /\ StopOK /\ HostOK
  BY DEF IInv, Types
<1>2. /\ UNCHANGED <<coordinator, expired, authority, snapshot, queue>>
      /\ stop.pc \in {"join", "gate"}
  BY DEF JoinTasks, AbortTasks, ShutdownTakesLane, host
<1>3. PICK pc \in {"gate", "clear"} :
          /\ stop' = [stop EXCEPT !.pc = pc]
          /\ pc = "clear" => lane' = Stamp("shutdown", 0)
  BY DEF JoinTasks, AbortTasks, ShutdownTakesLane
<1>4. StopOK' /\ stop'.pc = pc /\ stop'.by = stop.by
  BY <1>1, <1>2, <1>3, StopTyped DEF StopPcs
<1>5. CoordOK'
  BY <1>1, <1>2 DEF CoordOK, ActiveOK, coordinator
<1>6. HostOK'
  <2>1. lane' \in {lane, Free, Playback, Stamp("shutdown", 0)}
    BY DEF JoinTasks, AbortTasks, ShutdownTakesLane, Released, host
  <2> QED
    BY <1>1, <1>2, <2>1 DEF HostOK
<1>7. TaskOK' /\ TaskInv'
  <2>1. CASE AbortTasks
    <3> DEFINE ends == {g \in Generations : Live(g)}
    <3>1. task' = Ended(ends)
      BY <2>1 DEF AbortTasks
    <3>2. TaskOK'
      BY <1>1, <3>1, EndedTyped DEF TaskOK
    <3>3. ASSUME NEW h \in Generations \ ends PROVE Fine(Ended(ends)[h], h, lane')
      <4>1. Ended(ends)[h] = task[h] /\ task[h].pc \in {"idle", "done"} /\ Fine(task[h], h, lane)
        BY <3>3 DEF Ended, Live, IInv, TaskInv
      <4> QED
        BY <4>1 DEF Fine, Expecting, Holding
    <3>4. ASSUME NEW h \in ends PROVE Fine(Ended(ends)[h], h, lane')
      <4>1. task[h] \in Tasks /\ Fine(task[h], h, lane)
        BY <1>1 DEF TaskOK, IInv, TaskInv
      <4>2. Ended(ends)[h].pc = "done" /\ Ended(ends)[h].captured = task[h].captured
        BY <4>1 DEF Ended, Tasks
      <4> QED
        BY <4>1, <4>2 DEF Fine, Expecting, Holding
    <3> QED
      BY <3>1, <3>2, <3>3, <3>4 DEF TaskInv
  <2>2. CASE JoinTasks
    BY <1>1, <2>2 DEF JoinTasks, TaskOK, IInv, TaskInv, Fine, host
  <2>3. CASE ShutdownTakesLane
    <3>1. task' = task /\ \A h \in Generations : lane # Stamp("task", h)
      BY <2>3, LaneFacts DEF ShutdownTakesLane
    <3> QED
      BY <1>1, <3>1 DEF TaskOK, IInv, TaskInv, Fine
  <2> QED
    BY <2>1, <2>2, <2>3
<1>8. StopInv' /\ HostInv' /\ PendingInv'
  BY <1>2, <1>3, <1>4 DEF IInv, StopInv, HostInv, OwnerKeepsQueue, PendingInv, coordinator, calls
<1>9. Frame
  BY <1>2, <1>4 DEF Frame, Clean, coordinator, lan
<1> QED
  BY <1>4, <1>5, <1>6, <1>7, <1>8, <1>9 DEF Kept

\* Behind the lane no task can be between activation and commit.
LEMMA KeptBehindLane ==
  ASSUME IInv, UNCHANGED <<calls, lan>>, stop.pc \in {"clear", "restore", "drop"},
         ClearAuthority \/ RestoreSnapshot \/ DropSnapshot \/ ShutdownTimesOut
  PROVE  Kept
<1>1. CoordOK /\ TaskOK /\ StopOK /\ HostOK /\ StopInv /\ HostInv
  BY DEF IInv, Types
<1>2. UNCHANGED <<coordinator, task, expired>> /\ lane = Stamp("shutdown", 0)
  BY <1>1 DEF StopInv, ClearAuthority, RestoreSnapshot, DropSnapshot, ShutdownTimesOut
<1>3. CoordOK' /\ TaskOK'
  BY <1>1, <1>2 DEF CoordOK, ActiveOK, TaskOK, coordinator
<1>4. TaskInv'
  <2>1. \A g \in Generations : lane # Stamp("task", g)
    BY <1>2, LaneFacts
  <2> QED
    BY <1>2, <2>1 DEF IInv, TaskInv, Fine
<1>5. PendingInv' /\ lifecycle' = lifecycle /\ lifecycle # "enabled" /\ service.pc \in Stopping
  BY <1>1, <1>2 DEF IInv, PendingInv, StopInv, coordinator
<1>6. NoStamp.by = "none" /\ NoStamp \in Stamps /\ service' = service
  BY StampFacts DEF calls
<1>7. CASE ClearAuthority
  <2>1. /\ authority' = NoStamp /\ UNCHANGED <<lane, snapshot, queue>>
        /\ stop.pc = "clear" /\ stop' = [stop EXCEPT !.pc = "restore"]
    BY <1>7 DEF ClearAuthority
  <2>2. StopOK' /\ stop'.pc = "restore" /\ stop'.by = stop.by
    BY <1>1, <1>2, <2>1, StopTyped DEF StopPcs
  <2>3. HostOK' /\ HostInv'
    BY <1>1, <1>6, <2>1 DEF HostOK, HostInv, OwnerKeepsQueue
  <2>4. StopInv'
    BY <1>2, <1>5, <1>6, <2>1, <2>2 DEF StopInv
  <2>5. Frame
    BY <1>2, <2>1, <2>2 DEF Frame, Clean, coordinator, lan
  <2> QED
    BY <1>3, <1>4, <1>5, <2>2, <2>3, <2>4, <2>5 DEF Kept
<1>8. CASE RestoreSnapshot
  <2>0. stop.pc = "restore" /\ authority = NoStamp /\ UNCHANGED <<authority, snapshot>>
    BY <1>1, <1>8 DEF StopInv, RestoreSnapshot
  <2>1. CASE snapshot = "none"
    <3>1. lane' = Free /\ stop' = [stop EXCEPT !.pc = "end"] /\ queue' = queue
      BY <1>8, <2>1 DEF RestoreSnapshot
    <3>2. StopOK' /\ stop'.pc = "end" /\ stop'.by = stop.by
      BY <1>1, <1>2, <3>1, StopTyped DEF StopPcs
    <3>3. HostOK' /\ HostInv'
      BY <1>1, <2>0, <3>1 DEF HostOK, HostInv, OwnerKeepsQueue
    <3>4. StopInv'
      BY <1>5, <1>6, <2>0, <2>1, <3>2 DEF StopInv
    <3>5. Frame
      BY <1>2, <2>0, <3>1, <3>2 DEF Frame, Clean, coordinator, lan
    <3> QED
      BY <1>3, <1>4, <1>5, <3>2, <3>3, <3>4, <3>5 DEF Kept
  <2>2. CASE snapshot # "none"
    <3>1. queue' = snapshot /\ stop' = [stop EXCEPT !.pc = "drop"] /\ lane' = lane
      BY <1>8, <2>2 DEF RestoreSnapshot
    <3>2. StopOK' /\ stop'.pc = "drop" /\ stop'.by = stop.by
      BY <1>1, <1>2, <3>1, StopTyped DEF StopPcs
    <3>3. queue' = "owner"
      BY <1>1, <2>2, <3>1 DEF HostOK, HostInv, OwnerKeepsQueue
    <3>4. HostOK' /\ HostInv'
      BY <1>1, <1>6, <2>0, <3>1, <3>3 DEF HostOK, HostInv, OwnerKeepsQueue
    <3>5. StopInv'
      BY <1>2, <1>5, <1>6, <2>0, <3>1, <3>2, <3>3 DEF StopInv
    <3>6. Frame
      BY <1>2, <2>0, <2>2, <3>2 DEF Frame, Clean, coordinator
    <3> QED
      BY <1>3, <1>4, <1>5, <3>2, <3>4, <3>5, <3>6 DEF Kept
  <2> QED
    BY <2>1, <2>2
<1>9. CASE DropSnapshot
  <2>0. /\ stop.pc = "drop" /\ authority = NoStamp /\ queue = "owner"
        /\ UNCHANGED <<authority, queue>> /\ snapshot' = "none"
        /\ lane' \in {Free, Playback} /\ stop' = [stop EXCEPT !.pc = "end"]
    BY <1>1, <1>9 DEF StopInv, DropSnapshot
  <2>1. StopOK' /\ stop'.pc = "end" /\ stop'.by = stop.by
    BY <1>1, <1>2, <2>0, StopTyped DEF StopPcs
  <2>2. HostOK' /\ HostInv'
    BY <1>1, <1>6, <2>0 DEF HostOK, HostInv, OwnerKeepsQueue
  <2>3. StopInv'
    BY <1>5, <1>6, <2>0, <2>1 DEF StopInv
  <2>4. Frame
    BY <1>2, <2>0, <2>1 DEF Frame, Clean, coordinator, lan
  <2> QED
    BY <1>3, <1>4, <1>5, <2>1, <2>2, <2>3, <2>4 DEF Kept
<1>10. CASE ShutdownTimesOut
  <2>0. /\ UNCHANGED <<authority, snapshot, queue>> /\ lane' \in {lane, Free}
        /\ stop' = [stop EXCEPT !.pc = "end", !.late = TRUE]
    BY <1>10 DEF ShutdownTimesOut
  <2>1. StopOK' /\ stop'.pc = "end" /\ stop'.by = stop.by /\ stop'.late
    <3>1. stop'.late
      BY <1>1, <2>0 DEF StopOK
    <3> QED
      BY <1>1, <1>2, <2>0, <3>1, StopTyped DEF StopPcs
  <2>2. HostOK' /\ HostInv'
    BY <1>1, <2>0 DEF HostOK, HostInv, OwnerKeepsQueue
  <2>3. StopInv'
    BY <1>5, <1>6, <2>1 DEF StopInv
  <2>4. Frame
    BY <1>2, <2>0, <2>1 DEF Frame, Clean, coordinator, lan
  <2> QED
    BY <1>3, <1>4, <1>5, <2>1, <2>2, <2>3, <2>4 DEF Kept
<1> QED
  BY <1>7, <1>8, <1>9, <1>10

LEMMA KeptTimeoutAtGate ==
  ASSUME IInv, UNCHANGED <<calls, lan>>, stop.pc = "gate", ShutdownTimesOut
  PROVE  Kept
<1>1. CoordOK /\ TaskOK /\ StopOK /\ HostOK
  BY DEF IInv, Types
<1>2. /\ UNCHANGED <<coordinator, task, expired, host>>
      /\ stop' = [stop EXCEPT !.pc = "end", !.late = TRUE]
  BY DEF ShutdownTimesOut, host
<1>3. StopOK' /\ stop'.pc = "end" /\ stop'.by = stop.by /\ stop'.late
  <2>1. stop'.late
    BY <1>1, <1>2 DEF StopOK
  <2> QED
    BY <1>1, <1>2, <2>1, StopTyped DEF StopPcs
<1>4. CoordOK' /\ TaskOK' /\ HostOK'
  BY <1>1, <1>2 DEF CoordOK, ActiveOK, TaskOK, HostOK, coordinator, host
<1>5. TaskInv' /\ HostInv' /\ PendingInv'
  BY <1>2 DEF IInv, TaskInv, Fine, HostInv, OwnerKeepsQueue, PendingInv, coordinator, host
<1>6. StopInv'
  BY <1>2, <1>3 DEF IInv, StopInv, coordinator, calls
<1>7. Frame
  BY <1>2, <1>3 DEF Frame, Clean, coordinator, host, lan
<1> QED
  BY <1>3, <1>4, <1>5, <1>6, <1>7 DEF Kept

LEMMA KeptEndShutdown ==
  ASSUME IInv, UNCHANGED <<calls, lan>>, EndShutdown
  PROVE  Kept
<1>1. CoordOK /\ TaskOK /\ StopOK /\ HostOK
  BY DEF IInv, Types
<1>2. /\ UNCHANGED <<task, expired, host>> /\ stop.pc = "end"
      /\ stop' = [stop EXCEPT !.pc = "over"]
  BY DEF EndShutdown
<1>3. StopOK' /\ stop'.pc = "over" /\ stop'.by = stop.by /\ stop'.late = stop.late
  BY <1>1, <1>2, StopTyped DEF StopPcs
<1>4. TaskOK' /\ HostOK'
  BY <1>1, <1>2 DEF TaskOK, HostOK, host
<1>5. TaskInv' /\ HostInv'
  BY <1>2 DEF IInv, TaskInv, Fine, HostInv, OwnerKeepsQueue, host
<1>6. \/ UNCHANGED coordinator
      \/ /\ lifecycle' = "disabled" /\ pending' = NotPending /\ active' = Owner
         /\ UNCHANGED <<generation, cancelled>>
  BY DEF EndShutdown
<1>7. CoordOK'
  <2>1. CASE UNCHANGED coordinator
    BY <1>1, <2>1 DEF CoordOK, ActiveOK, coordinator
  <2>2. CASE /\ lifecycle' = "disabled" /\ pending' = NotPending /\ active' = Owner
             /\ UNCHANGED <<generation, cancelled>>
    <3>1. ActiveOK'
      BY <2>2, NothingPendingTyped DEF ActiveOK
    <3> QED
      BY <1>1, <2>2, <3>1, NothingPendingTyped DEF CoordOK
  <2> QED
    BY <1>6, <2>1, <2>2
<1>8. PendingInv' /\ (lifecycle' = lifecycle \/ lifecycle' # "enabled")
  BY <1>6 DEF IInv, PendingInv, coordinator
<1>9. StopInv'
  BY <1>2, <1>3, <1>8 DEF IInv, StopInv, host, calls
<1>10. Frame
  BY <1>2, <1>3, <1>6, <1>8 DEF Frame, Clean, coordinator, host, lan
<1> QED
  BY <1>3, <1>4, <1>5, <1>7, <1>8, <1>9, <1>10 DEF Kept

------------------------------------------------------------------------------
(* Every step of the delegation, with the service beside it *)

LEMMA DelegationKept ==
  ASSUME IInv, UNCHANGED <<calls, lan>>, DelegationNext
  PROVE  Kept
<1>1. ASSUME NEW g \in Generations, CandidateTask(g) \/ RestoreTask(g) \/ Fail(g) \/ Expire(g)
      PROVE  Kept
  <2>1. CASE PureStep(g)
    BY <2>1, KeptPure
  <2>2. CASE LaneStep(g)
    BY <2>2, KeptLane
  <2>3. CASE Commit(g)
    BY <2>3, KeptCommit
  <2>4. CASE CommitOwner(g)
    BY <2>4, KeptCommitOwner
  <2>5. CASE MonitorEnds(g)
    BY <2>5, KeptMonitor
  <2>6. CASE Fail(g)
    BY <2>6, KeptFail
  <2>7. CASE Expire(g)
    BY <2>7, KeptExpire
  <2> QED
    BY <1>1, <2>1, <2>2, <2>3, <2>4, <2>5, <2>6, <2>7, Zenon
    DEF CandidateTask, RestoreTask, PureStep, LaneStep
<1>2. CASE ReleaseRetired
  BY <1>2, KeptLaneOnly DEF ReleaseRetired, Released
<1>3. CASE EndPlayback
  BY <1>3, KeptLaneOnly, LaneFacts DEF EndPlayback
<1>4. CASE GuestLoads
  BY <1>4, KeptGuestLoads
<1>5. CASE GuestFails
  BY <1>5, KeptGuestFails
<1>6. CASE Shutdown
  <2>1. CASE JoinTasks \/ AbortTasks \/ ShutdownTakesLane
    BY <2>1, KeptWaiting
  <2>2. CASE ClearAuthority \/ RestoreSnapshot \/ DropSnapshot
    <3>1. stop.pc \in {"clear", "restore", "drop"}
      BY <2>2 DEF ClearAuthority, RestoreSnapshot, DropSnapshot
    <3> QED
      BY <2>2, <3>1, KeptBehindLane
  <2>3. CASE ShutdownTimesOut
    <3>1. stop.pc \in {"gate", "clear", "restore", "drop"}
      BY <2>3 DEF ShutdownTimesOut
    <3> QED
      BY <2>3, <3>1, KeptBehindLane, KeptTimeoutAtGate
  <2>4. CASE EndShutdown
    BY <2>4, KeptEndShutdown
  <2> QED
    BY <1>6, <2>1, <2>2, <2>3, <2>4 DEF Shutdown
<1> QED
  BY <1>1, <1>2, <1>3, <1>4, <1>5, <1>6 DEF DelegationNext

LEMMA DelegationStep ==
  ASSUME IInv, UNCHANGED <<calls, lan>>, DelegationNext
  PROVE  IInv'
<1>1. Kept
  BY DelegationKept
<1>2. ServiceOK'
  BY DEF IInv, Types, ServiceOK, GateOK, BoundsOK, calls, lan
<1>3. UNCHANGED <<service, incomplete, listener, offered>>
  BY DEF calls, lan
<1>4. Frame /\ ServiceInv /\ StopInv
  BY <1>1 DEF Kept, IInv
<1>5. ServiceInv'
  <2>1. stop.pc = "clear" => service.pc \in Stopping
    BY <1>4 DEF StopInv
  <2>2. service.pc \in Connecting => Clean' /\ authority' \in {NoStamp, service.stamp}
    BY <1>4 DEF Frame, ServiceInv
  <2>3. service.pc = "dial" => authority' = NoStamp
    BY <1>4 DEF Frame, ServiceInv, Connecting
  <2>4. authority' = NoStamp /\ ~incomplete /\ service.pc \in {"start", "await"} => Clean'
    BY <1>4, <2>1 DEF Frame, ServiceInv, Stopping
  <2>5. stop'.by = stop.by
    BY <1>4 DEF Frame
  <2> QED
    BY <1>3, <1>4, <2>2, <2>3, <2>4, <2>5 DEF ServiceInv
<1> QED
  BY <1>1, <1>2, <1>5 DEF IInv, Types, Kept

------------------------------------------------------------------------------
(* The requests *)

LEMMA KeepsRequests ==
  ASSUME IInv, UNCHANGED <<coordinator, task, stop, expired, host, service, incomplete, lan>>,
         ServiceOK'
  PROVE  IInv'
<1>1. CoordOK' /\ TaskOK'
  BY DEF IInv, Types, CoordOK, ActiveOK, TaskOK, coordinator
<1>2. StopOK' /\ HostOK'
  BY DEF IInv, Types, StopOK, HostOK, host
<1>3. TaskInv' /\ StopInv' /\ HostInv' /\ PendingInv'
  BY DEF IInv, TaskInv, Fine, StopInv, HostInv, OwnerKeepsQueue, PendingInv, coordinator, host
<1>4. ServiceInv'
  BY DEF IInv, ServiceInv, Clean, coordinator, host, lan
<1> QED
  BY <1>1, <1>2, <1>3, <1>4 DEF IInv, Types

LEMMA CallsTyped ==
  /\ Disconnect \in Calls
  /\ \A t \in 0..MaxRequests : Connect(t) \in Calls
<1>1. 0 \in 0..MaxRequests
  OBVIOUS
<1> QED
  BY <1>1 DEF Disconnect, Connect, Calls

LEMMA AskConnectStep == IInv /\ AskConnect => IInv'
<1> SUFFICES ASSUME IInv, AskConnect PROVE IInv'
  OBVIOUS
<1>1. ServiceOK
  BY DEF IInv, Types
<1>2. /\ requests < MaxRequests /\ requests' = requests + 1
      /\ intent' = IF intent.on THEN intent ELSE [on |-> TRUE, epoch |-> intent.epoch + 1]
      /\ gate' = Append(gate, Connect(intent'.epoch))
      /\ UNCHANGED <<withdrawing, service, claim, incomplete, outcome, listener, offered>>
  BY DEF AskConnect, lan
<1>3. requests \in 0..MaxRequests /\ requests' \in 0..MaxRequests /\ requests' > 0
  BY <1>1, <1>2 DEF ServiceOK
<1>4. intent.epoch \in Nat /\ intent.epoch <= requests /\ withdrawing <= requests /\ withdrawing \in Nat
  BY <1>1 DEF ServiceOK, BoundsOK
<1>5. intent' \in [on : BOOLEAN, epoch : 0..MaxRequests] /\ intent'.epoch <= requests'
  <2>1. CASE intent.on
    BY <1>1, <1>2, <1>3, <1>4, <2>1 DEF ServiceOK
  <2>2. CASE ~intent.on
    <3>1. intent.epoch + 1 \in 0..MaxRequests /\ intent.epoch + 1 <= requests'
      BY <1>2, <1>3, <1>4
    <3> QED
      BY <1>2, <2>2, <3>1
  <2> QED
    BY <2>1, <2>2
<1>6. Connect(intent'.epoch) \in Calls
  BY <1>5, CallsTyped
<1>7. gate' \in Seq(Calls)
  BY <1>1, <1>2, <1>6 DEF ServiceOK, GateOK
<1>8. withdrawing' <= requests'
  BY <1>2, <1>3, <1>4
<1>9. ServiceOK'
  BY <1>1, <1>2, <1>3, <1>5, <1>7, <1>8 DEF ServiceOK, GateOK, BoundsOK
<1> QED
  BY <1>9, KeepsRequests DEF AskConnect

LEMMA AskDisconnectStep == IInv /\ AskDisconnect => IInv'
<1> SUFFICES ASSUME IInv, AskDisconnect PROVE IInv'
  OBVIOUS
<1>1. ServiceOK
  BY DEF IInv, Types
<1>2. /\ requests < MaxRequests /\ requests' = requests + 1
      /\ intent' = [on |-> FALSE, epoch |-> intent.epoch + 1]
      /\ withdrawing' = withdrawing + 1
      /\ UNCHANGED <<gate, service, claim, incomplete, outcome, listener, offered>>
  BY DEF AskDisconnect, lan
<1>3. /\ requests \in 0..MaxRequests /\ intent.epoch \in Nat /\ intent.epoch <= requests
      /\ withdrawing <= requests /\ withdrawing \in Nat
  BY <1>1 DEF ServiceOK, BoundsOK
<1>4. /\ requests' \in 0..MaxRequests /\ requests' > 0
      /\ intent.epoch + 1 \in 0..MaxRequests /\ intent.epoch + 1 <= requests'
      /\ withdrawing' \in 0..MaxRequests /\ withdrawing' <= requests'
  BY <1>2, <1>3
<1>5. intent' \in [on : BOOLEAN, epoch : 0..MaxRequests] /\ intent'.epoch <= requests'
  BY <1>2, <1>4
<1>6. ServiceOK'
  BY <1>1, <1>2, <1>4, <1>5 DEF ServiceOK, GateOK, BoundsOK
<1> QED
  BY <1>6, KeepsRequests DEF AskDisconnect

LEMMA WithdrawStep == IInv /\ Withdraw => IInv'
<1> SUFFICES ASSUME IInv, Withdraw PROVE IInv'
  OBVIOUS
<1>1. ServiceOK
  BY DEF IInv, Types
<1>2. /\ withdrawing > 0 /\ withdrawing' = withdrawing - 1 /\ claim' = 0
      /\ gate' = Append(gate, Disconnect)
      /\ UNCHANGED <<intent, requests, service, incomplete, outcome, listener, offered>>
  BY DEF Withdraw, lan
<1>3. requests \in 0..MaxRequests /\ withdrawing <= requests /\ withdrawing \in 0..MaxRequests
  BY <1>1 DEF ServiceOK, BoundsOK
<1>4. /\ withdrawing' \in 0..MaxRequests /\ withdrawing' <= requests /\ requests > 0
      /\ 0 \in 0..MaxRequests
  BY <1>2, <1>3
<1>5. gate' \in Seq(Calls)
  BY <1>1, <1>2, CallsTyped DEF ServiceOK, GateOK
<1>6. ServiceOK'
  BY <1>1, <1>2, <1>4, <1>5 DEF ServiceOK, GateOK, BoundsOK
<1> QED
  BY <1>6, KeepsRequests DEF Withdraw

LEMMA StopWaitingStep == IInv /\ StopWaiting => IInv'
<1> SUFFICES ASSUME IInv, StopWaiting PROVE IInv'
  OBVIOUS
<1>1. ServiceOK
  BY DEF IInv, Types
<1>2. PICK i \in 2..Len(gate) :
         gate' = SubSeq(gate, 1, i - 1) \o SubSeq(gate, i + 1, Len(gate))
  BY DEF StopWaiting
<1>3. gate \in Seq(Calls)
  BY <1>1 DEF ServiceOK, GateOK
<1>4. SubSeq(gate, 1, i - 1) \in Seq(Calls) /\ SubSeq(gate, i + 1, Len(gate)) \in Seq(Calls)
  BY <1>3, SubSeqProperties
<1>5. gate' \in Seq(Calls)
  BY <1>2, <1>4, ConcatProperties
<1>6. gate # <<>>
  BY <1>3
<1>7. UNCHANGED <<intent, requests, withdrawing, service, claim, incomplete, outcome, listener, offered>>
  BY DEF StopWaiting, lan
<1>8. ServiceOK'
  BY <1>1, <1>5, <1>6, <1>7 DEF ServiceOK, GateOK, BoundsOK
<1> QED
  BY <1>8, KeepsRequests DEF StopWaiting

------------------------------------------------------------------------------
(* The holder of the gate *)

LEMMA ReturnTyped ==
  ASSUME ServiceOK, gate # <<>>, NEW how \in Outcomes, Return(how),
         UNCHANGED <<intent, requests, withdrawing>>
  PROVE  /\ GateOK' /\ BoundsOK'
         /\ service'.pc = "start" /\ service'.stamp = NoStamp
<1>1. gate' = Tail(gate) /\ service' = Resting /\ outcome' = how
  BY DEF Return
<1>2. Resting \in Services /\ Resting.pc = "start" /\ Resting.stamp = NoStamp
  BY StampFacts DEF Resting, Services
<1>3. gate' \in Seq(Calls)
  BY <1>1 DEF ServiceOK, GateOK
<1>4. BoundsOK'
  BY DEF ServiceOK, BoundsOK
<1> QED
  BY <1>1, <1>2, <1>3, <1>4 DEF GateOK

LEMMA StepTyped ==
  ASSUME NEW pc \in {"start", "dial", "bootstrap", "listen", "undo", "retire", "await",
                     "stop", "stop directly"},
         ServiceOK, Step(pc), UNCHANGED <<intent, requests, withdrawing>>
  PROVE  /\ GateOK' /\ BoundsOK'
         /\ service'.pc = pc /\ service'.stamp = service.stamp
<1>1. service' = [service EXCEPT !.pc = pc] /\ gate' = gate /\ outcome' = outcome
  BY DEF Step
<1>2. service \in Services
  BY DEF ServiceOK, GateOK
<1>3. service' \in Services /\ service'.pc = pc /\ service'.stamp = service.stamp
  BY <1>1, <1>2 DEF Services
<1>4. BoundsOK'
  BY <1>1 DEF ServiceOK, BoundsOK
<1> QED
  BY <1>1, <1>3, <1>4 DEF GateOK, ServiceOK

\* Nothing but the service moved.
LEMMA KeepsRest ==
  ASSUME IInv, UNCHANGED <<coordinator, task, stop, expired, host>>, ServiceOK', ServiceInv',
         stop.pc # "idle" => service'.pc \in Stopping
  PROVE  IInv'
<1>1. CoordOK' /\ TaskOK'
  BY DEF IInv, Types, CoordOK, ActiveOK, TaskOK, coordinator
<1>2. StopOK' /\ HostOK'
  BY DEF IInv, Types, StopOK, HostOK, host
<1>3. TaskInv' /\ StopInv' /\ HostInv' /\ PendingInv'
  BY DEF IInv, TaskInv, Fine, StopInv, HostInv, OwnerKeepsQueue, PendingInv, coordinator, host
<1> QED
  BY <1>1, <1>2, <1>3 DEF IInv, Types

\* A holder that returns leaves a clean house, or an authority, or a failed
\* teardown.
LEMMA ReturnInv ==
  ASSUME service'.pc = "start", service'.stamp = NoStamp,
         authority' = NoStamp /\ ~incomplete' => Clean'
  PROVE  ServiceInv'
BY StampFacts DEF ServiceInv, Connecting

LEMMA ClaimConnectStep == IInv /\ ClaimConnect => IInv'
<1> SUFFICES ASSUME IInv, ClaimConnect PROVE IInv'
  OBVIOUS
<1>1. ServiceOK /\ ServiceInv /\ StopInv
  BY DEF IInv, Types
<1>2. /\ gate # <<>> /\ Head(gate) \in Calls /\ service.pc = "start"
      /\ UNCHANGED <<coordinator, task, stop, expired, host, intent, requests, withdrawing, incomplete, lan>>
  BY <1>1 DEF ClaimConnect, Holder, ServiceOK, GateOK
<1>3. claim' \in 0..MaxRequests
  <2>1. claim \in 0..MaxRequests /\ Mine \in 0..MaxRequests /\ 0 \in 0..MaxRequests
    BY <1>1, <1>2 DEF ServiceOK, Mine, Calls
  <2> QED
    BY <2>1 DEF ClaimConnect
<1>4. stop.pc = "idle"
  BY <1>1, <1>2 DEF StopInv, Stopping
<1>5. Clean' <=> Clean
  BY <1>2 DEF Clean, coordinator, host, lan
<1>6. \/ \E how \in Outcomes : Return(how)
      \/ Step("dial") /\ authority = NoStamp /\ ~incomplete
  BY DEF ClaimConnect, Outcomes
<1>7. CASE \E how \in Outcomes : Return(how)
  <2>1. GateOK' /\ BoundsOK' /\ service'.pc = "start" /\ service'.stamp = NoStamp
    BY <1>1, <1>2, <1>7, ReturnTyped
  <2>2. ServiceOK'
    BY <1>1, <1>2, <1>3, <2>1 DEF ServiceOK, lan
  <2>3. ServiceInv'
    BY <1>1, <1>2, <1>5, <2>1, ReturnInv DEF ServiceInv, host
  <2> QED
    BY <1>2, <1>4, <2>2, <2>3, KeepsRest
<1>8. CASE Step("dial") /\ authority = NoStamp /\ ~incomplete
  <2>1. GateOK' /\ BoundsOK' /\ service'.pc = "dial" /\ service'.stamp = service.stamp
    BY <1>1, <1>2, <1>8, StepTyped
  <2>2. ServiceOK'
    BY <1>1, <1>2, <1>3, <2>1 DEF ServiceOK, lan
  <2>3. Clean
    BY <1>1, <1>2, <1>8 DEF ServiceInv
  <2>4. ServiceInv'
    BY <1>1, <1>2, <1>5, <1>8, <2>1, <2>3 DEF ServiceInv, Connecting, host
  <2> QED
    BY <1>2, <1>4, <2>2, <2>4, KeepsRest
<1> QED
  BY <1>6, <1>7, <1>8

LEMMA DialFailsStep == IInv /\ DialFails => IInv'
<1> SUFFICES ASSUME IInv, DialFails PROVE IInv'
  OBVIOUS
<1>1. ServiceOK /\ ServiceInv /\ StopInv
  BY DEF IInv, Types
<1>2. /\ gate # <<>> /\ service.pc = "dial"
      /\ UNCHANGED <<coordinator, task, stop, expired, host, intent, requests, withdrawing, incomplete, lan>>
  BY DEF DialFails, Holder
<1>3. claim' \in 0..MaxRequests
  <2>1. claim \in 0..MaxRequests /\ 0 \in 0..MaxRequests
    BY <1>1 DEF ServiceOK
  <2> QED
    BY <2>1 DEF DialFails
<1>4. stop.pc = "idle"
  BY <1>1, <1>2 DEF StopInv, Stopping
<1>5. Clean'
  BY <1>1, <1>2 DEF ServiceInv, Connecting, Clean, coordinator, host, lan
<1>6. \E how \in Outcomes : Return(how)
  BY DEF DialFails, Outcomes
<1>7. GateOK' /\ BoundsOK' /\ service'.pc = "start" /\ service'.stamp = NoStamp
  BY <1>1, <1>2, <1>6, ReturnTyped
<1>8. ServiceOK'
  BY <1>1, <1>2, <1>3, <1>7 DEF ServiceOK, lan
<1>9. ServiceInv'
  BY <1>5, <1>7, ReturnInv
<1> QED
  BY <1>2, <1>4, <1>8, <1>9, KeepsRest

\* The owner comes into a clean house, so its queue is the one being played.
LEMMA InstallOwnerStep == IInv /\ InstallOwner => IInv'
<1> SUFFICES ASSUME IInv, InstallOwner PROVE IInv'
  OBVIOUS
<1>1. ServiceOK /\ ServiceInv /\ StopInv /\ HostInv /\ CoordOK /\ TaskOK /\ StopOK /\ HostOK
  BY DEF IInv, Types
<1>2. /\ gate # <<>> /\ service.pc = "dial"
      /\ UNCHANGED <<coordinator, task, stop, expired, lane, snapshot, queue, intent, requests,
                     withdrawing, incomplete, lan>>
  BY DEF InstallOwner, Holder
<1>3. claim' \in 0..MaxRequests
  <2>1. claim \in 0..MaxRequests /\ 0 \in 0..MaxRequests
    BY <1>1 DEF ServiceOK
  <2> QED
    BY <2>1 DEF InstallOwner
<1>4. stop.pc = "idle" /\ Clean /\ ~incomplete /\ authority = NoStamp
  BY <1>1, <1>2 DEF StopInv, Stopping, ServiceInv, Connecting
<1>5. Clean'
  BY <1>2, <1>4 DEF Clean, coordinator, lan
<1>6. CASE authority' = authority /\ Return("superseded")
  <2>1. "superseded" \in Outcomes
    BY DEF Outcomes
  <2>2. GateOK' /\ BoundsOK' /\ service'.pc = "start" /\ service'.stamp = NoStamp
    BY <1>1, <1>2, <1>6, <2>1, ReturnTyped
  <2>3. ServiceOK'
    BY <1>1, <1>2, <1>3, <2>2 DEF ServiceOK, lan
  <2>4. ServiceInv'
    BY <1>5, <2>2, ReturnInv
  <2> QED
    BY <1>2, <1>4, <1>6, <2>3, <2>4, KeepsRest DEF host
<1>7. CASE /\ authority' = Connected(requests)
           /\ service' = [pc |-> "bootstrap", stamp |-> Connected(requests)]
           /\ UNCHANGED <<gate, outcome>>
  <2>1. requests \in 1..MaxRequests
    BY <1>1, <1>2 DEF ServiceOK, BoundsOK
  <2>2. Connected(requests) \in Stamps /\ Connected(requests).by = "connect"
    BY <2>1, StampFacts
  <2>3. service' \in Services
    BY <1>7, <2>2 DEF Services
  <2>4. ServiceOK'
    BY <1>1, <1>2, <1>3, <1>7, <2>3 DEF ServiceOK, GateOK, BoundsOK, lan
  <2>5. ServiceInv'
    BY <1>2, <1>4, <1>5, <1>7, <2>2, StampFacts DEF ServiceInv, Connecting
  <2>6. HostOK' /\ HostInv'
    BY <1>1, <1>2, <1>4, <1>7, <2>2 DEF HostOK, HostInv, OwnerKeepsQueue, Clean
  <2>7. CoordOK' /\ TaskOK' /\ StopOK'
    BY <1>1, <1>2 DEF CoordOK, ActiveOK, TaskOK, StopOK, coordinator
  <2>8. TaskInv' /\ StopInv' /\ PendingInv'
    BY <1>2, <1>4 DEF IInv, TaskInv, Fine, StopInv, PendingInv, coordinator
  <2> QED
    BY <2>4, <2>5, <2>6, <2>7, <2>8 DEF IInv, Types
<1> QED
  BY <1>6, <1>7 DEF InstallOwner

LEMMA BeginShutdownKeeps ==
  ASSUME IInv, BeginShutdown, UNCHANGED <<task, expired, host, lan>>, service'.pc \in Stopping
  PROVE  /\ CoordOK' /\ TaskOK' /\ StopOK' /\ HostOK'
         /\ TaskInv' /\ StopInv' /\ HostInv' /\ PendingInv'
         /\ Clean => Clean'
<1>1. CoordOK /\ TaskOK /\ StopOK /\ HostOK
  BY DEF IInv, Types
<1>2. CoordOK' /\ StopOK'
  BY <1>1, BeginShutdownTyped
<1>3. TaskOK' /\ HostOK'
  BY <1>1 DEF TaskOK, HostOK, host
<1>4. TaskInv' /\ HostInv'
  BY DEF IInv, TaskInv, Fine, HostInv, OwnerKeepsQueue, host
<1>5. lifecycle' # "enabled" /\ pending' = NotPending
  BY DEF BeginShutdown, IInv, PendingInv, coordinator
<1>6. stop'.pc \in {"over", "join"} /\ stop'.by # "service"
  BY DEF BeginShutdown, NoStop
<1>7. StopInv'
  BY <1>5, <1>6 DEF StopInv
<1>8. Clean => Clean'
  BY <1>5 DEF Clean, host, lan
<1> QED
  BY <1>2, <1>3, <1>4, <1>5, <1>7, <1>8 DEF PendingInv

LEMMA DeclareOwnerReadyStep == IInv /\ DeclareOwnerReady => IInv'
<1> SUFFICES ASSUME IInv, DeclareOwnerReady PROVE IInv'
  OBVIOUS
<1>1. ServiceOK /\ ServiceInv /\ StopInv /\ CoordOK /\ TaskOK /\ StopOK /\ HostOK
  BY DEF IInv, Types
<1>2. /\ gate # <<>> /\ service.pc = "bootstrap"
      /\ UNCHANGED <<task, expired, host, intent, requests, withdrawing, claim, incomplete, lan>>
  BY DEF DeclareOwnerReady, Holder
<1>3. /\ stop.pc = "idle" /\ Clean /\ ~incomplete /\ authority \in {NoStamp, service.stamp}
      /\ service.stamp.by = "connect"
  BY <1>1, <1>2 DEF StopInv, Stopping, ServiceInv, Connecting
<1>4. CASE /\ pending = NotPending /\ active = Owner /\ lifecycle' = "enabled" /\ Step("listen")
           /\ UNCHANGED <<generation, pending, active, cancelled, stop>>
  <2>1. GateOK' /\ BoundsOK' /\ service'.pc = "listen" /\ service'.stamp = service.stamp
    BY <1>1, <1>2, <1>4, StepTyped
  <2>2. ServiceOK'
    BY <1>1, <1>2, <2>1 DEF ServiceOK, lan
  <2>3. Clean'
    BY <1>2, <1>3, <1>4 DEF Clean, host, lan
  <2>4. ServiceInv'
    BY <1>2, <1>3, <2>1, <2>3 DEF ServiceInv, Connecting, host
  <2>5. CoordOK' /\ TaskOK' /\ StopOK' /\ HostOK'
    <3>1. CoordOK'
      BY <1>1, <1>4 DEF CoordOK, ActiveOK
    <3>2. TaskOK' /\ StopOK'
      BY <1>1, <1>2, <1>4 DEF TaskOK, StopOK
    <3>3. HostOK'
      BY <1>1, <1>2 DEF HostOK, host
    <3> QED
      BY <3>1, <3>2, <3>3
  <2>6. TaskInv' /\ StopInv' /\ HostInv' /\ PendingInv'
    BY <1>2, <1>3, <1>4 DEF IInv, TaskInv, Fine, StopInv, HostInv, OwnerKeepsQueue, PendingInv, host
  <2> QED
    BY <2>2, <2>4, <2>5, <2>6 DEF IInv, Types
<1>5. CASE BeginShutdown /\ Step("undo")
  <2>1. GateOK' /\ BoundsOK' /\ service'.pc = "undo" /\ service'.stamp = service.stamp
    BY <1>1, <1>2, <1>5, StepTyped
  <2>2. ServiceOK'
    BY <1>1, <1>2, <2>1 DEF ServiceOK, lan
  <2>3. /\ CoordOK' /\ TaskOK' /\ StopOK' /\ HostOK'
        /\ TaskInv' /\ StopInv' /\ HostInv' /\ PendingInv'
        /\ Clean => Clean'
    BY <1>2, <1>5, <2>1, BeginShutdownKeeps DEF Stopping
  <2>4. ServiceInv'
    BY <1>2, <1>3, <2>1, <2>3 DEF ServiceInv, Connecting, host
  <2> QED
    BY <2>2, <2>3, <2>4 DEF IInv, Types
<1> QED
  BY <1>4, <1>5 DEF DeclareOwnerReady

LEMMA ConnectFailsStep == IInv /\ ConnectFails => IInv'
<1> SUFFICES ASSUME IInv, ConnectFails PROVE IInv'
  OBVIOUS
<1>1. ServiceOK /\ ServiceInv /\ StopInv
  BY DEF IInv, Types
<1>2. /\ gate # <<>> /\ service.pc \in {"bootstrap", "listen"} /\ Step("retire")
      /\ UNCHANGED <<coordinator, task, stop, expired, host, intent, requests, withdrawing, claim,
                     incomplete, lan>>
  BY DEF ConnectFails, Holder
<1>3. /\ stop.pc = "idle" /\ Clean /\ ~incomplete /\ authority \in {NoStamp, service.stamp}
      /\ service.stamp.by = "connect"
  BY <1>1, <1>2 DEF StopInv, Stopping, ServiceInv, Connecting
<1>4. GateOK' /\ BoundsOK' /\ service'.pc = "retire" /\ service'.stamp = service.stamp
  BY <1>1, <1>2, StepTyped
<1>5. ServiceOK'
  BY <1>1, <1>2, <1>4 DEF ServiceOK, lan
<1>6. Clean'
  BY <1>2, <1>3 DEF Clean, coordinator, host, lan
<1>7. ServiceInv'
  BY <1>2, <1>3, <1>4, <1>6 DEF ServiceInv, Connecting, host
<1> QED
  BY <1>2, <1>3, <1>5, <1>7, KeepsRest

LEMMA StartListenerStep == IInv /\ StartListener => IInv'
<1> SUFFICES ASSUME IInv, StartListener PROVE IInv'
  OBVIOUS
<1>1. ServiceOK /\ ServiceInv /\ StopInv
  BY DEF IInv, Types
<1>2. /\ gate # <<>> /\ service.pc = "listen"
      /\ UNCHANGED <<coordinator, task, stop, expired, host, intent, requests, withdrawing, claim,
                     incomplete, offered>>
  BY DEF StartListener, Holder
<1>3. /\ stop.pc = "idle" /\ Clean /\ ~incomplete /\ authority \in {NoStamp, service.stamp}
      /\ service.stamp.by = "connect"
  BY <1>1, <1>2 DEF StopInv, Stopping, ServiceInv, Connecting
<1>4. CASE authority = service.stamp /\ listener' \in {listener, NoStamp, service.stamp} /\ Return("connected")
  <2>1. "connected" \in Outcomes
    BY DEF Outcomes
  <2>2. GateOK' /\ BoundsOK' /\ service'.pc = "start" /\ service'.stamp = NoStamp
    BY <1>1, <1>2, <1>4, <2>1, ReturnTyped
  <2>3. service.stamp \in Stamps
    BY <1>1 DEF ServiceOK, GateOK, Services
  <2>4. ServiceOK'
    BY <1>1, <1>2, <1>4, <2>2, <2>3, StampFacts DEF ServiceOK
  <2>5. authority' # NoStamp
    BY <1>2, <1>3, <1>4, StampFacts DEF host
  <2>6. ServiceInv'
    BY <2>2, <2>5, ReturnInv
  <2> QED
    BY <1>2, <1>3, <2>4, <2>6, KeepsRest
<1>5. CASE Step("retire") /\ UNCHANGED listener
  <2>1. GateOK' /\ BoundsOK' /\ service'.pc = "retire" /\ service'.stamp = service.stamp
    BY <1>1, <1>2, <1>5, StepTyped
  <2>2. ServiceOK'
    BY <1>1, <1>2, <1>5, <2>1 DEF ServiceOK
  <2>3. Clean'
    BY <1>2, <1>3, <1>5 DEF Clean, coordinator, host
  <2>4. ServiceInv'
    BY <1>2, <1>3, <2>1, <2>3 DEF ServiceInv, Connecting, host
  <2> QED
    BY <1>2, <1>3, <2>2, <2>4, KeepsRest
<1>6. CASE authority = service.stamp
  BY <1>4, <1>6 DEF StartListener
<1>7. CASE authority # service.stamp
  BY <1>5, <1>7 DEF StartListener
<1> QED
  BY <1>6, <1>7

LEMMA NoStopFacts ==
  /\ NoStop.pc = "idle"
  /\ NoStop \in [pc : {"idle", "join", "gate", "clear", "restore", "drop", "end", "over"},
                 by : {"none", "coordinator", "service"}, late : BOOLEAN]
BY DEF NoStop

LEMMA RetireOwnerStep == IInv /\ RetireOwner => IInv'
<1> SUFFICES ASSUME IInv, RetireOwner PROVE IInv'
  OBVIOUS
<1>1. /\ ServiceOK /\ ServiceInv /\ StopInv /\ HostInv
      /\ CoordOK /\ TaskOK /\ StopOK /\ HostOK
  BY DEF IInv, Types
<1>2. /\ gate # <<>> /\ service.pc \in Connecting /\ stop' = NoStop
      /\ authority' \in {NoStamp, authority}
      /\ UNCHANGED <<coordinator, task, expired, lane, snapshot, queue, intent, requests,
                     withdrawing, claim, incomplete, lan>>
  BY DEF RetireOwner, Holder, Connecting
<1>3. Clean
  BY <1>1, <1>2 DEF ServiceInv
<1>4. Clean'
  BY <1>2, <1>3 DEF Clean, coordinator, lan
<1>5. \E how \in Outcomes : Return(how)
  BY DEF RetireOwner, Outcomes
<1>6. GateOK' /\ BoundsOK' /\ service'.pc = "start" /\ service'.stamp = NoStamp
  BY <1>1, <1>2, <1>5, ReturnTyped
<1>7. ServiceOK'
  BY <1>1, <1>2, <1>6 DEF ServiceOK, lan
<1>8. ServiceInv'
  BY <1>4, <1>6, ReturnInv
<1>9. StopOK' /\ StopInv'
  BY <1>1, <1>2, NoStopFacts DEF StopOK, StopInv
<1>10. HostOK' /\ HostInv'
  BY <1>1, <1>2, <1>3, StampFacts DEF HostOK, HostInv, OwnerKeepsQueue, Clean
<1>11. CoordOK' /\ TaskOK' /\ TaskInv' /\ PendingInv'
  BY <1>1, <1>2 DEF CoordOK, ActiveOK, TaskOK, IInv, TaskInv, Fine, PendingInv, coordinator
<1> QED
  BY <1>7, <1>8, <1>9, <1>10, <1>11 DEF IInv, Types

LEMMA CloseListenerStep == IInv /\ CloseListener => IInv'
<1> SUFFICES ASSUME IInv, CloseListener PROVE IInv'
  OBVIOUS
<1>1. ServiceOK /\ ServiceInv /\ StopInv
  BY DEF IInv, Types
<1>2. /\ gate # <<>> /\ service.pc = "start"
      /\ UNCHANGED <<coordinator, task, stop, expired, host, intent, requests, withdrawing,
                     incomplete, offered>>
  BY DEF CloseListener, Holder
<1>3. stop.pc = "idle"
  BY <1>1, <1>2 DEF StopInv, Stopping
<1>4. CASE Return("superseded by enable") /\ UNCHANGED <<claim, listener>>
  <2>1. "superseded by enable" \in Outcomes
    BY DEF Outcomes
  <2>2. GateOK' /\ BoundsOK' /\ service'.pc = "start" /\ service'.stamp = NoStamp
    BY <1>1, <1>2, <1>4, <2>1, ReturnTyped
  <2>3. ServiceOK'
    BY <1>1, <1>2, <1>4, <2>2 DEF ServiceOK
  <2>4. authority' = NoStamp /\ ~incomplete' => Clean'
    BY <1>1, <1>2, <1>4 DEF ServiceInv, Clean, coordinator, host
  <2>5. ServiceInv'
    BY <2>2, <2>4, ReturnInv
  <2> QED
    BY <1>2, <1>3, <2>3, <2>5, KeepsRest
<1>5. CASE ~offered /\ claim' = 0 /\ listener' = NoStamp /\ Step("await")
  <2>1. GateOK' /\ BoundsOK' /\ service'.pc = "await" /\ service'.stamp = service.stamp
    BY <1>1, <1>2, <1>5, StepTyped
  <2>2. 0 \in 0..MaxRequests
    OBVIOUS
  <2>3. ServiceOK'
    BY <1>1, <1>2, <1>5, <2>1, <2>2, StampFacts DEF ServiceOK
  <2>4. authority' = NoStamp /\ ~incomplete' => Clean'
    BY <1>1, <1>2, <1>5 DEF ServiceInv, Clean, coordinator, host
  <2>5. ServiceInv'
    BY <1>1, <1>2, <1>5, <2>1, <2>4 DEF ServiceInv, Connecting
  <2> QED
    BY <1>2, <1>3, <2>3, <2>5, KeepsRest
<1> QED
  BY <1>4, <1>5 DEF CloseListener

LEMMA StopCoordinatorStep == IInv /\ StopCoordinator => IInv'
<1> SUFFICES ASSUME IInv, StopCoordinator PROVE IInv'
  OBVIOUS
<1>1. ServiceOK /\ ServiceInv
  BY DEF IInv, Types
<1>2. /\ gate # <<>> /\ service.pc = "await" /\ BeginShutdown /\ Step("stop")
      /\ UNCHANGED <<task, expired, host, intent, requests, withdrawing, claim, incomplete, lan>>
  BY DEF StopCoordinator, Holder
<1>3. GateOK' /\ BoundsOK' /\ service'.pc = "stop" /\ service'.stamp = service.stamp
  BY <1>1, <1>2, StepTyped
<1>4. ServiceOK'
  BY <1>1, <1>2, <1>3 DEF ServiceOK, lan
<1>5. /\ CoordOK' /\ TaskOK' /\ StopOK' /\ HostOK'
      /\ TaskInv' /\ StopInv' /\ HostInv' /\ PendingInv'
  BY <1>2, <1>3, BeginShutdownKeeps DEF Stopping
<1>6. ServiceInv'
  BY <1>1, <1>2, <1>3 DEF ServiceInv, Connecting, lan
<1> QED
  BY <1>4, <1>5, <1>6 DEF IInv, Types

LEMMA StopDirectlyStep == IInv /\ StopDirectly => IInv'
<1> SUFFICES ASSUME IInv, StopDirectly PROVE IInv'
  OBVIOUS
<1>1. /\ ServiceOK /\ ServiceInv /\ StopInv
      /\ CoordOK /\ TaskOK /\ StopOK /\ HostOK
  BY DEF IInv, Types
<1>2. /\ gate # <<>> /\ service.pc = "stop" /\ stop.pc = "over" /\ Step("stop directly")
      /\ stop' = [NoStop EXCEPT !.pc = "gate", !.by = "service"]
      /\ UNCHANGED <<coordinator, task, expired, host, intent, requests, withdrawing, claim,
                     incomplete, lan>>
  BY DEF StopDirectly, Holder
<1>3. GateOK' /\ BoundsOK' /\ service'.pc = "stop directly" /\ service'.stamp = service.stamp
  BY <1>1, <1>2, StepTyped
<1>4. ServiceOK'
  BY <1>1, <1>2, <1>3 DEF ServiceOK, lan
<1>5. /\ stop'.pc = "gate" /\ stop'.by = "service"
      /\ stop' \in [pc : {"idle", "join", "gate", "clear", "restore", "drop", "end", "over"},
                    by : {"none", "coordinator", "service"}, late : BOOLEAN]
  BY <1>2 DEF NoStop
<1>6. StopOK' /\ StopInv'
  BY <1>1, <1>2, <1>3, <1>5 DEF StopOK, StopInv, Stopping, coordinator
<1>7. CoordOK' /\ TaskOK' /\ HostOK'
  BY <1>1, <1>2 DEF CoordOK, ActiveOK, TaskOK, HostOK, coordinator, host
<1>8. TaskInv' /\ HostInv' /\ PendingInv'
  BY <1>2 DEF IInv, TaskInv, Fine, HostInv, OwnerKeepsQueue, PendingInv, coordinator, host
<1>9. ServiceInv'
  BY <1>1, <1>2, <1>3, <1>5 DEF ServiceInv, Connecting, lan
<1> QED
  BY <1>4, <1>6, <1>7, <1>8, <1>9 DEF IInv, Types

\* A teardown that reports success leaves a clean house: this is what the next
\* connect relies on.
LEMMA DisconnectedStep == IInv /\ Disconnected => IInv'
<1> SUFFICES ASSUME IInv, Disconnected PROVE IInv'
  OBVIOUS
<1>1. /\ ServiceOK /\ ServiceInv /\ StopInv /\ HostInv /\ PendingInv
      /\ CoordOK /\ TaskOK /\ StopOK /\ HostOK
  BY DEF IInv, Types
<1>2. /\ gate # <<>> /\ service.pc \in {"stop", "stop directly"} /\ stop.pc = "over" /\ stop' = NoStop
      /\ UNCHANGED <<coordinator, task, expired, host, intent, requests, withdrawing, claim, lan>>
  BY DEF Disconnected, Holder
<1>3. incomplete' = ((service.pc = "stop directly" /\ stop.late) \/ authority # NoStamp)
  BY DEF Disconnected
<1>4. incomplete' \in BOOLEAN
  BY <1>3, Zenon
<1>5. \E how \in Outcomes : Return(how)
  BY DEF Disconnected, Outcomes
<1>6. GateOK' /\ BoundsOK' /\ service'.pc = "start" /\ service'.stamp = NoStamp
  BY <1>1, <1>2, <1>5, ReturnTyped
<1>7. ServiceOK'
  BY <1>1, <1>2, <1>4, <1>6 DEF ServiceOK, lan
<1>8. authority' = NoStamp /\ ~incomplete' => Clean'
  <2> SUFFICES ASSUME authority' = NoStamp, ~incomplete' PROVE Clean'
    OBVIOUS
  <2>1. authority = NoStamp /\ ~(service.pc = "stop directly" /\ stop.late)
    BY <1>2, <1>3 DEF host
  <2>2. snapshot = "none"
    <3>1. CASE service.pc = "stop"
      BY <3>1 DEF Disconnected
    <3>2. CASE service.pc = "stop directly"
      BY <1>1, <1>2, <2>1, <3>2 DEF StopInv, ServiceInv
    <3> QED
      BY <1>2, <3>1, <3>2
  <2>3. queue = "owner"
    BY <1>1, <2>2 DEF HostInv, OwnerKeepsQueue
  <2>4. pending = NotPending /\ lifecycle # "enabled"
    BY <1>1, <1>2 DEF StopInv, PendingInv
  <2>5. listener = NoStamp /\ ~offered
    BY <1>1, <1>2 DEF ServiceInv
  <2> QED
    BY <1>2, <2>2, <2>3, <2>4, <2>5 DEF Clean, coordinator, host, lan
<1>9. ServiceInv'
  BY <1>6, <1>8, ReturnInv
<1>10. StopOK' /\ StopInv'
  BY <1>1, <1>2, NoStopFacts DEF StopOK, StopInv
<1>11. CoordOK' /\ TaskOK' /\ HostOK'
  BY <1>1, <1>2 DEF CoordOK, ActiveOK, TaskOK, HostOK, coordinator, host
<1>12. TaskInv' /\ HostInv' /\ PendingInv'
  BY <1>2 DEF IInv, TaskInv, Fine, HostInv, OwnerKeepsQueue, PendingInv, coordinator, host
<1> QED
  BY <1>7, <1>9, <1>10, <1>11, <1>12 DEF IInv, Types

------------------------------------------------------------------------------
(* The LAN callback *)

\* While a listener is up or an offer is on its way, nobody relies on Clean.
LEMMA OfferExcludes ==
  ASSUME ServiceInv, listener # NoStamp \/ offered
  PROVE  /\ ~Clean
         /\ service.pc \notin Connecting \cup {"await", "stop", "stop directly"}
BY DEF ServiceInv, Clean

LEMMA OfferStep == IInv /\ Offer => IInv'
<1> SUFFICES ASSUME IInv, Offer PROVE IInv'
  OBVIOUS
<1>1. ServiceOK /\ ServiceInv /\ StopInv
  BY DEF IInv, Types
<1>2. /\ listener # NoStamp /\ authority = listener /\ offered' = TRUE
      /\ UNCHANGED <<coordinator, task, stop, expired, host, calls, listener>>
  BY DEF Offer
<1>3. offered' \in BOOLEAN
  BY <1>2, Zenon
<1>4. ServiceOK'
  BY <1>1, <1>2, <1>3 DEF ServiceOK, GateOK, BoundsOK, calls
<1>5. service.pc \notin Connecting \cup {"await", "stop", "stop directly"}
  BY <1>1, <1>2, OfferExcludes
<1>6. ServiceInv'
  BY <1>1, <1>2, <1>5 DEF ServiceInv, Connecting, host, calls
<1>7. stop.pc # "idle" => service'.pc \in Stopping
  BY <1>1, <1>2 DEF StopInv, calls
<1> QED
  BY <1>2, <1>4, <1>6, <1>7, KeepsRest

LEMMA AdmitFine ==
  ASSUME CoordOK, TaskOK, TaskInv, PendingInv, Admit, lane' = lane
  PROVE  TaskInv' /\ PendingInv' /\ (lifecycle' = lifecycle \/ lifecycle' # "enabled")
<1>1. lifecycle = "enabled"
  BY DEF Admit
<1>2. CASE generation = MaxGeneration
  BY <1>2 DEF Admit, Exhaust, TaskInv, Fine, PendingInv
<1>3. CASE generation # MaxGeneration
  <2> DEFINE new == [NoTask EXCEPT !.pc = "prepare"]
  <2>1. task' = [task EXCEPT ![generation + 1] = new] /\ lifecycle' = lifecycle
    BY <1>3 DEF Admit
  <2>2. \A h \in Generations : Fine(new, h, lane')
    BY NewTaskFine
  <2>3. \A h \in Generations : task'[h] \in {new, task[h]}
    <3> HIDE DEF new
    <3> QED
      BY <2>1 DEF TaskOK
  <2>4. \A h \in Generations : Fine(task[h], h, lane')
    BY DEF TaskInv
  <2>5. \A h \in Generations : Fine(task'[h], h, lane')
    <3> HIDE DEF new
    <3> QED
      BY <2>2, <2>3, <2>4
  <2> QED
    BY <1>1, <2>1, <2>5 DEF TaskInv, PendingInv
<1> QED
  BY <1>2, <1>3

LEMMA HandoffStep == IInv /\ Handoff => IInv'
<1> SUFFICES ASSUME IInv, Handoff PROVE IInv'
  OBVIOUS
<1>1. /\ ServiceOK /\ ServiceInv /\ StopInv /\ HostInv
      /\ CoordOK /\ TaskOK /\ StopOK /\ HostOK
  BY DEF IInv, Types
<1>2. /\ offered /\ offered' = FALSE
      /\ UNCHANGED <<stop, expired, host, calls, listener>>
  BY DEF Handoff
<1>3. offered' \in BOOLEAN
  BY <1>2, Zenon
<1>4. ServiceOK'
  BY <1>1, <1>2, <1>3 DEF ServiceOK, GateOK, BoundsOK, calls
<1>5. ~Clean /\ service.pc \notin Connecting \cup {"await", "stop", "stop directly"}
  BY <1>1, <1>2, OfferExcludes
<1>6. ~(authority = NoStamp /\ ~incomplete /\ service.pc = "start")
  BY <1>1, <1>5 DEF ServiceInv
<1>7. ServiceInv'
  BY <1>1, <1>2, <1>5, <1>6 DEF ServiceInv, Connecting, host, calls
<1>8. /\ CoordOK' /\ TaskOK' /\ TaskInv' /\ PendingInv'
      /\ lifecycle' = lifecycle \/ lifecycle' # "enabled"
  <2>1. CASE Admit
    BY <1>1, <1>2, <2>1, AdmitTyped, AdmitFine DEF IInv, host
  <2>2. CASE UNCHANGED <<coordinator, task>>
    BY <1>1, <1>2, <2>2
    DEF CoordOK, ActiveOK, TaskOK, IInv, TaskInv, Fine, PendingInv, coordinator, host
  <2> QED
    BY <2>1, <2>2 DEF Handoff
<1>9. StopOK' /\ HostOK' /\ HostInv'
  BY <1>1, <1>2 DEF StopOK, HostOK, HostInv, OwnerKeepsQueue, host
<1>10. StopInv'
  BY <1>1, <1>2, <1>8 DEF StopInv, host, calls
<1> QED
  BY <1>4, <1>7, <1>8, <1>9, <1>10 DEF IInv, Types

------------------------------------------------------------------------------
(* The theorems *)

\* The initial state is a clean house in which nothing runs.
LEMMA InitInv == Init => IInv
<1> SUFFICES ASSUME Init PROVE IInv
  OBVIOUS
<1>1. Types
  BY InitTypes
<1>2. /\ task = [g \in Generations |-> NoTask] /\ stop = NoStop /\ authority = NoStamp
      /\ snapshot = "none" /\ queue = "owner" /\ pending = NotPending /\ lifecycle = "disabled"
      /\ service = Resting /\ listener = NoStamp /\ offered = FALSE /\ incomplete = FALSE
  BY DEF Init, DelegationInit
<1>3. TaskInv
  <2>1. NoTask.pc = "idle" /\ NoTask.captured = "none"
    BY DEF NoTask
  <2> QED
    BY <1>2, <2>1 DEF TaskInv, Fine, Expecting, Holding
<1>4. StopInv
  BY <1>2, NoStopFacts DEF StopInv
<1>5. HostInv /\ PendingInv
  BY <1>2, StampFacts DEF HostInv, OwnerKeepsQueue, PendingInv
<1>6. ServiceInv
  <2>1. Clean
    BY <1>2 DEF Clean
  <2>2. service.pc = "start" /\ service.stamp = NoStamp
    BY <1>2 DEF Resting
  <2> QED
    BY <2>1, <2>2, StampFacts DEF ServiceInv, Connecting
<1> QED
  BY <1>1, <1>3, <1>4, <1>5, <1>6 DEF IInv

LEMMA StutterInv == IInv /\ UNCHANGED vars => IInv'
<1> SUFFICES ASSUME IInv, UNCHANGED vars PROVE IInv'
  OBVIOUS
<1>1. UNCHANGED <<coordinator, task, stop, expired, host, calls, lan>>
  BY DEF vars
<1>2. TaskOK' /\ TaskInv'
  BY <1>1 DEF IInv, Types, TaskOK, TaskInv, Fine, host
<1>3. ServiceOK'
  BY <1>1 DEF IInv, Types, ServiceOK, GateOK, BoundsOK, calls, lan
<1>4. UNCHANGED <<service, incomplete>>
  BY <1>1 DEF calls
<1> QED
  BY <1>1, <1>3, <1>4, KeepsRequests

LEMMA NextInv == IInv /\ Next => IInv'
<1> SUFFICES ASSUME IInv, Next PROVE IInv'
  OBVIOUS
<1>1. CASE AskConnect \/ AskDisconnect
  BY <1>1, AskConnectStep, AskDisconnectStep
<1>2. CASE Service
  <2>1. CASE Withdraw \/ StopWaiting
    BY <2>1, WithdrawStep, StopWaitingStep
  <2>2. CASE ClaimConnect \/ DialFails \/ InstallOwner \/ DeclareOwnerReady
    BY <2>2, ClaimConnectStep, DialFailsStep, InstallOwnerStep, DeclareOwnerReadyStep
  <2>3. CASE ConnectFails \/ StartListener \/ RetireOwner
    BY <2>3, ConnectFailsStep, StartListenerStep, RetireOwnerStep
  <2>4. CASE CloseListener \/ StopCoordinator \/ StopDirectly \/ Disconnected
    BY <2>4, CloseListenerStep, StopCoordinatorStep, StopDirectlyStep, DisconnectedStep
  <2> QED
    BY <1>2, <2>1, <2>2, <2>3, <2>4 DEF Service
<1>3. CASE Offer \/ Handoff
  BY <1>3, OfferStep, HandoffStep
<1>4. CASE DelegationNext /\ UNCHANGED <<calls, lan>>
  BY <1>4, DelegationStep
<1> QED
  BY <1>1, <1>2, <1>3, <1>4 DEF Next

\* The inductive invariant.  That the owner's queue is kept is not inductive:
\* it needs to know what a running activation has captured, that the lane
\* separates activations from the shutdown, and that every connect finds a
\* clean house because every teardown that reports success leaves one.
THEOREM Invariance == Spec => []IInv
<1>1. IInv /\ [Next]_vars => IInv'
  BY NextInv, StutterInv
<1> QED
  BY <1>1, InitInv, PTL DEF Spec

\* For any number of generations and of requests, the coordinator, the host
\* and the service are well typed.
THEOREM TypeCorrect == Spec => []TypeOK
<1>1. IInv => TypeOK
  BY TypesAreTypeOK DEF IInv
<1> QED
  BY <1>1, Invariance, PTL

\* For any number of handoffs, restores, connects and disconnects, whatever is
\* cancelled, refused, timed out or aborted: the player or the snapshot has the
\* owner's queue, and a guest's queue is never played under the owner.
THEOREM QueueKept == Spec => []OwnerKeepsQueue
<1>1. IInv => OwnerKeepsQueue
  BY DEF IInv, HostInv
<1> QED
  BY <1>1, Invariance, PTL

------------------------------------------------------------------------------
(* Who accounts for what is installed *)

\* Where a candidate's task works, and where a restore's.
Works == (CandidatePcs \ {"watch"}) \cup {"fail"}
Restores == RestorePcs \cup {"fail"}

\* No generation of the future is cancelled, pending, active or at work.
Numbered ==
    /\ \A g \in cancelled : g <= generation
    /\ active.generation <= generation /\ pending.generation <= generation
    /\ \A g \in Generations : g > generation => ~Live(g)

\* What is pending has a task that works on it and that nobody has cancelled; a
\* restore is pending only over the guest it is owed over, which is cancelled.
PendingWorks ==
    /\ pending.kind = "none" => pending = NotPending
    /\ pending.kind # "none" =>
          /\ pending.generation \in Generations \ cancelled
          /\ pending.generation # active.generation
    /\ pending.kind = "candidate" => task[pending.generation].pc \in Works
    /\ pending.kind = "restore" =>
          /\ task[pending.generation].pc \in Restores
          /\ task[pending.generation].over = pending.over
          /\ pending.over = active.generation /\ active.required
          /\ pending.over \in cancelled

\* While delegation is enabled: who is installed, and who will end it.
GuestInv ==
    lifecycle = "enabled" =>
        /\ \A g \in Generations : active.generation = g <=> authority = Guest(g)
        /\ active.generation # 0 /\ ~active.required =>
              task[active.generation].pc = "watch" /\ active.generation \notin cancelled
        /\ active.required => pending.kind # "none"

\* Every task at work is the pending one, the active guest's or a cancelled one.
TasksInv ==
    \A g \in Generations : Live(g) =>
        /\ g \in cancelled \/ (lifecycle = "enabled" /\ g \in {pending.generation, active.generation})
        /\ lifecycle = "disabled" => generation = MaxGeneration

\* How far the shutdown has come.
ShutdownInv ==
    /\ lifecycle = "shutting down" <=> stop.by = "coordinator" /\ stop.pc \notin {"idle", "over"}
    /\ stop.pc \in {"gate", "clear", "restore", "drop", "end"} /\ stop.by = "coordinator" =>
          \A g \in Generations : ~Live(g)

Account == Numbered /\ PendingWorks /\ GuestInv /\ TasksInv /\ ShutdownInv

LEMMA InitAccount == Init => Account
<1> SUFFICES ASSUME Init PROVE Account
  OBVIOUS
<1>1. /\ task = [g \in Generations |-> NoTask] /\ stop = NoStop /\ generation = 0
      /\ pending = NotPending /\ active = Owner /\ cancelled = {} /\ lifecycle = "disabled"
  BY DEF Init, DelegationInit
<1>2. \A g \in Generations : ~Live(g)
  BY <1>1 DEF Live, NoTask
<1>3. Numbered /\ PendingWorks
  BY <1>1, <1>2 DEF Numbered, PendingWorks, NotPending, Owner
<1>4. GuestInv /\ TasksInv /\ ShutdownInv
  BY <1>1, <1>2, NoStopFacts DEF GuestInv, TasksInv, ShutdownInv
<1> QED
  BY <1>3, <1>4 DEF Account

\* Steps that move no task and leave the coordinator and the authority alone.
LEMMA AccountFrame ==
  ASSUME Account, UNCHANGED <<coordinator, task, authority>>,
         stop'.pc = stop.pc /\ stop'.by = stop.by
  PROVE  Account'
<1>1. Numbered' /\ PendingWorks'
  BY DEF Account, Numbered, PendingWorks, Live, coordinator
<1>2. GuestInv' /\ TasksInv' /\ ShutdownInv'
  BY DEF Account, GuestInv, TasksInv, ShutdownInv, Live, coordinator
<1> QED
  BY <1>1, <1>2 DEF Account

\* A task may work on, fail, or end if what it works on is not its own any more.
LEMMA AccountMove ==
  ASSUME CoordOK, TaskOK, Account, NEW g \in Generations, NEW t,
         task' = [task EXCEPT ![g] = t], t.over = task[g].over,
         UNCHANGED <<coordinator, stop, authority>>,
         \/ task[g].pc \in CandidatePcs \ {"watch"} /\ t.pc \in Works
         \/ task[g].pc \in RestorePcs /\ t.pc \in Restores
         \/ /\ Live(g) /\ t.pc = "done"
            /\ g \in cancelled \/ pending.generation # g
            /\ g \in cancelled \/ lifecycle # "enabled" \/ active.generation # g \/ active.required
  PROVE  Account'
<1>0. UNCHANGED <<lifecycle, generation, pending, active, cancelled>>
  BY DEF coordinator
<1>1. /\ task'[g] = t /\ \A h \in Generations \ {g} : task'[h] = task[h]
      /\ Live(g)
  BY DEF TaskOK, Live, CandidatePcs, RestorePcs
<1>2. \A h \in Generations : Live(h)' => Live(h)
  BY <1>1 DEF Live
<1>3. Numbered'
  BY <1>0, <1>2 DEF Account, Numbered
<1>4. PendingWorks'
  <2>1. pending.kind = "candidate" => task'[pending.generation].pc \in Works
    BY <1>1 DEF Account, PendingWorks, Works, CandidatePcs, RestorePcs
  <2>2. pending.kind = "restore" =>
          /\ task'[pending.generation].pc \in Restores
          /\ task'[pending.generation].over = pending.over
    BY <1>1 DEF Account, PendingWorks, Restores, CandidatePcs, RestorePcs
  <2> QED
    BY <1>0, <2>1, <2>2 DEF Account, PendingWorks
<1>5. GuestInv'
  <2>1. ASSUME lifecycle = "enabled", active.generation # 0, ~active.required
        PROVE  task'[active.generation].pc = "watch" /\ active.generation \notin cancelled
    <3>1. active.generation \in Generations
      BY <2>1 DEF CoordOK, ActiveOK, Generations
    <3>2. task[active.generation].pc = "watch" /\ active.generation \notin cancelled
      BY <2>1 DEF Account, GuestInv
    <3>3. active.generation # g
      BY <2>1, <3>2 DEF CandidatePcs, RestorePcs
    <3> QED
      BY <1>1, <3>1, <3>2, <3>3
  <2> QED
    BY <1>0, <2>1 DEF Account, GuestInv
<1>6. TasksInv' /\ ShutdownInv'
  BY <1>0, <1>2 DEF Account, TasksInv, ShutdownInv
<1> QED
  BY <1>3, <1>4, <1>5, <1>6 DEF Account

LEMMA GotoKeepsOver ==
  ASSUME TaskOK, NEW g \in Generations, NEW pc, Goto(g, pc)
  PROVE  \E t : task' = [task EXCEPT ![g] = t] /\ t.pc = pc /\ t.over = task[g].over
<1>1. task[g] \in Tasks
  BY DEF TaskOK
<1>2. LET t == [task[g] EXCEPT !.pc = pc] IN t.pc = pc /\ t.over = task[g].over
  BY <1>1 DEF Tasks
<1>3. task' = [task EXCEPT ![g] = [task[g] EXCEPT !.pc = pc]]
  BY DEF Goto
<1> QED
  BY <1>2, <1>3

\* A restore that finds itself superseded has nothing pending left.
LEMMA Superseded ==
  ASSUME CoordOK, TaskOK, Account, PendingInv, NEW g \in Generations, task[g].pc \in RestorePcs,
         ~(lifecycle = "enabled" /\ RestorePending(g))
  PROVE  /\ pending.generation # g
         /\ lifecycle # "enabled" \/ active.generation # g \/ active.required
<1>1. ASSUME pending.generation = g PROVE FALSE
  <2>1. pending # NotPending /\ lifecycle = "enabled"
    BY <1>1 DEF NotPending, Generations, PendingInv
  <2>2. pending.kind = "restore"
    BY <1>1, <2>1 DEF Account, PendingWorks, Works, CandidatePcs, RestorePcs, CoordOK
  <2>3. task[g].over = pending.over /\ pending.over = active.generation
    BY <1>1, <2>2 DEF Account, PendingWorks
  <2>4. pending = [generation |-> g, kind |-> "restore", over |-> task[g].over]
    BY <1>1, <2>2, <2>3 DEF CoordOK
  <2> QED
    BY <2>1, <2>3, <2>4 DEF RestorePending
<1>2. ASSUME lifecycle = "enabled", active.generation = g, ~active.required PROVE FALSE
  <2>1. active.generation # 0
    BY <1>2 DEF Generations
  <2>2. task[active.generation].pc = "watch"
    BY <1>2, <2>1 DEF Account, GuestInv
  <2> QED
    BY <1>2, <2>2 DEF RestorePcs
<1> QED
  BY <1>1, <1>2

LEMMA AccountPure ==
  ASSUME IInv, Account, NEW g \in Generations, PureStep(g)
  PROVE  Account'
<1>0. CoordOK /\ TaskOK /\ HostOK /\ HostInv /\ TaskInv /\ PendingInv /\ task[g] \in Tasks
  BY DEF IInv, Types, TaskOK
<1>1. UNCHANGED <<coordinator, stop, authority>>
  BY <1>0, PureTask DEF host
<1> DEFINE Moved(from, to) == \E t : /\ task' = [task EXCEPT ![g] = t] /\ t.over = task[g].over
                                     /\ t.pc \in to /\ task[g].pc \in from
<1>2. Moved(CandidatePcs \ {"watch"}, Works) => Account'
  BY <1>0, <1>1, AccountMove
<1>3. Moved(RestorePcs, Restores) => Account'
  BY <1>0, <1>1, AccountMove
<1>4. CASE Prepare(g)
  <2> DEFINE t == [task[g] EXCEPT !.pc = IF authority = NoStamp THEN "fail" ELSE "preparing",
                                  !.expected = authority]
  <2>1. task' = [task EXCEPT ![g] = t] /\ t.over = task[g].over
    BY <1>0, <1>4 DEF Prepare, TaskOK, Tasks
  <2>2. t.pc \in Works /\ task[g].pc \in CandidatePcs \ {"watch"}
    BY <1>0, <1>4 DEF Prepare, Tasks, Works, CandidatePcs
  <2> QED
    BY <1>2, <2>1, <2>2
<1>5. CASE Capture(g)
  <2> DEFINE t == [task[g] EXCEPT !.pc = "join",
                                  !.captured = IF authority.by = "guest" THEN "none" ELSE queue]
  <2>1. task' = [task EXCEPT ![g] = t] /\ t.over = task[g].over
    BY <1>0, <1>5 DEF Capture, TaskOK, Tasks
  <2>2. t.pc \in Works /\ task[g].pc \in CandidatePcs \ {"watch"}
    BY <1>0, <1>5 DEF Capture, Tasks, Works, CandidatePcs
  <2> QED
    BY <1>2, <2>1, <2>2
<1>6. CASE ReadGuest(g)
  <2> DEFINE t == [task[g] EXCEPT !.pc = IF authority.by = "guest" THEN "reconnect" ELSE "failed",
                                  !.expected = authority]
  <2>1. task' = [task EXCEPT ![g] = t] /\ t.over = task[g].over
    BY <1>0, <1>6 DEF ReadGuest, TaskOK, Tasks
  <2>2. t.pc \in Restores /\ task[g].pc \in RestorePcs
    BY <1>0, <1>6 DEF ReadGuest, Tasks, Restores, RestorePcs
  <2> QED
    BY <1>3, <2>1, <2>2
<1>7. CASE Prepared(g) \/ PrepareStops(g) \/ Validate(g) \/ StartActivation(g) \/ Joined(g)
           \/ ActivationStops(g) \/ CommitRefused(g)
  <2>1. PICK pc \in Works : Goto(g, pc) /\ task[g].pc \in CandidatePcs \ {"watch"}
    BY <1>7 DEF Prepared, PrepareStops, Validate, StartActivation, Joined, ActivationStops,
                CommitRefused, Works, CandidatePcs
  <2>2. Moved(CandidatePcs \ {"watch"}, Works)
    BY <1>0, <2>1, GotoKeepsOver
  <2> QED
    BY <1>2, <2>2
<1>8. ASSUME NEW pc \in Restores, Goto(g, pc), task[g].pc \in RestorePcs
      PROVE  Account'
  <2>1. Moved(RestorePcs, Restores)
    BY <1>0, <1>8, GotoKeepsOver
  <2> QED
    BY <1>3, <2>1
<1>9. ASSUME Goto(g, "done"), task[g].pc \in RestorePcs,
             g \in cancelled \/ ~(lifecycle = "enabled" /\ RestorePending(g))
      PROVE  Account'
  <2>1. PICK t : task' = [task EXCEPT ![g] = t] /\ t.pc = "done" /\ t.over = task[g].over
    BY <1>0, <1>9, GotoKeepsOver
  <2>2. Live(g)
    BY <1>9 DEF Live, RestorePcs
  <2>3. /\ g \in cancelled \/ pending.generation # g
        /\ g \in cancelled \/ lifecycle # "enabled" \/ active.generation # g \/ active.required
    BY <1>0, <1>9, Superseded
  <2> QED
    BY <1>0, <1>1, <2>1, <2>2, <2>3, AccountMove
<1>10. CASE Reconnect(g) \/ RestoreStumbles(g)
  <2>1. PICK pc \in Restores : Goto(g, pc) /\ task[g].pc \in RestorePcs
    BY <1>10 DEF Reconnect, RestoreStumbles, Restores, RestorePcs
  <2> QED
    BY <1>8, <2>1
<1>11. CASE RestoreStops(g)
  <2>1. "fail" \in Restores
    BY DEF Restores
  <2>2. /\ task[g].pc \in RestorePcs
        /\ Goto(g, "fail") \/ (Goto(g, "done") /\ g \in cancelled)
    BY <1>11 DEF RestoreStops, RestorePcs
  <2> QED
    BY <1>8, <1>9, <2>1, <2>2
<1>12. CASE RecordFailure(g) \/ Retry(g)
  <2>1. "backoff" \in Restores /\ "restore" \in Restores
    BY DEF Restores, RestorePcs
  <2>2. /\ task[g].pc \in RestorePcs
        /\ \/ Goto(g, "backoff") \/ Goto(g, "restore")
           \/ Goto(g, "done") /\ ~(lifecycle = "enabled" /\ RestorePending(g))
    BY <1>12 DEF RecordFailure, Retry, RestorePcs
  <2> QED
    BY <1>8, <1>9, <2>1, <2>2
<1> QED
  BY <1>4, <1>5, <1>6, <1>7, <1>10, <1>11, <1>12, Zenon DEF PureStep

LEMMA AccountLane ==
  ASSUME IInv, Account, NEW g \in Generations, LaneStep(g)
  PROVE  Account'
<1>0. CoordOK /\ TaskOK /\ HostOK /\ TaskInv /\ task[g] \in Tasks
  BY DEF IInv, Types, TaskOK
<1>1. UNCHANGED <<coordinator, stop, authority>>
  BY <1>0, LaneTask
<1>2. CASE TakeLane(g) \/ Discard(g)
  <2>1. PICK pc \in Works : Goto(g, pc) /\ task[g].pc \in CandidatePcs \ {"watch"}
    BY <1>2 DEF TakeLane, Discard, Works, CandidatePcs
  <2>2. PICK t : task' = [task EXCEPT ![g] = t] /\ t.pc = pc /\ t.over = task[g].over
    BY <1>0, <2>1, GotoKeepsOver
  <2> QED
    BY <1>0, <1>1, <2>1, <2>2, AccountMove
<1>3. CASE TakeLaneBack(g) \/ DiscardOwner(g)
  <2>1. PICK pc : /\ Goto(g, pc) /\ task[g].pc \in RestorePcs
                  /\ pc \in Restores \/ (pc = "done" /\ g \in cancelled)
    BY <1>3 DEF TakeLaneBack, DiscardOwner, Restores, RestorePcs
  <2>2. PICK t : task' = [task EXCEPT ![g] = t] /\ t.pc = pc /\ t.over = task[g].over
    BY <1>0, <2>1, GotoKeepsOver
  <2>3. Live(g)
    BY <2>1 DEF Live, RestorePcs
  <2> QED
    BY <1>0, <1>1, <2>1, <2>2, <2>3, AccountMove
<1> QED
  BY <1>2, <1>3 DEF LaneStep

LEMMA Counted ==
  ASSUME CoordOK
  PROVE  /\ generation \in 0..MaxGeneration /\ 0 <= generation
         /\ NotPending.generation = 0 /\ Owner.generation = 0
<1>1. generation \in 0..MaxGeneration
  BY DEF CoordOK
<1>2. 0 <= generation
  BY <1>1
<1> QED
  BY <1>1, <1>2 DEF NotPending, Owner

\* What is cancelled when a transaction is replaced.
LEMMA ReplacedFacts ==
  ASSUME CoordOK, Account
  PROVE  /\ \A g \in Replaced \cup Delegated : g <= generation
         /\ pending = NotPending => Replaced = {}
         /\ active.generation \notin Replaced
         /\ \A g \in Generations : /\ g = pending.generation => g \in Replaced
                                   /\ g = active.generation => g \in Delegated
<1>1. pending.generation \in 0..MaxGeneration /\ active.generation \in 0..MaxGeneration
  BY DEF CoordOK, ActiveOK
<1>2. pending.kind = "none" => pending.generation = 0
  BY DEF Account, PendingWorks, NotPending
<1>3. active.generation \notin Replaced
  BY <1>1, <1>2 DEF Account, PendingWorks, Replaced, CoordOK
<1> QED
  BY <1>1, <1>3 DEF Account, Numbered, Replaced, Delegated, Generations, NotPending

LEMMA EndedFacts ==
  ASSUME TaskOK, NEW ends
  PROVE  \A h \in Generations :
            /\ h \in ends => Ended(ends)[h].pc = "done"
            /\ h \notin ends => Ended(ends)[h] = task[h]
            /\ Ended(ends)[h].pc \notin {"idle", "done"} => h \notin ends /\ Live(h)
<1> SUFFICES ASSUME NEW h \in Generations
             PROVE  /\ h \in ends => Ended(ends)[h].pc = "done"
                    /\ h \notin ends => Ended(ends)[h] = task[h]
                    /\ Ended(ends)[h].pc \notin {"idle", "done"} => h \notin ends /\ Live(h)
  OBVIOUS
<1>1. task[h] \in Tasks
  BY DEF TaskOK
<1>2. h \in ends => Ended(ends)[h] = [task[h] EXCEPT !.pc = "done"]
  BY DEF Ended
<1>3. h \notin ends => Ended(ends)[h] = task[h]
  BY DEF Ended
<1>4. h \in ends => Ended(ends)[h].pc = "done"
  BY <1>1, <1>2 DEF Tasks
<1> QED
  BY <1>3, <1>4 DEF Live

\* Exhaustion cancels whatever is at work.
LEMMA AccountExhaust ==
  ASSUME CoordOK, TaskOK, Account, NEW guest \in SUBSET Generations, NEW ends,
         generation = MaxGeneration, Exhaust(guest), stop' = stop, lifecycle = "enabled",
         task' = Ended(ends) \/ task' = task, active'.generation \in {active.generation} \cup guest
  PROVE  Account'
<1>1. /\ lifecycle' = "disabled" /\ pending' = NotPending /\ generation' = generation
      /\ cancelled' = cancelled \cup Replaced \cup Delegated \cup guest
  BY DEF Exhaust
<1>2. \A h \in Generations : Live(h)' => Live(h)
  BY EndedFacts DEF Live
<1>3. \A h \in guest : h <= generation
  BY DEF Generations
<1>4. Numbered'
  BY <1>1, <1>2, <1>3, ReplacedFacts DEF Account, Numbered, NotPending, CoordOK
<1>5. PendingWorks' /\ GuestInv'
  BY <1>1 DEF PendingWorks, GuestInv, NotPending
<1>6. TasksInv'
  BY <1>1, <1>2, ReplacedFacts DEF Account, TasksInv
<1>7. ShutdownInv'
  BY <1>1 DEF Account, ShutdownInv
<1> QED
  BY <1>4, <1>5, <1>6, <1>7 DEF Account

\* A new transaction, with a task of its own, takes the place of the pending
\* one.  The guest stays, or guest g has just been installed.
LEMMA AccountNew ==
  ASSUME CoordOK, TaskOK, Account, NEW ends, NEW new, NEW more \in SUBSET Generations,
         NEW kind \in {"candidate", "restore"}, NEW over,
         generation # MaxGeneration, generation' = generation + 1,
         pending' = [generation |-> generation + 1, kind |-> kind, over |-> over],
         cancelled' = cancelled \cup Replaced \cup more, more \subseteq 0..generation,
         task' = [Ended(ends) EXCEPT ![generation + 1] = new],
         lifecycle = "enabled", lifecycle' = lifecycle, stop' = stop,
         active'.generation \in 0..generation,
         \A g \in Generations : active'.generation = g <=> authority' = Guest(g),
         \/ kind = "candidate" /\ new.pc = "prepare" /\ active' = active /\ more = {} /\ ends = {}
         \/ /\ kind = "restore" /\ new.pc = "restore" /\ new.over = over
            /\ over = active'.generation /\ active'.required /\ over \in more
            /\ active.generation \in Generations => active.generation \in more
  PROVE  Account'
<1>0. generation \in 0..MaxGeneration /\ generation + 1 \in Generations
      /\ 0 \notin Generations
  BY NextGeneration DEF CoordOK, Generations
<1>1. /\ task'[generation + 1] = new
      /\ \A h \in Generations \ {generation + 1} : task'[h] = Ended(ends)[h]
  BY <1>0, EndedTyped
<1>2. /\ pending'.generation = generation + 1 /\ pending'.kind = kind /\ pending'.over = over
  OBVIOUS
<1>3. \A h \in Generations \ {generation + 1} : Live(h)' => Live(h) /\ h \notin ends
  BY <1>1, EndedFacts DEF Live
<1>4. \A h \in cancelled' : h <= generation
  <2>1. \A h \in cancelled : h <= generation
    BY DEF Account, Numbered
  <2>2. \A h \in Replaced : h <= generation
    BY ReplacedFacts
  <2>3. \A h \in more : h <= generation
    BY <1>0
  <2> QED
    BY <2>1, <2>2, <2>3
<1>5. Numbered'
  <2>1. ASSUME NEW h \in Generations, h > generation + 1 PROVE ~Live(h)'
    BY <1>0, <1>3, <2>1 DEF Account, Numbered, Generations
  <2>2. \A h \in cancelled' : h <= generation + 1
    <3>1. cancelled' \subseteq Generations
      BY ReplacedTyped DEF CoordOK
    <3> QED
      BY <1>0, <1>4, <3>1 DEF Generations
  <2>3. active'.generation <= generation + 1
    BY <1>0
  <2> QED
    BY <1>0, <1>2, <2>1, <2>2, <2>3 DEF Numbered
<1>6. PendingWorks'
  <2>1. generation + 1 \notin cancelled' /\ generation + 1 # active'.generation
    BY <1>0, <1>4
  <2>2. kind = "candidate" => new.pc \in Works
    BY DEF Works, CandidatePcs
  <2>3. kind = "restore" => new.pc \in Restores /\ over \in cancelled'
    BY DEF Restores, RestorePcs
  <2> QED
    BY <1>0, <1>1, <1>2, <2>1, <2>2, <2>3 DEF PendingWorks
<1>7. GuestInv'
  <2>1. ASSUME active'.generation # 0, ~active'.required
        PROVE  task'[active'.generation].pc = "watch" /\ active'.generation \notin cancelled'
    <3>1. kind = "candidate" /\ active' = active /\ more = {} /\ ends = {}
      BY <2>1
    <3>2. task[active.generation].pc = "watch" /\ active.generation \notin cancelled
      BY <2>1, <3>1 DEF Account, GuestInv
    <3>3. active.generation \in Generations \ {generation + 1}
      BY <1>0, <2>1, <3>1 DEF Generations
    <3>4. task'[active.generation] = task[active.generation]
      BY <1>1, <3>1, <3>3, EndedFacts
    <3>5. active.generation \notin cancelled'
      BY <3>1, <3>2, ReplacedFacts
    <3> QED
      BY <3>1, <3>2, <3>4, <3>5
  <2> QED
    BY <1>2, <2>1 DEF GuestInv
<1>8. TasksInv'
  <2>1. ASSUME NEW h \in Generations, Live(h)', h # generation + 1
        PROVE  h \in cancelled' \/ h = active'.generation
    <3>1. h \in cancelled \/ h = pending.generation \/ h = active.generation
      BY <1>3, <2>1 DEF Account, TasksInv
    <3>2. h = pending.generation => h \in cancelled'
      BY ReplacedFacts
    <3> QED
      BY <3>1, <3>2
  <2> QED
    BY <1>2, <2>1 DEF TasksInv
<1>9. ShutdownInv'
  <2>1. ~(stop.pc \in {"gate", "clear", "restore", "drop", "end"} /\ stop.by = "coordinator")
    BY DEF Account, ShutdownInv
  <2> QED
    BY <2>1 DEF Account, ShutdownInv
<1> QED
  BY <1>5, <1>6, <1>7, <1>8, <1>9 DEF Account

\* A restore becomes pending over the guest that is, or has just been, installed.
LEMMA AccountPendRestore ==
  ASSUME CoordOK, TaskOK, Account, NEW g \in Generations, NEW ends, PendRestore(g, ends),
         lifecycle = "enabled", stop' = stop, g <= generation,
         active'.generation = g, active'.required,
         \A h \in Generations : active'.generation = h <=> authority' = Guest(h)
  PROVE  Account'
<1>1. CASE generation = MaxGeneration
  <2>1. Exhaust({g}) /\ task' = Ended(ends)
    BY <1>1 DEF PendRestore
  <2> QED
    BY <1>1, <2>1, AccountExhaust
<1>2. CASE generation # MaxGeneration
  <2> DEFINE new == [NoTask EXCEPT !.pc = "restore", !.over = g]
             more == Delegated \cup {g}
  <2>1. /\ generation' = generation + 1
        /\ pending' = [generation |-> generation + 1, kind |-> "restore", over |-> g]
        /\ cancelled' = cancelled \cup Replaced \cup more
        /\ task' = [Ended(ends) EXCEPT ![generation + 1] = new]
        /\ lifecycle' = lifecycle
    BY <1>2 DEF PendRestore
  <2>2. new.pc = "restore" /\ new.over = g
    BY DEF NoTask
  <2>3. more \in SUBSET Generations /\ more \subseteq 0..generation
    BY ReplacedTyped, ReplacedFacts DEF Generations, CoordOK
  <2>4. active.generation \in Generations => active.generation \in more
    BY ReplacedFacts
  <2>5. active'.generation \in 0..generation
    BY DEF Generations, CoordOK
  <2> HIDE DEF new, more
  <2>6. g \in more
    BY DEF more
  <2> QED
    BY <1>2, <2>1, <2>2, <2>3, <2>4, <2>5, <2>6, AccountNew
<1> QED
  BY <1>1, <1>2

LEMMA AccountAdmit ==
  ASSUME CoordOK, TaskOK, Account, Admit, UNCHANGED <<stop, authority>>
  PROVE  Account'
<1>0. lifecycle = "enabled" /\ active' = active
  BY DEF Admit
<1>1. CASE generation = MaxGeneration
  <2>1. Exhaust({}) /\ task' = task
    BY <1>1 DEF Admit
  <2> QED
    BY <1>0, <1>1, <2>1, AccountExhaust
<1>2. CASE generation # MaxGeneration
  <2> DEFINE new == [NoTask EXCEPT !.pc = "prepare"]
  <2>1. /\ generation' = generation + 1
        /\ pending' = [generation |-> generation + 1, kind |-> "candidate", over |-> 0]
        /\ cancelled' = cancelled \cup Replaced \cup {}
        /\ task' = [task EXCEPT ![generation + 1] = new]
        /\ lifecycle' = lifecycle
    BY <1>2 DEF Admit
  <2>2. new.pc = "prepare"
    BY DEF NoTask
  <2>3. task = Ended({})
    BY DEF Ended, TaskOK
  <2>4. active'.generation \in 0..generation
    BY <1>0 DEF Account, Numbered, CoordOK, ActiveOK
  <2>5. \A g \in Generations : active'.generation = g <=> authority' = Guest(g)
    BY <1>0 DEF Account, GuestInv
  <2> HIDE DEF new
  <2>6. task' = [Ended({}) EXCEPT ![generation + 1] = new]
    BY <2>1, <2>3
  <2>7. {} \in SUBSET Generations /\ {} \subseteq 0..generation
    OBVIOUS
  <2>8. \E ends \in {{}}, more \in SUBSET Generations :
           /\ ends = {} /\ more = {} /\ more \subseteq 0..generation
           /\ cancelled' = cancelled \cup Replaced \cup more
           /\ task' = [Ended(ends) EXCEPT ![generation + 1] = new]
    BY <2>1, <2>6, <2>7
  <2> QED
    BY <1>0, <1>2, <2>1, <2>2, <2>4, <2>5, <2>8, AccountNew
<1> QED
  BY <1>1, <1>2

\* The restore is owed from now on, and somebody works on it or comes before it.
LEMMA AccountStartRestore ==
  ASSUME CoordOK, TaskOK, Account, NEW g \in Generations, NEW ends, StartRestore(g, ends),
         ends \subseteq {g}, UNCHANGED <<stop, authority>>
  PROVE  Account'
<1>0. /\ lifecycle = "enabled" /\ active.generation = g
      /\ active'.generation = g /\ active'.required
  BY DEF StartRestore, CoordOK, ActiveOK
<1>1. \A h \in Generations : active'.generation = h <=> authority' = Guest(h)
  BY <1>0 DEF Account, GuestInv
<1>2. g <= generation
  BY <1>0 DEF Account, Numbered
<1>3. CASE PendRestore(g, ends)
  BY <1>0, <1>1, <1>2, <1>3, AccountPendRestore
<1>4. CASE /\ pending.kind = "candidate" \/ pending.over = g
           /\ task' = Ended(ends) /\ UNCHANGED <<lifecycle, generation, pending, cancelled>>
  <2>1. pending.kind # "none"
    BY <1>4 DEF Account, PendingWorks, NotPending, Generations
  <2>2. pending.generation \in Generations /\ pending.generation # g
    BY <1>0, <2>1 DEF Account, PendingWorks
  <2>3. task'[pending.generation] = task[pending.generation]
    BY <1>4, <2>2, EndedFacts
  <2>4. \A h \in Generations : Live(h)' => Live(h)
    BY <1>4, EndedFacts DEF Live
  <2>5. Numbered'
    BY <1>0, <1>4, <2>4 DEF Account, Numbered
  <2>6. PendingWorks'
    BY <1>0, <1>4, <2>1, <2>3 DEF Account, PendingWorks
  <2>7. GuestInv'
    BY <1>0, <1>1, <1>4, <2>1 DEF GuestInv
  <2>8. TasksInv' /\ ShutdownInv'
    BY <1>0, <1>4, <2>4 DEF Account, TasksInv, ShutdownInv
  <2> QED
    BY <2>5, <2>6, <2>7, <2>8 DEF Account
<1> QED
  BY <1>3, <1>4 DEF StartRestore

\* A candidate that has failed makes room for the restore that waits for it.
LEMMA AccountFail ==
  ASSUME IInv, Account, NEW g \in Generations, Fail(g)
  PROVE  Account'
<1>0. CoordOK /\ TaskOK
  BY DEF IInv, Types
<1>1. FailPending(g) /\ task[g].pc = "fail" /\ UNCHANGED <<active, stop, authority>>
  BY DEF Fail, host
<1>2. CASE pending.generation = g /\ lifecycle = "enabled" /\ active.required
  <2>1. PendRestore(active.generation, {g})
    BY <1>1, <1>2 DEF FailPending
  <2>2. active.generation \in Generations /\ active.generation <= generation
    BY <1>0, <1>2 DEF CoordOK, ActiveOK, Account, Numbered
  <2>3. \A h \in Generations : active'.generation = h <=> authority' = Guest(h)
    BY <1>1, <1>2 DEF Account, GuestInv
  <2> QED
    BY <1>0, <1>1, <1>2, <2>1, <2>2, <2>3, AccountPendRestore
<1>3. CASE /\ ~(pending.generation = g /\ lifecycle = "enabled" /\ active.required)
           /\ task' = Ended({g}) /\ UNCHANGED <<lifecycle, generation, cancelled>>
           /\ pending' = IF pending.generation = g THEN NotPending ELSE pending
  <2>1. \A h \in Generations : Live(h)' => Live(h) /\ h # g
    BY <1>0, <1>3, EndedFacts DEF Live
  <2>2. \A h \in Generations \ {g} : task'[h] = task[h]
    BY <1>0, <1>3, EndedFacts
  <2>3. pending'.generation <= generation
    <3>1. NotPending.generation = 0 /\ 0 <= generation
      BY <1>0, Counted
    <3> QED
      BY <1>3, <3>1 DEF Account, Numbered
  <2>4. Numbered'
    BY <1>1, <1>3, <2>1, <2>3 DEF Account, Numbered
  <2>5. PendingWorks'
    <3>1. CASE pending.generation = g
      BY <1>3, <3>1 DEF PendingWorks, NotPending
    <3>2. CASE pending.generation # g
      BY <1>1, <1>3, <2>2, <3>2 DEF Account, PendingWorks
    <3> QED
      BY <3>1, <3>2
  <2>6. GuestInv'
    <3>1. ASSUME lifecycle = "enabled", active.generation # 0, ~active.required
          PROVE  task'[active.generation].pc = "watch" /\ active.generation \notin cancelled
      <4>1. active.generation \in Generations
        BY <1>0, <3>1 DEF CoordOK, ActiveOK, Generations
      <4>2. task[active.generation].pc = "watch" /\ active.generation \notin cancelled
        BY <3>1 DEF Account, GuestInv
      <4> QED
        BY <1>1, <2>2, <4>1, <4>2
    <3>2. lifecycle = "enabled" /\ active.required => pending'.kind # "none"
      BY <1>3 DEF Account, GuestInv
    <3> QED
      BY <1>1, <1>3, <3>1, <3>2 DEF Account, GuestInv
  <2>7. TasksInv' /\ ShutdownInv'
    BY <1>1, <1>3, <2>1 DEF Account, TasksInv, ShutdownInv
  <2> QED
    BY <2>4, <2>5, <2>6, <2>7 DEF Account
<1> QED
  BY <1>1, <1>2, <1>3 DEF FailPending

LEMMA AccountMonitor ==
  ASSUME IInv, Account, NEW g \in Generations, MonitorEnds(g)
  PROVE  Account'
<1>0. CoordOK /\ TaskOK /\ PendingInv
  BY DEF IInv, Types
<1>1. UNCHANGED <<stop, authority>> /\ task[g].pc = "watch"
  BY DEF MonitorEnds, host
<1>2. CASE StartRestore(g, {g})
  BY <1>0, <1>1, <1>2, AccountStartRestore
<1>3. CASE /\ g \in cancelled \/ lifecycle # "enabled" \/ active.generation # g
           /\ Goto(g, "done") /\ UNCHANGED coordinator
  <2>1. PICK t : task' = [task EXCEPT ![g] = t] /\ t.pc = "done" /\ t.over = task[g].over
    BY <1>0, <1>3, GotoKeepsOver
  <2>2. pending.generation # g
    <3>1. NotPending.generation # g
      BY DEF NotPending, Generations
    <3>2. pending.kind \in {"none", "candidate", "restore"}
      BY <1>0 DEF CoordOK
    <3>3. "watch" \notin Works /\ "watch" \notin Restores
      BY DEF Works, Restores, RestorePcs
    <3> QED
      BY <1>1, <3>1, <3>2, <3>3 DEF Account, PendingWorks
  <2>3. Live(g)
    BY <1>1 DEF Live
  <2> QED
    BY <1>0, <1>1, <1>3, <2>1, <2>2, <2>3, AccountMove
<1> QED
  BY <1>2, <1>3 DEF MonitorEnds

LEMMA AccountGuestFails ==
  ASSUME IInv, Account, GuestFails
  PROVE  Account'
<1>1. authority.id \in Generations
  <2>1. authority \in Stamps /\ authority.by = "guest"
    BY DEF GuestFails, IInv, Types, HostOK
  <2>2. PICK g \in Generations : authority = Guest(g)
    BY <2>1 DEF Stamps, NoStamp, Connected, Restored, Guest, Stamp
  <2> QED
    BY <2>2 DEF Guest, Stamp
<1> QED
  BY <1>1, AccountStartRestore DEF GuestFails, IInv, Types, host

\* The commit puts the coordinator and the host on the same guest at once.
LEMMA AccountCommit ==
  ASSUME IInv, Account, NEW g \in Generations, Commit(g)
  PROVE  Account'
<1>0. CoordOK /\ TaskOK
  BY DEF IInv, Types
<1>1. /\ lifecycle = "enabled" /\ pending.generation = g /\ pending.kind = "candidate"
      /\ g \notin cancelled /\ authority' = Guest(g) /\ stop' = stop
  BY DEF Commit, MayCommit, IsPending, InstallGuest
<1>2. PICK late \in BOOLEAN :
          /\ active' = [generation |-> g, required |-> late]
          /\ IF late THEN PendRestore(g, {g})
             ELSE /\ pending' = NotPending
                  /\ cancelled' = cancelled \cup Delegated
                  /\ Goto(g, "watch")
                  /\ UNCHANGED <<lifecycle, generation>>
  BY DEF Commit
<1>3. g <= generation /\ g # active.generation /\ g # 0
  BY <1>0, <1>1 DEF Account, Numbered, PendingWorks, Generations
<1>4. \A h \in Generations : active'.generation = h <=> authority' = Guest(h)
  BY <1>1, <1>2 DEF Guest, Stamp
<1>5. CASE late
  BY <1>0, <1>1, <1>2, <1>3, <1>4, <1>5, AccountPendRestore
<1>6. CASE ~late
  <2>0. /\ pending' = NotPending /\ cancelled' = cancelled \cup Delegated
        /\ Goto(g, "watch") /\ UNCHANGED <<lifecycle, generation>>
        /\ active'.generation = g /\ ~active'.required
    BY <1>2, <1>6
  <2>1. PICK t : task' = [task EXCEPT ![g] = t] /\ t.pc = "watch" /\ t.over = task[g].over
    BY <1>0, <2>0, GotoKeepsOver
  <2>2. task'[g] = t /\ \A h \in Generations \ {g} : task'[h] = task[h]
    BY <1>0, <2>1 DEF TaskOK
  <2>3. Live(g) /\ \A h \in Generations : Live(h)' => Live(h)
    <3>1. Live(g)
      BY DEF Commit, Live
    <3> QED
      BY <2>2, <3>1 DEF Live
  <2>4. Numbered'
    <3>1. NotPending.generation = 0 /\ 0 <= generation
      BY <1>0, Counted
    <3>2. \A h \in Delegated : h <= generation
      BY <1>0, ReplacedFacts
    <3> QED
      BY <1>3, <2>0, <2>3, <3>1, <3>2 DEF Account, Numbered
  <2>5. PendingWorks'
    BY <2>0 DEF PendingWorks, NotPending
  <2>6. g \notin cancelled'
    BY <1>1, <1>3, <2>0 DEF Delegated
  <2>7. GuestInv'
    BY <1>4, <2>0, <2>1, <2>2, <2>6 DEF GuestInv
  <2>8. TasksInv'
    <3>1. ASSUME NEW h \in Generations, Live(h)' PROVE h \in cancelled' \/ h = g
      <4>1. h \in cancelled \/ h = g \/ h = active.generation
        BY <1>1, <2>3, <3>1 DEF Account, TasksInv
      <4>2. h = active.generation => h \in Delegated
        BY <1>0, ReplacedFacts
      <4> QED
        BY <2>0, <4>1, <4>2
    <3> QED
      BY <1>1, <2>0, <3>1 DEF TasksInv
  <2>9. ShutdownInv'
    BY <1>1, <2>0, <2>3 DEF Account, ShutdownInv
  <2> QED
    BY <2>4, <2>5, <2>7, <2>8, <2>9 DEF Account
<1> QED
  BY <1>5, <1>6

LEMMA AccountCommitOwner ==
  ASSUME IInv, Account, NEW g \in Generations, CommitOwner(g)
  PROVE  Account'
<1>0. CoordOK /\ TaskOK /\ stop' = stop /\ task[g].pc = "recommit"
  BY DEF IInv, Types, CommitOwner
<1>1. CASE Goto(g, "discard owner") /\ UNCHANGED <<coordinator, authority>>
  <2>1. PICK t : task' = [task EXCEPT ![g] = t] /\ t.pc = "discard owner" /\ t.over = task[g].over
    BY <1>0, <1>1, GotoKeepsOver
  <2>2. task[g].pc \in RestorePcs /\ t.pc \in Restores
    BY <1>0, <2>1 DEF RestorePcs, Restores
  <2> QED
    BY <1>0, <1>1, <2>1, <2>2, AccountMove
<1>2. CASE /\ lifecycle = "enabled" /\ RestorePending(g) /\ authority' = Restored(g)
           /\ pending' = NotPending /\ active' = Owner /\ Goto(g, "done")
           /\ UNCHANGED <<lifecycle, generation, cancelled>>
  <2>1. PICK t : task' = [task EXCEPT ![g] = t] /\ t.pc = "done" /\ t.over = task[g].over
    BY <1>0, <1>2, GotoKeepsOver
  <2>2. task'[g] = t /\ \A h \in Generations \ {g} : task'[h] = task[h]
    BY <1>0, <2>1 DEF TaskOK
  <2>3. ~Live(g)' /\ \A h \in Generations : Live(h)' => Live(h)
    BY <2>1, <2>2 DEF Live
  <2>4. pending.generation = g /\ pending.kind = "restore" /\ pending.over = active.generation
        /\ active.generation \in cancelled
    BY <1>2 DEF RestorePending, Account, PendingWorks
  <2>5. Numbered'
    BY <1>0, <1>2, <2>3 DEF Account, Numbered, NotPending, Owner, CoordOK
  <2>6. PendingWorks'
    BY <1>2 DEF PendingWorks, NotPending
  <2>7. GuestInv'
    <3>1. \A h \in Generations : h # 0 /\ Guest(h) # Restored(g)
      BY DEF Guest, Restored, Stamp, Generations
    <3> QED
      BY <1>2, <3>1 DEF GuestInv, Owner
  <2>8. TasksInv'
    BY <1>2, <2>3, <2>4 DEF Account, TasksInv
  <2>9. ShutdownInv'
    BY <1>0, <1>2, <2>3 DEF Account, ShutdownInv
  <2> QED
    BY <2>5, <2>6, <2>7, <2>8, <2>9 DEF Account
<1> QED
  BY <1>1, <1>2, Zenon DEF CommitOwner, host

------------------------------------------------------------------------------
(* The shutdown and the service account for it too *)

LEMMA StopMoved ==
  ASSUME StopOK, NEW pc, \/ stop' = [stop EXCEPT !.pc = pc]
                         \/ stop' = [stop EXCEPT !.pc = pc, !.late = TRUE]
  PROVE  stop'.pc = pc /\ stop'.by = stop.by
BY DEF StopOK

\* Steps of a shutdown that leave the coordinator alone: nobody is at work
\* once the tasks have been joined or aborted.
LEMMA AccountStopping ==
  ASSUME IInv, Account, stop.pc # "idle", UNCHANGED coordinator,
         \A g \in Generations : Live(g)' => Live(g),
         stop'.by = stop.by,
         stop'.pc \in {"gate", "clear", "restore", "drop", "end"},
         \/ stop.pc \in {"gate", "clear", "restore", "drop"}
         \/ stop.pc = "join" /\ \A g \in Generations : ~Live(g)'
  PROVE  Account'
<1>0. UNCHANGED <<lifecycle, generation, pending, active, cancelled>>
  BY DEF coordinator
<1>1. lifecycle # "enabled" /\ pending = NotPending
  BY DEF IInv, StopInv, PendingInv
<1>2. Numbered'
  BY <1>0 DEF Account, Numbered
<1>3. PendingWorks' /\ GuestInv'
  BY <1>0, <1>1 DEF PendingWorks, GuestInv, NotPending
<1>4. TasksInv'
  BY <1>0 DEF Account, TasksInv
<1>5. ShutdownInv'
  BY <1>0 DEF Account, ShutdownInv
<1> QED
  BY <1>2, <1>3, <1>4, <1>5 DEF Account

LEMMA AccountShutdown ==
  ASSUME IInv, Account, Shutdown
  PROVE  Account'
<1>0. CoordOK /\ TaskOK /\ StopOK
  BY DEF IInv, Types
<1>1. CASE JoinTasks
  <2>1. /\ stop.pc = "join" /\ UNCHANGED <<coordinator, task>> /\ \A g \in Generations : ~Live(g)
        /\ stop' = [stop EXCEPT !.pc = "gate"]
    BY <1>1 DEF JoinTasks
  <2>2. \A g \in Generations : ~Live(g)'
    BY <2>1 DEF Live
  <2> QED
    BY <1>0, <2>1, <2>2, StopMoved, AccountStopping
<1>2. CASE AbortTasks
  <2>1. /\ stop.pc = "join" /\ UNCHANGED coordinator
        /\ task' = Ended({g \in Generations : Live(g)})
        /\ stop' = [stop EXCEPT !.pc = "gate"]
    BY <1>2 DEF AbortTasks
  <2>2. \A g \in Generations : ~Live(g)'
    BY <1>0, <2>1, EndedFacts DEF Live
  <2> QED
    BY <1>0, <2>1, <2>2, StopMoved, AccountStopping
<1>3. CASE ShutdownTakesLane \/ ClearAuthority \/ RestoreSnapshot \/ DropSnapshot \/ ShutdownTimesOut
  <2>1. /\ stop.pc \in {"gate", "clear", "restore", "drop"} /\ UNCHANGED <<coordinator, task>>
        /\ \E pc \in {"clear", "restore", "drop", "end"} :
              \/ stop' = [stop EXCEPT !.pc = pc]
              \/ stop' = [stop EXCEPT !.pc = pc, !.late = TRUE]
    BY <1>3 DEF ShutdownTakesLane, ClearAuthority, RestoreSnapshot, DropSnapshot, ShutdownTimesOut
  <2>2. \A g \in Generations : Live(g)' => Live(g)
    BY <2>1 DEF Live
  <2>3. stop'.by = stop.by /\ stop'.pc \in {"clear", "restore", "drop", "end"}
    BY <1>0, <2>1, StopMoved
  <2> QED
    BY <2>1, <2>2, <2>3, AccountStopping
<1>4. CASE EndShutdown
  <2>1. stop.pc = "end" /\ stop' = [stop EXCEPT !.pc = "over"] /\ task' = task /\ authority' = authority
    BY <1>4 DEF EndShutdown, host
  <2>2. stop'.pc = "over" /\ stop'.by = stop.by
    BY <1>0, <2>1, StopMoved
  <2>3. lifecycle # "enabled" /\ pending = NotPending
    BY <2>1 DEF IInv, StopInv, PendingInv
  <2>4. CASE stop.by = "coordinator"
    <3>1. /\ lifecycle' = "disabled" /\ pending' = NotPending /\ active' = Owner
          /\ UNCHANGED <<generation, cancelled>>
      BY <1>4, <2>4 DEF EndShutdown
    <3>2. \A g \in Generations : ~Live(g) /\ ~Live(g)'
      BY <2>1, <2>4 DEF Account, ShutdownInv, Live
    <3>3. Numbered'
      BY <1>0, <3>1, <3>2, Counted DEF Account, Numbered
    <3>4. PendingWorks' /\ GuestInv' /\ TasksInv' /\ ShutdownInv'
      BY <2>2, <3>1, <3>2 DEF PendingWorks, GuestInv, TasksInv, ShutdownInv, NotPending
    <3> QED
      BY <3>3, <3>4 DEF Account
  <2>5. CASE stop.by # "coordinator"
    <3>1. UNCHANGED <<lifecycle, generation, pending, active, cancelled, task>>
      BY <1>4, <2>1, <2>5 DEF EndShutdown, coordinator
    <3>2. Numbered' /\ PendingWorks'
      BY <3>1 DEF Account, Numbered, PendingWorks, Live
    <3>3. GuestInv' /\ TasksInv' /\ ShutdownInv'
      BY <2>1, <2>2, <2>3, <2>5, <3>1 DEF Account, GuestInv, TasksInv, ShutdownInv, Live
    <3> QED
      BY <3>2, <3>3 DEF Account
  <2> QED
    BY <2>4, <2>5
<1> QED
  BY <1>1, <1>2, <1>3, <1>4 DEF Shutdown

LEMMA AccountDelegation ==
  ASSUME IInv, Account, DelegationNext
  PROVE  Account'
<1>1. ASSUME NEW g \in Generations, CandidateTask(g) \/ RestoreTask(g) \/ Fail(g) \/ Expire(g)
      PROVE  Account'
  <2>1. CASE PureStep(g)
    BY <2>1, AccountPure
  <2>2. CASE LaneStep(g)
    BY <2>2, AccountLane
  <2>3. CASE Commit(g)
    BY <2>3, AccountCommit
  <2>4. CASE CommitOwner(g)
    BY <2>4, AccountCommitOwner
  <2>5. CASE MonitorEnds(g)
    BY <2>5, AccountMonitor
  <2>6. CASE Fail(g)
    BY <2>6, AccountFail
  <2>7. CASE Expire(g)
    BY <2>7, AccountFrame DEF Expire, host
  <2> QED
    BY <1>1, <2>1, <2>2, <2>3, <2>4, <2>5, <2>6, <2>7, Zenon
    DEF CandidateTask, RestoreTask, PureStep, LaneStep
<1>2. CASE ReleaseRetired \/ EndPlayback \/ GuestLoads
  BY <1>2, AccountFrame DEF ReleaseRetired, EndPlayback, GuestLoads
<1>3. CASE GuestFails
  BY <1>3, AccountGuestFails
<1>4. CASE Shutdown
  BY <1>4, AccountShutdown
<1> QED
  BY <1>1, <1>2, <1>3, <1>4 DEF DelegationNext

\* A shutdown of the coordinator cancels whatever is at work.
LEMMA AccountBeginShutdown ==
  ASSUME IInv, Account, BeginShutdown, stop.pc = "idle", UNCHANGED <<task, authority>>
  PROVE  Account'
<1>0. CoordOK /\ PendingInv
  BY DEF IInv, Types
<1>1. CASE lifecycle = "disabled"
  <2>1. /\ UNCHANGED <<lifecycle, generation, pending, active, cancelled>>
        /\ stop'.pc = "over"
    BY <1>1 DEF BeginShutdown, coordinator, NoStop
  <2>2. Numbered' /\ PendingWorks'
    BY <2>1 DEF Account, Numbered, PendingWorks, Live
  <2>3. GuestInv' /\ TasksInv' /\ ShutdownInv'
    BY <1>1, <2>1 DEF Account, GuestInv, TasksInv, ShutdownInv, Live
  <2> QED
    BY <2>2, <2>3 DEF Account
<1>2. CASE lifecycle # "disabled"
  <2>1. /\ lifecycle' = "shutting down" /\ pending' = NotPending
        /\ cancelled' = cancelled \cup Replaced \cup Delegated
        /\ stop'.pc = "join" /\ stop'.by = "coordinator"
        /\ UNCHANGED <<generation, active>>
    BY <1>2 DEF BeginShutdown, NoStop
  <2>2. \A g \in Generations : Live(g)' = Live(g)
    BY DEF Live
  <2>3. Numbered'
    <3>1. NotPending.generation = 0 /\ 0 <= generation
      BY <1>0, Counted
    <3>2. \A h \in cancelled \cup (Replaced \cup Delegated) : h <= generation
      BY <1>0, ReplacedFacts DEF Account, Numbered
    <3> QED
      BY <2>1, <2>2, <3>1, <3>2 DEF Account, Numbered
  <2>4. PendingWorks' /\ GuestInv' /\ ShutdownInv'
    BY <2>1 DEF PendingWorks, GuestInv, ShutdownInv, NotPending
  <2>5. TasksInv'
    <3>1. ASSUME NEW h \in Generations, Live(h)' PROVE h \in cancelled'
      <4>1. h \in cancelled \/ h = pending.generation \/ h = active.generation
        BY <2>2, <3>1 DEF Account, TasksInv
      <4> QED
        BY <1>0, <2>1, <4>1, ReplacedFacts
    <3> QED
      BY <2>1, <3>1 DEF TasksInv
  <2> QED
    BY <2>3, <2>4, <2>5 DEF Account
<1> QED
  BY <1>1, <1>2

\* An authority of a connect comes and goes where no guest is installed.
LEMMA AccountOwner ==
  ASSUME IInv, Account, UNCHANGED <<coordinator, task, stop>>, Clean,
         authority' \in {authority, NoStamp} \/ authority' = Connected(requests)
  PROVE  Account'
<1>1. UNCHANGED <<lifecycle, generation, pending, active, cancelled>>
  BY DEF coordinator
<1>2. Numbered' /\ PendingWorks'
  BY <1>1 DEF Account, Numbered, PendingWorks, Live
<1>3. TasksInv' /\ ShutdownInv'
  BY <1>1 DEF Account, TasksInv, ShutdownInv, Live
<1>4. GuestInv'
  <2>1. \A g : Guest(g) # NoStamp /\ Guest(g) # Connected(requests)
    BY DEF Guest, NoStamp, Connected, Stamp
  <2>2. lifecycle = "enabled" => active.generation = 0 /\ ~active.required
    BY DEF Clean, Owner
  <2>3. lifecycle = "enabled" => \A g \in Generations : authority # Guest(g)
    BY <2>2 DEF Account, GuestInv, Generations
  <2>4. lifecycle = "enabled" => \A g \in Generations : active.generation # g /\ authority' # Guest(g)
    BY <2>1, <2>2, <2>3 DEF Generations
  <2> QED
    BY <1>1, <2>2, <2>4 DEF GuestInv
<1> QED
  BY <1>2, <1>3, <1>4 DEF Account

LEMMA AccountService ==
  ASSUME IInv, Account, Service
  PROVE  Account'
<1>0. StopInv /\ ServiceInv
  BY DEF IInv
<1>1. CASE Withdraw \/ StopWaiting \/ ClaimConnect \/ DialFails \/ ConnectFails \/ StartListener
           \/ CloseListener
  BY <1>1, AccountFrame
  DEF Withdraw, StopWaiting, ClaimConnect, DialFails, ConnectFails, StartListener, CloseListener, host
<1>2. CASE InstallOwner
  <2>1. Clean /\ UNCHANGED <<coordinator, task, stop>>
    BY <1>0, <1>2 DEF InstallOwner, ServiceInv, Connecting
  <2>2. authority' \in {authority, NoStamp} \/ authority' = Connected(requests)
    BY <1>2 DEF InstallOwner
  <2> QED
    BY <2>1, <2>2, AccountOwner
<1>3. CASE DeclareOwnerReady
  <2>1. service.pc = "bootstrap" /\ stop.pc = "idle" /\ UNCHANGED <<task, authority>>
    BY <1>0, <1>3 DEF DeclareOwnerReady, StopInv, Stopping, host
  <2>2. CASE BeginShutdown
    BY <2>1, <2>2, AccountBeginShutdown
  <2>3. CASE /\ lifecycle = "disabled" /\ pending = NotPending /\ active = Owner
             /\ lifecycle' = "enabled" /\ UNCHANGED <<generation, pending, active, cancelled, stop>>
    <3>1. Numbered' /\ PendingWorks'
      BY <2>1, <2>3 DEF Account, Numbered, PendingWorks, Live
    <3>2. TasksInv' /\ ShutdownInv'
      BY <2>1, <2>3 DEF Account, TasksInv, ShutdownInv, Live
    <3>3. \A g \in Generations : g # 0 /\ authority # Guest(g)
      <4>1. authority.by # "guest"
        BY <1>0, <2>1 DEF ServiceInv, Connecting, NoStamp, Stamp
      <4> QED
        BY <4>1 DEF Guest, Stamp, Generations
    <3>4. GuestInv'
      BY <2>1, <2>3, <3>3 DEF GuestInv, Owner
    <3> QED
      BY <3>1, <3>2, <3>4 DEF Account
  <2> QED
    BY <1>3, <2>2, <2>3 DEF DeclareOwnerReady
<1>4. CASE RetireOwner
  <2>1. /\ service.pc \in {"retire", "undo"} /\ stop.pc \in {"idle", "over"} /\ stop' = NoStop
        /\ UNCHANGED <<coordinator, task>> /\ authority' \in {authority, NoStamp}
    BY <1>0, <1>4 DEF RetireOwner, StopInv, Stopping
  <2>2. Clean
    BY <1>0, <2>1 DEF ServiceInv, Connecting
  <2>3. UNCHANGED <<lifecycle, generation, pending, active, cancelled, task>>
    BY <2>1 DEF coordinator
  <2>4. Numbered' /\ PendingWorks' /\ TasksInv'
    BY <2>3 DEF Account, Numbered, PendingWorks, TasksInv, Live
  <2>5. ShutdownInv'
    BY <2>1, <2>3, NoStopFacts DEF Account, ShutdownInv
  <2>6. GuestInv'
    <3>1. \A g \in Generations : g # 0 /\ Guest(g) # NoStamp
      BY DEF Guest, NoStamp, Stamp, Generations
    <3>2. lifecycle = "enabled" => active.generation = 0 /\ ~active.required
      BY <2>2 DEF Clean, Owner
    <3>3. lifecycle = "enabled" => \A g \in Generations : authority # Guest(g)
      BY <3>1, <3>2 DEF Account, GuestInv
    <3> QED
      BY <2>1, <2>3, <3>1, <3>2, <3>3 DEF GuestInv
  <2> QED
    BY <2>4, <2>5, <2>6 DEF Account
<1>5. CASE StopCoordinator
  <2>1. stop.pc = "idle"
    BY <1>0, <1>5 DEF StopCoordinator, StopInv, Stopping
  <2> QED
    BY <1>5, <2>1, AccountBeginShutdown DEF StopCoordinator, host
<1>6. CASE StopDirectly \/ Disconnected
  <2>1. /\ stop.pc = "over" /\ UNCHANGED <<coordinator, task, authority>>
        /\ stop' \in {NoStop, [NoStop EXCEPT !.pc = "gate", !.by = "service"]}
    BY <1>6 DEF StopDirectly, Disconnected, host
  <2>2. stop'.by # "coordinator"
    <3>1. NoStop.by = "none" /\ [NoStop EXCEPT !.pc = "gate", !.by = "service"].by = "service"
      BY DEF NoStop
    <3> QED
      BY <2>1, <3>1
  <2>3. UNCHANGED <<lifecycle, generation, pending, active, cancelled, task>>
    BY <2>1 DEF coordinator
  <2>4. Numbered' /\ PendingWorks' /\ TasksInv'
    BY <2>3 DEF Account, Numbered, PendingWorks, TasksInv, Live
  <2>5. GuestInv' /\ ShutdownInv'
    BY <2>1, <2>2, <2>3 DEF Account, GuestInv, ShutdownInv
  <2> QED
    BY <2>4, <2>5 DEF Account
<1> QED
  BY <1>1, <1>2, <1>3, <1>4, <1>5, <1>6, Zenon DEF Service

LEMMA NextAccount == IInv /\ Account /\ [Next]_vars => Account'
<1> SUFFICES ASSUME IInv, Account, [Next]_vars PROVE Account'
  OBVIOUS
<1>1. CASE AskConnect \/ AskDisconnect
  BY <1>1, AccountFrame DEF AskConnect, AskDisconnect, host
<1>2. CASE Service
  BY <1>2, AccountService
<1>3. CASE Offer \/ UNCHANGED vars
  BY <1>3, AccountFrame DEF Offer, vars, host
<1>4. CASE Handoff
  <2>1. CASE Admit
    BY <1>4, <2>1, AccountAdmit DEF Handoff, IInv, Types, host
  <2>2. CASE UNCHANGED <<coordinator, task>>
    BY <1>4, <2>2, AccountFrame DEF Handoff, host
  <2> QED
    BY <1>4, <2>1, <2>2 DEF Handoff
<1>5. CASE DelegationNext
  BY <1>5, AccountDelegation
<1> QED
  BY <1>1, <1>2, <1>3, <1>4, <1>5 DEF Next

\* While delegation is enabled, the coordinator and the host agree on the guest
\* that is installed, and what is installed always has something that will end
\* it: for any number of generations, through every refusal, cancellation,
\* timeout, abort and exhaustion.  That is not inductive: it needs to know that
\* generations are fresh, whose task is at work and who has been cancelled.
THEOREM GuestAccounted == Spec => []GuestIsAccountedFor
<1>1. IInv /\ Account => GuestIsAccountedFor
  <2> SUFFICES ASSUME IInv, Account, lifecycle = "enabled"
               PROVE  /\ \A h \in Generations : active.generation = h <=> authority = Guest(h)
                      /\ active.generation # 0 =>
                            \/ task[active.generation].pc = "watch"
                            \/ /\ active.required
                               /\ pending.kind = "candidate" \/ pending.over = active.generation
                               /\ Live(pending.generation)
    BY DEF GuestIsAccountedFor
  <2>1. \A h \in Generations : active.generation = h <=> authority = Guest(h)
    BY DEF Account, GuestInv
  <2>2. ASSUME active.generation # 0, ~active.required PROVE task[active.generation].pc = "watch"
    BY <2>2 DEF Account, GuestInv
  <2>3. ASSUME active.required
        PROVE  /\ pending.kind = "candidate" \/ pending.over = active.generation
               /\ Live(pending.generation)
    <3>1. pending.kind \in {"candidate", "restore"}
      BY <2>3 DEF Account, GuestInv, IInv, Types, CoordOK
    <3>2. task[pending.generation].pc \in Works \cup Restores
      BY <3>1 DEF Account, PendingWorks
    <3> QED
      BY <3>1, <3>2 DEF Account, PendingWorks, Live, Works, Restores, CandidatePcs, RestorePcs
  <2> QED
    BY <2>1, <2>2, <2>3
<1> QED
  BY <1>1, InitAccount, NextAccount, Invariance, PTL DEF Spec

------------------------------------------------------------------------------
(* Off means off *)

\* Switched off, with nobody left who has to clean up.
Quiet == ~intent.on /\ withdrawing = 0 /\ ~incomplete
         /\ \A i \in 1..Len(gate) : gate[i].op # "disconnect"

QuietInv ==
    /\ gate = <<>> => service.pc = "start"
    /\ Quiet => authority = NoStamp /\ lifecycle = "disabled" /\ service.pc = "start"

LEMMA InitQuiet == Init => QuietInv
BY DEF Init, DelegationInit, QuietInv, Resting

LEMMA QuietFrame ==
  ASSUME QuietInv, UNCHANGED <<gate, service, intent, withdrawing, incomplete, authority, lifecycle>>
  PROVE  QuietInv'
<1>1. Quiet' => Quiet
  BY DEF Quiet
<1> QED
  BY <1>1 DEF QuietInv

\* Where nothing is delegated and no shutdown runs, a step delegates nothing.
LEMMA QuietDelegation ==
  ASSUME IInv, DelegationNext, lifecycle = "disabled", stop.pc = "idle"
  PROVE  UNCHANGED <<lifecycle, authority>>
<1>0. TaskOK /\ HostOK /\ HostInv /\ TaskInv
  BY DEF IInv, Types
<1>1. ASSUME NEW g \in Generations, CandidateTask(g) \/ RestoreTask(g) \/ Fail(g) \/ Expire(g)
      PROVE  UNCHANGED <<lifecycle, authority>>
  <2>1. CASE PureStep(g)
    BY <1>0, <2>1, PureTask DEF coordinator, host
  <2>2. CASE LaneStep(g)
    BY <1>0, <2>2, LaneTask DEF coordinator
  <2>3. ~Commit(g)
    BY DEF Commit, MayCommit, IsPending
  <2>4. CASE CommitOwner(g)
    BY <2>4 DEF CommitOwner, coordinator, host
  <2>5. CASE MonitorEnds(g)
    BY <2>5 DEF MonitorEnds, StartRestore, coordinator, host
  <2>6. CASE Fail(g)
    BY <2>6 DEF Fail, FailPending, host
  <2>7. CASE Expire(g)
    BY <2>7 DEF Expire, coordinator, host
  <2> QED
    BY <1>1, <2>1, <2>2, <2>3, <2>4, <2>5, <2>6, <2>7, Zenon
    DEF CandidateTask, RestoreTask, PureStep, LaneStep
<1>2. CASE ReleaseRetired \/ EndPlayback \/ GuestLoads
  BY <1>2 DEF ReleaseRetired, EndPlayback, GuestLoads, coordinator
<1>3. ~GuestFails
  BY DEF GuestFails, StartRestore
<1>4. ~Shutdown
  BY DEF Shutdown, JoinTasks, AbortTasks, ShutdownTakesLane, ClearAuthority, RestoreSnapshot,
         DropSnapshot, ShutdownTimesOut, EndShutdown
<1> QED
  BY <1>1, <1>2, <1>3, <1>4 DEF DelegationNext

\* A connect that returns leaves nobody at the gate who was not there before.
LEMMA QuietReturn ==
  ASSUME GateOK, gate # <<>>, NEW how, Return(how)
  PROVE  /\ service'.pc = "start"
         /\ UNCHANGED <<intent, withdrawing, incomplete>> /\ Head(gate).op = "connect" =>
               (Quiet' => Quiet)
<1>1. gate' = Tail(gate) /\ service' = Resting /\ gate \in Seq(Calls)
  BY DEF Return, GateOK
<1>2. Head(gate) = gate[1] /\ Len(gate) >= 1 /\ Len(gate') = Len(gate) - 1
      /\ \A i \in 1..Len(gate') : gate'[i] = gate[i + 1]
  BY <1>1, HeadTailProperties
<1>3. ASSUME UNCHANGED <<intent, withdrawing, incomplete>>, Head(gate).op = "connect", Quiet'
      PROVE  Quiet
  <2>1. ASSUME NEW i \in 1..Len(gate) PROVE gate[i].op # "disconnect"
    <3>1. CASE i = 1
      BY <1>2, <1>3, <3>1
    <3>2. CASE i # 1
      <4>1. i - 1 \in 1..Len(gate') /\ gate'[i - 1] = gate[i]
        BY <1>2, <3>2
      <4> QED
        BY <1>3, <4>1 DEF Quiet
    <3> QED
      BY <3>1, <3>2
  <2> QED
    BY <1>3, <2>1 DEF Quiet
<1> QED
  BY <1>1, <1>3 DEF Resting

LEMMA QuietService ==
  ASSUME IInv, Account, QuietInv, Service
  PROVE  QuietInv'
<1>0. GateOK /\ StopInv /\ ServiceInv
  BY DEF IInv, Types, ServiceOK
<1>1. CASE Withdraw
  <2>1. gate' = Append(gate, Disconnect) /\ gate \in Seq(Calls)
    BY <1>0, <1>1 DEF Withdraw, GateOK
  <2>2. Len(gate') \in 1..Len(gate') /\ gate'[Len(gate')].op = "disconnect"
    BY <2>1 DEF Disconnect
  <2>3. ~Quiet' /\ gate' # <<>>
    BY <2>2 DEF Quiet
  <2> QED
    BY <2>3 DEF QuietInv
<1>2. CASE StopWaiting
  <2>1. PICK i \in 2..Len(gate) : /\ gate[i].op = "connect"
                                  /\ gate' = SubSeq(gate, 1, i - 1) \o SubSeq(gate, i + 1, Len(gate))
    BY <1>2 DEF StopWaiting
  <2>2. gate \in Seq(Calls) /\ Len(gate) \in Nat
    BY <1>0 DEF GateOK
  <2>3. /\ Len(gate') = Len(gate) - 1
        /\ \A j \in 1..Len(gate') : gate'[j] = IF j < i THEN gate[j] ELSE gate[j + 1]
    BY <2>1, <2>2
  <2>4. gate' # <<>>
    <3>1. Len(gate') >= 1
      BY <2>1, <2>2, <2>3
    <3> QED
      BY <3>1
  <2>5. UNCHANGED <<intent, withdrawing, service, incomplete, authority, lifecycle>>
    BY <1>2 DEF StopWaiting, coordinator, host
  <2>6. ASSUME Quiet' PROVE Quiet
    <3>1. ASSUME NEW j \in 1..Len(gate) PROVE gate[j].op # "disconnect"
      <4>1. CASE j < i
        <5>1. j \in 1..Len(gate') /\ gate'[j] = gate[j]
          BY <2>1, <2>2, <2>3, <4>1
        <5> QED
          BY <2>6, <5>1 DEF Quiet
      <4>2. CASE j = i
        BY <2>1, <4>2
      <4>3. CASE j > i
        <5>1. j - 1 \in 1..Len(gate') /\ gate'[j - 1] = gate[j]
          BY <2>1, <2>2, <2>3, <4>3
        <5> QED
          BY <2>6, <5>1 DEF Quiet
      <4> QED
        BY <2>1, <2>2, <4>1, <4>2, <4>3
    <3> QED
      BY <2>5, <2>6, <3>1 DEF Quiet
  <2> QED
    BY <2>4, <2>5, <2>6 DEF QuietInv
<1>3. ASSUME gate # <<>>, gate' = gate, \E i \in 1..Len(gate) : gate[i].op = "disconnect"
      PROVE  QuietInv'
  BY <1>3 DEF QuietInv, Quiet
<1>4. ASSUME gate # <<>>, gate' = gate, ~Quiet' PROVE QuietInv'
  BY <1>4 DEF QuietInv
<1>5. ASSUME NEW op \in {"connect", "disconnect"}, Holder(op)
      PROVE  gate # <<>> /\ 1 \in 1..Len(gate) /\ gate[1].op = op /\ Head(gate).op = op
  <2>1. gate # <<>> /\ Head(gate).op = op /\ gate \in Seq(Calls)
    BY <1>0, <1>5 DEF Holder, GateOK
  <2> QED
    BY <2>1
<1>6. CASE ClaimConnect \/ DialFails \/ InstallOwner \/ DeclareOwnerReady \/ ConnectFails
           \/ StartListener \/ RetireOwner
  <2>1. gate # <<>> /\ Head(gate).op = "connect"
    BY <1>5, <1>6 DEF ClaimConnect, DialFails, InstallOwner, DeclareOwnerReady, ConnectFails,
                      StartListener, RetireOwner
  <2>2. /\ UNCHANGED <<intent, withdrawing, incomplete>>
        /\ gate' = gate \/ \E how : Return(how)
    BY <1>6 DEF ClaimConnect, DialFails, InstallOwner, DeclareOwnerReady, ConnectFails,
                StartListener, RetireOwner, Step
  <2>3. Quiet' => Quiet
    <3>1. CASE gate' = gate
      BY <2>2, <3>1 DEF Quiet
    <3>2. CASE \E how : Return(how)
      BY <1>0, <2>1, <2>2, <3>2, QuietReturn
    <3> QED
      BY <2>2, <3>1, <3>2
  <2>4. gate' = <<>> => service'.pc = "start"
    BY <1>0, <2>1, <2>2, QuietReturn
  <2>5. ASSUME Quiet' PROVE authority' = NoStamp /\ lifecycle' = "disabled" /\ service'.pc = "start"
    <3>1. ~intent.on /\ authority = NoStamp /\ lifecycle = "disabled" /\ service.pc = "start"
      BY <2>3, <2>5 DEF QuietInv, Quiet
    <3>2. \A t : ~Token(t)
      BY <3>1 DEF Token
    <3>3. ClaimConnect
      BY <1>6, <3>1 DEF DialFails, InstallOwner, DeclareOwnerReady, ConnectFails, StartListener,
                        RetireOwner
    <3>4. Return("cancelled") /\ UNCHANGED <<authority, lifecycle>>
      BY <3>2, <3>3 DEF ClaimConnect, coordinator, host
    <3> QED
      BY <3>1, <3>4 DEF Return, Resting
  <2> QED
    BY <2>4, <2>5 DEF QuietInv
<1>7. CASE CloseListener
  <2>1. gate # <<>> /\ Head(gate).op = "disconnect" /\ 1 \in 1..Len(gate) /\ gate[1].op = "disconnect"
    BY <1>5, <1>7 DEF CloseListener
  <2>2. CASE intent.on
    <3>1. ~Quiet' /\ Return("superseded by enable")
      BY <1>7, <2>2 DEF CloseListener, Quiet
    <3> QED
      BY <3>1 DEF QuietInv, Return, Resting
  <2>3. CASE ~intent.on
    BY <1>3, <1>7, <2>1, <2>3 DEF CloseListener, Step
  <2> QED
    BY <2>2, <2>3
<1>8. CASE StopCoordinator \/ StopDirectly
  <2>1. gate # <<>> /\ 1 \in 1..Len(gate) /\ gate[1].op = "disconnect" /\ gate' = gate
    BY <1>5, <1>8 DEF StopCoordinator, StopDirectly, Step
  <2> QED
    BY <1>3, <2>1
<1>9. CASE Disconnected
  <2>1. /\ \E how : Return(how)
        /\ incomplete' = ((service.pc = "stop directly" /\ stop.late) \/ authority # NoStamp)
        /\ stop.pc = "over" /\ UNCHANGED <<coordinator, authority>>
    BY <1>9 DEF Disconnected, host
  <2>2. service'.pc = "start"
    <3>1. service' = Resting
      BY <2>1 DEF Return
    <3> QED
      BY <3>1 DEF Resting
  <2>3. lifecycle' = "disabled"
    BY <2>1 DEF Account, ShutdownInv, StopInv, IInv, Types, CoordOK, coordinator
  <2>4. Quiet' => authority' = NoStamp
    BY <2>1 DEF Quiet
  <2> QED
    BY <2>2, <2>3, <2>4 DEF QuietInv
<1> QED
  BY <1>1, <1>2, <1>6, <1>7, <1>8, <1>9, Zenon DEF Service

LEMMA NextQuiet == IInv /\ Account /\ QuietInv /\ [Next]_vars => QuietInv'
<1> SUFFICES ASSUME IInv, Account, QuietInv, [Next]_vars PROVE QuietInv'
  OBVIOUS
<1>1. CASE AskConnect
  <2>1. intent'.on /\ gate' = Append(gate, Connect(intent'.epoch)) /\ gate \in Seq(Calls)
    BY <1>1 DEF AskConnect, IInv, Types, ServiceOK, GateOK
  <2>2. gate' # <<>>
    BY <2>1
  <2> QED
    BY <2>1, <2>2 DEF QuietInv, Quiet
<1>2. CASE AskDisconnect
  <2>1. withdrawing' = withdrawing + 1 /\ withdrawing \in Nat /\ UNCHANGED <<gate, service>>
    BY <1>2 DEF AskDisconnect, IInv, Types, ServiceOK
  <2>2. ~Quiet'
    BY <2>1 DEF Quiet
  <2> QED
    BY <2>1, <2>2 DEF QuietInv
<1>3. CASE Service
  BY <1>3, QuietService
<1>4. CASE Offer \/ UNCHANGED vars
  BY <1>4, QuietFrame DEF Offer, vars, calls, coordinator, host
<1>5. CASE Handoff
  <2>1. UNCHANGED <<gate, service, intent, withdrawing, incomplete, authority>>
    BY <1>5 DEF Handoff, calls, host
  <2>2. Quiet' => Quiet
    BY <2>1 DEF Quiet
  <2>3. Quiet => UNCHANGED lifecycle
    BY <1>5 DEF Handoff, Admit, QuietInv, coordinator
  <2> QED
    BY <2>1, <2>2, <2>3 DEF QuietInv
<1>6. CASE DelegationNext /\ UNCHANGED <<calls, lan>>
  <2>1. UNCHANGED <<gate, service, intent, withdrawing, incomplete>>
    BY <1>6 DEF calls
  <2>2. Quiet' => Quiet
    BY <2>1 DEF Quiet
  <2>3. Quiet => UNCHANGED <<lifecycle, authority>>
    <3>1. Quiet => lifecycle = "disabled" /\ stop.pc = "idle"
      BY DEF QuietInv, IInv, StopInv, Stopping
    <3> QED
      BY <1>6, <3>1, QuietDelegation
  <2> QED
    BY <2>1, <2>2, <2>3 DEF QuietInv
<1> QED
  BY <1>1, <1>2, <1>3, <1>4, <1>5, <1>6 DEF Next

\* Once the last disconnect has returned and reported success, no authority, no
\* listener, no guest's queue and no delegation are left, and the only tasks
\* left are cancelled ones after the generations were exhausted: for any number
\* of requests in any order, with a shutdown that may run out of time anywhere.
THEOREM OffIsOff == Spec => []OffMeansOff
<1>1. IInv /\ Account /\ QuietInv => OffMeansOff
  <2> SUFFICES ASSUME IInv, Account, QuietInv, gate = <<>>, withdrawing = 0, ~intent.on, ~incomplete
               PROVE  /\ authority = NoStamp /\ listener = NoStamp
                      /\ queue = "owner" /\ snapshot = "none"
                      /\ lifecycle = "disabled"
                      /\ \A g \in Generations : Live(g) => generation = MaxGeneration /\ g \in cancelled
    BY DEF OffMeansOff
  <2>1. Quiet
    BY DEF Quiet
  <2>2. authority = NoStamp /\ lifecycle = "disabled" /\ service.pc = "start"
    BY <2>1 DEF QuietInv
  <2>3. Clean
    BY <2>2 DEF IInv, ServiceInv
  <2>4. \A g \in Generations : Live(g) => generation = MaxGeneration /\ g \in cancelled
    BY <2>2 DEF Account, TasksInv
  <2> QED
    BY <2>2, <2>3, <2>4 DEF Clean
<1> QED
  BY <1>1, InitAccount, NextAccount, InitQuiet, NextQuiet, Invariance, PTL DEF Spec
=============================================================================
