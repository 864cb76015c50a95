------------------------- MODULE LineLifecycleProofs -------------------------
(***************************************************************************)
(* The safety of a line's lifecycle for any number of tasks in flight, any *)
(* number of engine generations and any number of requests, card movements *)
(* and restarts.  The model checker looks at two tasks and two events.     *)
(***************************************************************************)
EXTENDS LineLifecycle, TLAPS

JobType == [kind : Kinds, at : Stages, bound : BOOLEAN, gen : Gens \cup {NoGen},
            enabled : BOOLEAN]

(* A task works for the current health record, or will when it begins.     *)
Works(job) == job.kind = "recover" /\ (job.at = "begin" \/ job.bound)

-----------------------------------------------------------------------------
(* Tasks. *)

LEMMA NewJobType == \A kind \in Kinds : Job(kind) \in JobType
  BY DEF Job, NoJob, JobType, Stages, NoGen

(* Spawning fills a free slot and leaves every other task alone.           *)
LEMMA SpawnFillsAFreeSlot ==
    ASSUME NEW js \in [Slots -> JobType], NEW job \in JobType, Spawn(js, job)
    PROVE  /\ jobs' \in [Slots -> JobType]
           /\ \E s \in Slots : /\ js[s] = NoJob /\ jobs'[s] = job
                               /\ \A r \in Slots \ {s} : jobs'[r] = js[r]
  BY DEF Spawn

LEMMA OrphanedType ==
    ASSUME NEW js \in [Slots -> JobType]
    PROVE  /\ Orphaned(js) \in [Slots -> JobType]
           /\ \A s \in Slots : Orphaned(js)[s].kind = js[s].kind
           /\ \A s \in Slots : Orphaned(js)[s].at = js[s].at
           /\ \A s \in Slots : Orphaned(js)[s].gen = js[s].gen
  BY DEF Orphaned, JobType

(* The ways a task's own step changes its slot.                            *)
LEMMA MoveType ==
    ASSUME NEW js \in [Slots -> JobType], NEW s \in Slots
    PROVE  \A stage \in Stages : [js EXCEPT ![s].at = stage] \in [Slots -> JobType]
  BY DEF JobType

LEMMA MoveWithGenType ==
    ASSUME NEW js \in [Slots -> JobType], NEW s \in Slots
    PROVE  \A stage \in Stages : \A gen \in Gens \cup {NoGen} :
             [js EXCEPT ![s].at = stage, ![s].gen = gen] \in [Slots -> JobType]
  BY DEF JobType

LEMMA MoveBoundType ==
    ASSUME NEW js \in [Slots -> JobType], NEW s \in Slots
    PROVE  [js EXCEPT ![s].bound = TRUE, ![s].at = "launch"] \in [Slots -> JobType]
  BY DEF JobType, Stages

LEMMA MoveEnabledType ==
    ASSUME NEW js \in [Slots -> JobType], NEW s \in Slots, NEW on \in BOOLEAN
    PROVE  [js EXCEPT ![s].enabled = on, ![s].at = "check"] \in [Slots -> JobType]
  BY DEF JobType, Stages

LEMMA EndType ==
    ASSUME NEW js \in [Slots -> JobType], NEW s \in Slots
    PROVE  [js EXCEPT ![s] = NoJob] \in [Slots -> JobType]
  BY DEF NoJob, JobType, Kinds, Stages, NoGen

-----------------------------------------------------------------------------
(* Type correctness. *)

HealthType == [failing : {"no", "counting", "spent"}, frozen : {"no", "fault", "pin"},
               retry : {"never", "cooling", "due"}, retrying : BOOLEAN]

LEMMA HealthStep ==
    ASSUME NEW h \in HealthType
    PROVE  /\ BlankHealth \in HealthType
           /\ \A b \in BOOLEAN : [h EXCEPT !.retrying = b] \in HealthType
           /\ [h EXCEPT !.retrying = FALSE, !.retry = "cooling"] \in HealthType
           /\ \A f \in {"no", "counting", "spent"} : [h EXCEPT !.failing = f] \in HealthType
           /\ [h EXCEPT !.frozen = "pin", !.retry = "never"] \in HealthType
           /\ [h EXCEPT !.retry = "due"] \in HealthType
           /\ \A r \in {"never", "cooling"} :
                [h EXCEPT !.failing = "spent", !.frozen = "fault", !.retry = r] \in HealthType
  BY DEF HealthType, BlankHealth

PollType == [at : {"idle", "enforce", "stop", "apply"}, gen : Gens \cup {NoGen},
             sample : Samples]

LEMMA NoPollType == NoPoll \in PollType
  BY DEF NoPoll, PollType, Samples, NoGen

(* TypeOK, part by part.                                                   *)
LEMMA TypeParts ==
    TypeOK <=> /\ enabled \in BOOLEAN /\ card \in BOOLEAN
               /\ seen \in BOOLEAN /\ stopped \in BOOLEAN
               /\ container \in Gens \cup {NoGen}
               /\ health \in HealthType
               /\ poll \in PollType
               /\ monitor \in {"scan", "check", "stop"}
               /\ jobs \in [Slots -> JobType]
               /\ events \in 0 .. MaxEvents
  BY DEF TypeOK, HealthType, PollType, JobType

LEMMA TypePartsNext ==
    TypeOK' <=> /\ enabled' \in BOOLEAN /\ card' \in BOOLEAN
                /\ seen' \in BOOLEAN /\ stopped' \in BOOLEAN
                /\ container' \in Gens \cup {NoGen}
                /\ health' \in HealthType
                /\ poll' \in PollType
                /\ monitor' \in {"scan", "check", "stop"}
                /\ jobs' \in [Slots -> JobType]
                /\ events' \in 0 .. MaxEvents
  BY DEF TypeOK, HealthType, PollType, JobType

LEMMA TypeInit == Init => TypeOK
<1> SUFFICES ASSUME Init PROVE TypeOK
  OBVIOUS
<1>1. health \in HealthType
  BY DEF Init, BlankHealth, HealthType
<1>2. poll \in PollType
  BY DEF Init, NoPoll, PollType, Samples, NoGen
<1>3. jobs \in [Slots -> JobType]
  BY DEF Init, NoJob, JobType, Kinds, Stages, NoGen
<1>4. events \in 0 .. MaxEvents
  BY LifecycleAssumption DEF Init
<1>5. container \in Gens \cup {NoGen}
  BY DEF Init
<1> QED
  BY <1>1, <1>2, <1>3, <1>4, <1>5, TypeParts DEF Init

LEMMA PollerType == ASSUME TypeOK, Poller PROVE TypeOK'
<1> USE TypeParts, TypePartsNext DEF NoGen
<1>0. jobs \in [Slots -> JobType] /\ health \in HealthType
  OBVIOUS
<1>1. CASE PollFindsDisabled
  <2>1. poll' \in PollType
    BY <1>1, NoPollType DEF PollFindsDisabled, PollType
  <2> QED
    BY <2>1, <1>1 DEF PollFindsDisabled
<1>2. ASSUME NEW result \in Samples, PollRereads(result) PROVE TypeOK'
  <2>1. poll' \in PollType
    BY <1>2 DEF PollRereads, Sampled, PollType
  <2> QED
    BY <2>1, <1>2 DEF PollRereads
<1>3. CASE PollEnforcesOff
  <2>1. jobs' \in [Slots -> JobType] /\ health' \in HealthType
    BY <1>0, <1>3, OrphanedType, HealthStep DEF PollEnforcesOff, ResetHealth
  <2> QED
    BY <2>1, <1>3, NoPollType DEF PollEnforcesOff
<1>4. ASSUME NEW result \in Samples, PollSamples(result) PROVE TypeOK'
  <2>1. poll' \in PollType
    BY <1>4 DEF PollSamples, Sampled, PollType
  <2> QED
    BY <2>1, <1>4 DEF PollSamples
<1>5. CASE PollApplies
  <2>1. jobs' \in [Slots -> JobType] /\ health' \in HealthType
    <3>1. CASE ApplyOK
      BY <1>0, <3>1, OrphanedType, HealthStep DEF ApplyOK, ResetHealth
    <3>2. CASE ApplyFrozen
      <4>1. Job("recover") \in JobType
        BY NewJobType DEF Kinds
      <4> QED
        BY <1>0, <3>2, <4>1, SpawnFillsAFreeSlot, HealthStep DEF ApplyFrozen
    <3>3. CASE ApplyNoEngine
      BY <1>0, <3>3, HealthStep DEF ApplyNoEngine
    <3>4. CASE ApplyFailing
      BY <1>0, <3>4, HealthStep DEF ApplyFailing
    <3>5. ASSUME NEW gaveUp \in BOOLEAN, ApplyFreeze(gaveUp)
          PROVE  jobs' \in [Slots -> JobType] /\ health' \in HealthType
      <4>1. [Job("capture") EXCEPT !.gen = poll.gen] \in JobType
        BY NewJobType DEF JobType, Kinds, PollType
      <4> QED
        BY <1>0, <3>5, <4>1, SpawnFillsAFreeSlot, HealthStep DEF ApplyFreeze
    <3> QED
      BY <1>5, <3>1, <3>2, <3>3, <3>4, <3>5 DEF PollApplies
  <2> QED
    BY <2>1, <1>5, NoPollType DEF PollApplies
<1> QED
  BY <1>1, <1>2, <1>3, <1>4, <1>5 DEF Poller

(* A task's step writes jobs through one of these, and nothing else of     *)
(* what TypeOK restricts but the container and the health record.          *)
LEMMA TaskJobsType ==
    ASSUME TypeOK, NEW s \in Slots, Task(s)
    PROVE  jobs' \in [Slots -> JobType]
<1>0. jobs \in [Slots -> JobType] /\ Orphaned(jobs) \in [Slots -> JobType]
      /\ enabled \in BOOLEAN /\ container \in Gens \cup {NoGen}
  BY TypeParts, OrphanedType
<1>1. CASE RecoveryBegins(s)
  <2>1. /\ [jobs EXCEPT ![s].bound = TRUE, ![s].at = "launch"] \in [Slots -> JobType]
        /\ [Orphaned(jobs) EXCEPT ![s] = NoJob] \in [Slots -> JobType]
    BY <1>0, MoveBoundType, EndType
  <2> QED
    BY <1>1, <2>1 DEF RecoveryBegins, EndAndReset
<1>2. CASE HotplugSettles(s)
  <2>1. [jobs EXCEPT ![s].enabled = enabled, ![s].at = "check"] \in [Slots -> JobType]
    BY <1>0, MoveEnabledType
  <2> QED
    BY <1>2, <2>1 DEF HotplugSettles
<1>3. /\ [jobs EXCEPT ![s] = NoJob] \in [Slots -> JobType]
      /\ [Orphaned(jobs) EXCEPT ![s] = NoJob] \in [Slots -> JobType]
  BY <1>0, EndType
<1>4. /\ [jobs EXCEPT ![s].at = "launch"] \in [Slots -> JobType]
      /\ [Orphaned(jobs) EXCEPT ![s].at = "launch"] \in [Slots -> JobType]
      /\ [jobs EXCEPT ![s].at = "failed"] \in [Slots -> JobType]
      /\ [jobs EXCEPT ![s].at = "created"] \in [Slots -> JobType]
      /\ [jobs EXCEPT ![s].at = "remove"] \in [Slots -> JobType]
  BY <1>0, MoveType DEF Stages
<1>5. /\ [jobs EXCEPT ![s].at = "remove", ![s].gen = container] \in [Slots -> JobType]
      /\ [jobs EXCEPT ![s].at = "create", ![s].gen = NoGen] \in [Slots -> JobType]
  BY <1>0, MoveWithGenType DEF Stages
<1>6. CASE \/ HotplugChecks(s) \/ StartIsCleared(s) \/ StartIsRefused(s)
           \/ StopEngine(s) \/ Capture(s) \/ StopCaptured(s)
  BY <1>3, <1>4, <1>6
  DEF HotplugChecks, StartIsCleared, StartIsRefused, StopEngine, Capture, StopCaptured,
      MoveTo, End
<1>7. CASE Launch(s) \/ RemoveOld(s) \/ Create(s) \/ CreateFails(s)
  BY <1>4, <1>5, <1>7 DEF Launch, RemoveOld, Create, CreateFails, MoveTo
<1>8. CASE StartSucceeded(s) \/ StartFailed(s)
  BY <1>3, <1>8 DEF StartSucceeded, StartFailed, EndAndReset, End
<1> QED
  BY <1>1, <1>2, <1>6, <1>7, <1>8 DEF Task

LEMMA TaskType == ASSUME TypeOK, NEW s \in Slots, Task(s) PROVE TypeOK'
<1>0. jobs' \in [Slots -> JobType]
  BY TaskJobsType
<1>1. health \in HealthType /\ container \in Gens \cup {NoGen}
  BY TypeParts
<1>2. health' \in HealthType
  BY <1>1, HealthStep
  DEF Task, RecoveryBegins, HotplugSettles, HotplugChecks, StartIsCleared, StartIsRefused,
      Launch, RemoveOld, Create, CreateFails, StartSucceeded, StartFailed, StopEngine,
      Capture, StopCaptured, EndAndReset, ResetHealth
<1>3. container' \in Gens \cup {NoGen}
  BY <1>1
  DEF Task, RecoveryBegins, HotplugSettles, HotplugChecks, StartIsCleared, StartIsRefused,
      Launch, RemoveOld, Create, CreateFails, StartSucceeded, StartFailed, StopEngine,
      Capture, StopCaptured
<1>4. UNCHANGED <<enabled, card, seen, poll, monitor, events, stopped>>
  BY DEF Task, RecoveryBegins, HotplugSettles, HotplugChecks, StartIsCleared, StartIsRefused,
      Launch, RemoveOld, Create, CreateFails, StartSucceeded, StartFailed, StopEngine,
      Capture, StopCaptured
<1> QED
  BY <1>0, <1>2, <1>3, <1>4, TypeParts, TypePartsNext

LEMMA MonitorType == ASSUME TypeOK, Monitor PROVE TypeOK'
<1> USE TypeParts, TypePartsNext
<1>1. CASE MonitorSeesRemoval
  BY <1>1, OrphanedType, HealthStep DEF MonitorSeesRemoval, ResetHealth
<1>2. CASE MonitorChecks
  BY <1>2 DEF MonitorChecks
<1>3. CASE MonitorStops
  BY <1>3 DEF MonitorStops
<1>4. CASE MonitorSeesInsert
  <2>1. Job("hotplug") \in JobType
    BY NewJobType DEF Kinds
  <2>2. jobs' \in [Slots -> JobType]
    BY <1>4, <2>1, SpawnFillsAFreeSlot DEF MonitorSeesInsert
  <2> QED
    BY <1>4, <2>2 DEF MonitorSeesInsert
<1> QED
  BY <1>1, <1>2, <1>3, <1>4 DEF Monitor

LEMMA UserType == ASSUME TypeOK, User PROVE TypeOK'
<1> USE TypeParts, TypePartsNext
<1>1. /\ Job("start") \in JobType /\ Job("stop") \in JobType
      /\ Job("turn-on") \in JobType /\ Job("turn-off") \in JobType
  BY NewJobType DEF Kinds
<1>2. Orphaned(jobs) \in [Slots -> JobType]
  BY OrphanedType
<1>3. jobs' \in [Slots -> JobType]
  BY <1>1, <1>2, SpawnFillsAFreeSlot DEF User, Start, Stop, TurnOn, TurnOff
<1>4. events' \in 0 .. MaxEvents
  BY LifecycleAssumption DEF User, Start, Stop, TurnOn, TurnOff, Event
<1>5. health' \in HealthType
  BY HealthStep DEF User, Start, Stop, TurnOn, TurnOff, ResetHealth
<1>6. enabled' \in BOOLEAN /\ stopped' \in BOOLEAN
      /\ UNCHANGED <<card, seen, container, poll, monitor>>
  BY DEF User, Start, Stop, TurnOn, TurnOff
<1> QED
  BY <1>3, <1>4, <1>5, <1>6

LEMMA WorldType == ASSUME TypeOK, Timers \/ MoveCard \/ RestartControl PROVE TypeOK'
<1> USE TypeParts, TypePartsNext
<1>1. CASE Timers
  BY <1>1, HealthStep DEF Timers, BudgetRunsOut, RetryFallsDue
<1>2. CASE MoveCard
  BY <1>2, LifecycleAssumption DEF MoveCard, Event
<1>3. CASE RestartControl
  <2>1. NoJob \in JobType
    BY DEF NoJob, JobType, Kinds, Stages, NoGen
  <2>2. jobs' \in [Slots -> JobType] /\ health' \in HealthType /\ poll' \in PollType
    BY <1>3, <2>1, NoPollType, HealthStep DEF RestartControl
  <2>3. events' \in 0 .. MaxEvents
    BY <1>3, LifecycleAssumption DEF RestartControl, Event
  <2> QED
    BY <1>3, <2>2, <2>3 DEF RestartControl
<1> QED
  BY <1>1, <1>2, <1>3

LEMMA TypeStep == TypeOK /\ [Next]_vars => TypeOK'
<1> SUFFICES ASSUME TypeOK, [Next]_vars PROVE TypeOK'
  OBVIOUS
<1>1. CASE UNCHANGED vars
  BY <1>1 DEF vars, TypeOK
<1> QED
  BY <1>1, PollerType, TaskType, MonitorType, UserType, WorldType DEF Next

(* Every variable of a line's lifecycle keeps its type: a task is at a     *)
(* stage of the code, a container id is one Docker handed out.             *)
THEOREM LifecycleTypeCorrect == Spec => []TypeOK
  BY TypeInit, TypeStep, PTL DEF Spec

-----------------------------------------------------------------------------
(* A retrying record has a worker. *)

LEMMA BlankIsNotRetrying == ~BlankHealth.retrying
  BY DEF BlankHealth

(* Spawning a task leaves every worker at work.                            *)
LEMMA SpawnKeepsWorkers ==
    ASSUME jobs \in [Slots -> JobType], NEW job \in JobType, Spawn(jobs, job),
           NEW w \in Slots, Works(jobs[w])
    PROVE  Works(jobs'[w])
<1>1. jobs[w] # NoJob
  BY DEF Works, NoJob
<1> QED
  BY <1>1, SpawnFillsAFreeSlot DEF Works

LEMMA PollerKeepsWorkers ==
    ASSUME TypeOK, RetryingHasAWorker, Poller, health'.retrying
    PROVE  \E w \in Slots : Works(jobs'[w])
<1>0. jobs \in [Slots -> JobType] /\ health \in HealthType /\ poll \in PollType
  BY TypeParts
<1>1. health.retrying => \E w \in Slots : Works(jobs[w])
  BY DEF RetryingHasAWorker, Works
<1>2. CASE PollFindsDisabled \/ \E result \in Samples : PollSamples(result) \/ PollRereads(result)
  BY <1>1, <1>2 DEF PollFindsDisabled, PollRereads, PollSamples
<1>3. CASE PollEnforcesOff \/ (PollApplies /\ ApplyOK)
  BY <1>3, BlankIsNotRetrying DEF PollEnforcesOff, ApplyOK, ResetHealth
<1>4. CASE PollApplies /\ ApplyFrozen
  <2>1. CASE RecoveryIsDue
    <3> DEFINE job == Job("recover")
    <3>1. job \in JobType
      BY NewJobType DEF Kinds
    <3>2. Works(job)
      BY DEF Works, Job, NoJob
    <3>3. Spawn(jobs, job)
      BY <1>4, <2>1 DEF ApplyFrozen
    <3> HIDE DEF job
    <3> QED
      BY <1>0, <3>1, <3>2, <3>3, SpawnFillsAFreeSlot
  <2>2. CASE ~RecoveryIsDue
    BY <1>1, <1>4, <2>2 DEF ApplyFrozen
  <2> QED
    BY <2>1, <2>2
<1>5. CASE PollApplies /\ (ApplyNoEngine \/ ApplyFailing)
  BY <1>0, <1>1, <1>5 DEF ApplyNoEngine, ApplyFailing, HealthType
<1>6. ASSUME NEW gaveUp \in BOOLEAN, PollApplies, ApplyFreeze(gaveUp)
      PROVE  \E w \in Slots : Works(jobs'[w])
  <2> DEFINE job == [Job("capture") EXCEPT !.gen = poll.gen]
  <2>1. job \in JobType
    BY <1>0, NewJobType DEF JobType, Kinds, PollType
  <2>2. Spawn(jobs, job) /\ health.retrying
    BY <1>0, <1>6 DEF ApplyFreeze, HealthType
  <2> HIDE DEF job
  <2> QED
    BY <1>0, <1>1, <2>1, <2>2, SpawnKeepsWorkers
<1> QED
  BY <1>2, <1>3, <1>4, <1>5, <1>6 DEF Poller, PollApplies

(* A task that works for the current record goes on doing so until it      *)
(* resets the record or takes the flag down.                               *)
LEMMA TaskKeepsWorkers ==
    ASSUME TypeOK, RetryingHasAWorker, NEW s \in Slots, Task(s), health'.retrying
    PROVE  \E w \in Slots : Works(jobs'[w])
<1>0. jobs \in [Slots -> JobType] /\ health \in HealthType
  BY TypeParts
<1>1. ~(RecoveryBegins(s) /\ ~seen) /\ ~StartIsCleared(s)
  BY BlankIsNotRetrying DEF RecoveryBegins, StartIsCleared, EndAndReset, ResetHealth
<1>2. health.retrying
  BY <1>0, <1>1, BlankIsNotRetrying
  DEF Task, RecoveryBegins, HotplugSettles, HotplugChecks, StartIsRefused, Launch,
      RemoveOld, Create, CreateFails, StartSucceeded, StartFailed, StopEngine, Capture,
      StopCaptured, EndAndReset, ResetHealth, HealthType
<1>3. PICK w \in Slots : Works(jobs[w])
  BY <1>2 DEF RetryingHasAWorker, Works
<1>4. CASE RecoveryBegins(s)
  <2>1. jobs'[s].kind = "recover" /\ jobs'[s].bound
    BY <1>0, <1>1, <1>4 DEF RecoveryBegins, At, JobType
  <2> QED
    BY <2>1 DEF Works
<1>5. CASE StartSucceeded(s)
  <2>1. jobs[s].kind \notin {"recover", "hotplug"}
    BY <1>5, BlankIsNotRetrying DEF StartSucceeded, EndAndReset, ResetHealth
  <2>2. w # s
    BY <1>3, <2>1 DEF Works
  <2> QED
    BY <1>0, <1>3, <1>5, <2>1, <2>2 DEF StartSucceeded, End
<1>6. CASE StartFailed(s)
  <2>1. ~(jobs[s].kind = "recover" /\ jobs[s].bound)
    BY <1>0, <1>6 DEF StartFailed, HealthType
  <2>2. w # s
    BY <1>3, <1>6, <2>1 DEF Works, StartFailed, At
  <2> QED
    BY <1>0, <1>3, <1>6, <2>2 DEF StartFailed, End
<1>7. CASE Launch(s) \/ RemoveOld(s) \/ Create(s) \/ CreateFails(s)
  <2>1. jobs[s].at # "begin"
    BY <1>7 DEF Launch, RemoveOld, Create, CreateFails, At
  <2>2. jobs'[s].kind = jobs[s].kind /\ jobs'[s].bound = jobs[s].bound
    BY <1>0, <1>7 DEF Launch, RemoveOld, Create, CreateFails, MoveTo, JobType
  <2>3. w # s => jobs'[w] = jobs[w]
    BY <1>0, <1>7 DEF Launch, RemoveOld, Create, CreateFails, MoveTo
  <2> QED
    BY <1>3, <2>1, <2>2, <2>3 DEF Works
<1>8. CASE \/ HotplugSettles(s) \/ HotplugChecks(s) \/ StartIsRefused(s)
           \/ StopEngine(s) \/ Capture(s) \/ StopCaptured(s)
  <2>1. jobs[s].kind # "recover"
    BY <1>8 DEF HotplugSettles, HotplugChecks, StartIsRefused, StopEngine, Capture,
                StopCaptured, At
  <2>2. w # s
    BY <1>3, <2>1 DEF Works
  <2>3. jobs'[w] = jobs[w]
    BY <1>0, <1>8, <2>2 DEF HotplugSettles, HotplugChecks, StartIsRefused, StopEngine,
                            Capture, StopCaptured, MoveTo, End
  <2> QED
    BY <1>3, <2>3
<1> QED
  BY <1>1, <1>4, <1>5, <1>6, <1>7, <1>8 DEF Task

LEMMA OthersKeepWorkers ==
    ASSUME TypeOK, RetryingHasAWorker, health'.retrying,
           Monitor \/ User \/ Timers \/ MoveCard \/ RestartControl
    PROVE  \E w \in Slots : Works(jobs'[w])
<1>0. jobs \in [Slots -> JobType] /\ health \in HealthType
  BY TypeParts
<1>1. health.retrying => \E w \in Slots : Works(jobs[w])
  BY DEF RetryingHasAWorker, Works
<1>2. CASE MonitorSeesRemoval \/ Stop \/ TurnOff \/ RestartControl
  BY <1>2, BlankIsNotRetrying DEF MonitorSeesRemoval, Stop, TurnOff, RestartControl, ResetHealth
<1>3. CASE MonitorChecks \/ MonitorStops \/ Timers \/ MoveCard
  BY <1>0, <1>1, <1>3 DEF MonitorChecks, MonitorStops, Timers, BudgetRunsOut, RetryFallsDue,
                          MoveCard, HealthType
<1>4. CASE MonitorSeesInsert \/ Start \/ TurnOn
  <2>1. /\ Job("hotplug") \in JobType /\ Job("start") \in JobType
        /\ Job("turn-on") \in JobType
    BY NewJobType DEF Kinds
  <2>2. health.retrying
    BY <1>4 DEF MonitorSeesInsert, Start, TurnOn
  <2> QED
    BY <1>0, <1>1, <1>4, <2>1, <2>2, SpawnKeepsWorkers DEF MonitorSeesInsert, Start, TurnOn
<1> QED
  BY <1>2, <1>3, <1>4 DEF Monitor, User

LEMMA WorkerStep ==
    TypeOK /\ RetryingHasAWorker /\ [Next]_vars => RetryingHasAWorker'
<1> SUFFICES ASSUME TypeOK, RetryingHasAWorker, [Next]_vars, health'.retrying
             PROVE  \E w \in Slots : Works(jobs'[w])
  BY DEF RetryingHasAWorker, Works
<1>1. CASE UNCHANGED vars
  BY <1>1 DEF vars, RetryingHasAWorker, Works
<1> QED
  BY <1>1, PollerKeepsWorkers, TaskKeepsWorkers, OthersKeepWorkers DEF Next

(* A line whose record is retrying always has a recovery task that will    *)
(* reset the record or take the flag down, whatever stops, starts, card    *)
(* movements and polls run between its awaits, so no line is left frozen   *)
(* behind a flag that nobody owns (apply_health, _auto_recover_instance).  *)
THEOREM RetryingAlwaysHasAWorker == Spec => []RetryingHasAWorker
<1>1. Init => RetryingHasAWorker
  BY BlankIsNotRetrying DEF Init, RetryingHasAWorker
<1> QED
  BY <1>1, TypeInit, TypeStep, WorkerStep, PTL DEF Spec

-----------------------------------------------------------------------------
(* A capture removes only what it was started for. *)

LEMMA CaptureStep ==
    ASSUME TypeOK, [Next]_vars, NEW s \in Slots,
           jobs[s].kind = "capture", jobs'[s] = NoJob, container' = NoGen
    PROVE  container \in {NoGen, jobs[s].gen}
<1>0. jobs \in [Slots -> JobType]
  BY TypeParts
<1>1. jobs[s] # NoJob /\ Orphaned(jobs)[s] # NoJob
  BY OrphanedType, <1>0 DEF NoJob
<1>2. CASE Poller \/ Monitor \/ User \/ Timers \/ MoveCard \/ UNCHANGED vars
  <2>1. \A js, job : Spawn(js, job) /\ js[s] # NoJob /\ js \in [Slots -> JobType]
                       => jobs'[s] = js[s]
    BY DEF Spawn
  <2>2. Orphaned(jobs) \in [Slots -> JobType]
    BY OrphanedType, <1>0
  <2>3. jobs'[s] \in {jobs[s], Orphaned(jobs)[s]}
    BY <1>0, <1>1, <1>2, <2>1, <2>2
    DEF Poller, PollFindsDisabled, PollRereads, PollEnforcesOff, PollSamples, PollApplies,
        ApplyOK, ApplyFrozen, ApplyNoEngine, ApplyFailing, ApplyFreeze,
        Monitor, MonitorSeesRemoval, MonitorChecks, MonitorStops, MonitorSeesInsert,
        User, Start, Stop, TurnOn, TurnOff, Timers, BudgetRunsOut, RetryFallsDue,
        MoveCard, vars
  <2> QED
    BY <1>1, <2>3
<1>3. ASSUME NEW r \in Slots, Task(r) PROVE container \in {NoGen, jobs[s].gen}
  <2>1. CASE r = s
    BY <1>0, <1>3, <2>1
    DEF Task, RecoveryBegins, HotplugSettles, HotplugChecks, StartIsCleared, StartIsRefused,
        Launch, RemoveOld, Create, CreateFails, StartSucceeded, StartFailed, StopEngine,
        Capture, StopCaptured, At, Starting
  <2>2. CASE r # s
    <3>1. jobs'[s] \in {jobs[s], Orphaned(jobs)[s]}
      BY <1>0, <1>3, <2>2, OrphanedType
      DEF Task, RecoveryBegins, HotplugSettles, HotplugChecks, StartIsCleared, StartIsRefused,
          Launch, RemoveOld, Create, CreateFails, StartSucceeded, StartFailed, StopEngine,
          Capture, StopCaptured, MoveTo, End, EndAndReset
    <3> QED
      BY <1>1, <3>1
  <2> QED
    BY <2>1, <2>2
<1>4. CASE RestartControl
  BY <1>4 DEF RestartControl
<1> QED
  BY <1>2, <1>3, <1>4 DEF Next

(* However late a diagnostic capture finishes, the container it removes is *)
(* the one whose failure it was started for (capture_and_stop).            *)
THEOREM CaptureNeverRemovesAReplacement == Spec => CaptureSparesReplacement
<1>1. TypeOK /\ [Next]_vars
        => [ \A s \in Slots :
               jobs[s].kind = "capture" /\ jobs'[s] = NoJob /\ container' = NoGen
                   => container \in {NoGen, jobs[s].gen} ]_vars
  BY CaptureStep
<1> QED
  BY <1>1, TypeInit, TypeStep, PTL DEF Spec, CaptureSparesReplacement
=============================================================================
