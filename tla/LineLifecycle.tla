---------------------------- MODULE LineLifecycle ----------------------------
(***************************************************************************)
(* One line of the control plane (control/app/main.py) and its Docker      *)
(* engine container (control/app/engine.py): the status poller, the card   *)
(* monitor, the automatic recovery, the hotplug start, the diagnostic      *)
(* capture and the user's requests all start, replace and stop the same    *)
(* container, each in tasks that interleave at every await.  A task that   *)
(* calls Docker does so in a thread, so what it decided before the call    *)
(* may no longer be true when the call is made.                            *)
(* Abstract here: what the exit ledger decides (ExitLedger), the runtime   *)
(* cache (a read of the runtime sees the container), draft lines.  Time    *)
(* passes in the two timer steps.                                          *)
(***************************************************************************)
EXTENDS Integers

CONSTANTS
    Slots,          \* 1 .. number of tasks that may be in flight (a bound)
    Gens,           \* container ids; one is free again once nobody knows it
    MaxEvents       \* bound on user requests, card movements and restarts

ASSUME LifecycleAssumption ==
    /\ Slots \subseteq Nat /\ Gens \subseteq Nat \ {0}
    /\ MaxEvents \in Nat

NoGen == 0

VARIABLES
    enabled,    \* the line's configuration: user intent, persisted
    card,       \* the SIM is in the reader
    seen,       \* hub.cards: the monitor's view of it
    container,  \* the engine container of this name
    health,     \* hub.health[iid]
    poll,       \* the poll in progress
    monitor,    \* the card monitor
    jobs,       \* tasks in flight
    events,     \* bound only
    stopped     \* history: the user stopped the line; nobody has started
                \* it since

vars == <<enabled, card, seen, container, health, poll, monitor, jobs, events, stopped>>

Samples == {"none", "stopped", "no_card", "pin", "ok", "failing", "unanswered"}
Kinds == {"none", "recover", "hotplug", "start", "turn-on", "stop", "turn-off", "capture"}
Stages == {"begin", "check", "launch", "remove", "create", "created", "failed"}

BlankHealth ==
    [failing |-> "no", frozen |-> "no", retry |-> "never", retrying |-> FALSE]
NoJob == [kind |-> "none", at |-> "begin", bound |-> FALSE, gen |-> NoGen, enabled |-> FALSE]
NoPoll == [at |-> "idle", gen |-> NoGen, sample |-> "none"]

TypeOK ==
    /\ enabled \in BOOLEAN /\ card \in BOOLEAN /\ seen \in BOOLEAN /\ stopped \in BOOLEAN
    /\ container \in Gens \cup {NoGen}
    /\ health \in [failing : {"no", "counting", "spent"}, frozen : {"no", "fault", "pin"},
                   retry : {"never", "cooling", "due"}, retrying : BOOLEAN]
    /\ poll \in [at : {"idle", "enforce", "stop", "apply"}, gen : Gens \cup {NoGen},
                 sample : Samples]
    /\ monitor \in {"scan", "check", "stop"}
    /\ jobs \in [Slots -> [kind : Kinds, at : Stages, bound : BOOLEAN,
                           gen : Gens \cup {NoGen}, enabled : BOOLEAN]]
    /\ events \in 0 .. MaxEvents

(* A line that is up: its SIM is in the reader and its engine runs.        *)
Init ==
    /\ enabled = TRUE /\ card = TRUE /\ seen = TRUE /\ stopped = FALSE
    /\ \E g \in Gens : container = g /\ \A h \in Gens : g <= h
    /\ health = BlankHealth
    /\ poll = NoPoll
    /\ monitor = "scan"
    /\ jobs = [s \in Slots |-> NoJob]
    /\ events = 0

-----------------------------------------------------------------------------
(* Tasks and health records. *)

Event == events < MaxEvents /\ events' = events + 1

Job(kind) == [NoJob EXCEPT !.kind = kind]

(* A new task takes the first free slot.                                   *)
Spawn(js, job) ==
    \E s \in Slots :
        /\ js[s] = NoJob
        /\ \A r \in Slots : r < s => js[r] # NoJob
        /\ jobs' = [js EXCEPT ![s] = job]

(* Faulty variants of a definition stand before it, named for the fault;   *)
(* nothing uses them except the runs that show a property notices.         *)
ResetHealthPartly == health' = [failing |-> "no", frozen |-> "no", retry |-> "never"]

(* reset_health installs a new record: a recovery in flight keeps the one  *)
(* it was bound to, which nobody reads any more.                           *)
ResetHealth == health' = BlankHealth
Orphaned(js) == [s \in Slots |-> [js[s] EXCEPT !.bound = FALSE]]

MoveTo(s, stage) == jobs' = [jobs EXCEPT ![s].at = stage]
End(s) == jobs' = [jobs EXCEPT ![s] = NoJob]
EndAndReset(s) == ResetHealth /\ jobs' = [Orphaned(jobs) EXCEPT ![s] = NoJob]

At(s, kinds, stage) == jobs[s].kind \in kinds /\ jobs[s].at = stage
Starting == {"recover", "hotplug", "start", "turn-on"}

-----------------------------------------------------------------------------
(* The status poller: _poll_instance_status and apply_health. *)

(* What status.compute may report of an engine.                            *)
PossibleSamples(gen) ==
    IF gen = NoGen THEN {"stopped"}
    ELSE {"failing", "unanswered", "pin", "ok"} \cup (IF card THEN {} ELSE {"no_card"})

Sampled(gen, result) ==
    /\ result \in PossibleSamples(gen)
    /\ poll' = [at |-> "apply", gen |-> gen, sample |-> result]

(* A poll works on a snapshot of the configuration and the runtime.        *)
PollSamples(result) ==
    /\ poll.at = "idle" /\ enabled
    /\ Sampled(container, result)
    /\ UNCHANGED <<enabled, card, seen, container, health, monitor, jobs, events, stopped>>

PollFindsDisabled ==
    /\ poll.at = "idle" /\ ~enabled
    /\ poll' = [NoPoll EXCEPT !.at = "enforce", !.gen = container]
    /\ UNCHANGED <<enabled, card, seen, container, health, monitor, jobs, events, stopped>>

(* The snapshot said OFF: the configuration is read again.                 *)
PollRereads(result) ==
    /\ poll.at = "enforce"
    /\ IF enabled THEN Sampled(poll.gen, result) ELSE poll' = [poll EXCEPT !.at = "stop"]
    /\ UNCHANGED <<enabled, card, seen, container, health, monitor, jobs, events, stopped>>

PollForgivesOff ==
    /\ poll.at = "stop"
    /\ ResetHealth
    /\ jobs' = Orphaned(jobs)
    /\ poll' = NoPoll
    /\ UNCHANGED <<enabled, card, seen, container, monitor, events, stopped>>

(* It still is OFF: the engine of the snapshot, if any, is stopped.        *)
PollEnforcesOff ==
    /\ poll.at = "stop"
    /\ container' = IF poll.gen # NoGen THEN NoGen ELSE container
    /\ ResetHealth
    /\ jobs' = Orphaned(jobs)
    /\ poll' = NoPoll
    /\ UNCHANGED <<enabled, card, seen, monitor, events, stopped>>

(* apply_health, one action per branch, in the order of the code.          *)
ApplyOK ==
    /\ poll.sample = "ok"
    /\ ResetHealth
    /\ jobs' = Orphaned(jobs)

(* A frozen line is left alone until its recovery is due.                  *)
RecoveryIsDue == health.frozen # "pin" /\ health.retry = "due" /\ ~health.retrying

ApplyFrozenUnlessStopped ==
    /\ poll.sample # "ok" /\ health.frozen # "no"
    /\ IF RecoveryIsDue /\ poll.sample # "stopped"
       THEN /\ health' = [health EXCEPT !.retrying = TRUE]
            /\ Spawn(jobs, Job("recover"))
       ELSE UNCHANGED <<health, jobs>>

(* The branch of a frozen line, which comes before every other but OK.     *)
ApplyFrozen ==
    /\ poll.sample # "ok" /\ health.frozen # "no"
    /\ IF RecoveryIsDue
       THEN /\ health' = [health EXCEPT !.retrying = TRUE]
            /\ Spawn(jobs, Job("recover"))
       ELSE UNCHANGED <<health, jobs>>

ApplyNoEngine ==
    /\ health.frozen = "no"
    /\ \/ poll.sample = "stopped" /\ UNCHANGED health
       \/ poll.sample = "no_card" /\ health' = [health EXCEPT !.failing = "no"]
       \/ poll.sample = "pin" /\ health' = [health EXCEPT !.frozen = "pin", !.retry = "never"]
    /\ UNCHANGED jobs

(* The retry budget is spent, or the P-CSCF session is proven dead.        *)
Hopeless == poll.sample = "unanswered" \/ (poll.sample = "failing" /\ health.failing = "spent")

ApplyFailing ==
    /\ health.frozen = "no" /\ poll.sample = "failing" /\ ~Hopeless
    /\ health' = [health EXCEPT !.failing = "counting"]
    /\ UNCHANGED jobs

(* Freeze: capture and remove this container, and retry after a cooldown   *)
(* unless the exit was given up on.                                        *)
ApplyFreeze(gaveUp) ==
    /\ health.frozen = "no" /\ Hopeless
    /\ health' = [health EXCEPT !.failing = "spent", !.frozen = "fault",
                                !.retry = IF gaveUp THEN "never" ELSE "cooling"]
    /\ Spawn(jobs, [Job("capture") EXCEPT !.gen = poll.gen])

PollApplies ==
    /\ poll.at = "apply"
    /\ \/ ApplyOK \/ ApplyFrozen \/ ApplyNoEngine \/ ApplyFailing
       \/ \E gaveUp \in BOOLEAN : ApplyFreeze(gaveUp)
    /\ poll' = NoPoll
    /\ UNCHANGED <<enabled, card, seen, container, monitor, events, stopped>>

BudgetRunsOut ==
    /\ health.failing = "counting"
    /\ health' = [health EXCEPT !.failing = "spent"]
    /\ UNCHANGED <<enabled, card, seen, container, poll, monitor, jobs, events, stopped>>

RetryFallsDue ==
    /\ health.retry = "cooling"
    /\ health' = [health EXCEPT !.retry = "due"]
    /\ UNCHANGED <<enabled, card, seen, container, poll, monitor, jobs, events, stopped>>

-----------------------------------------------------------------------------
(* Tasks, one step per stretch between two awaits. *)

(* _auto_recover_instance: the health record is the one installed when the *)
(* task runs; the configuration is the one of the poll that created it,    *)
(* which said ON, and only the card is looked at again.                    *)
RecoveryBegins(s) ==
    /\ At(s, {"recover"}, "begin")
    /\ IF seen
       THEN /\ jobs' = [jobs EXCEPT ![s].bound = TRUE, ![s].at = "launch"]
            /\ UNCHANGED health
       ELSE EndAndReset(s)
    /\ UNCHANGED <<enabled, card, seen, container, poll, monitor, events, stopped>>

(* _auto_start_hotplugged_line: reads the configuration after settling.    *)
HotplugSettles(s) ==
    /\ At(s, {"hotplug"}, "begin")
    /\ jobs' = [jobs EXCEPT ![s].enabled = enabled, ![s].at = "check"]
    /\ UNCHANGED <<enabled, card, seen, container, health, poll, monitor, events, stopped>>

HotplugChecks(s) ==
    /\ At(s, {"hotplug"}, "check")
    /\ IF container = NoGen /\ seen /\ jobs[s].enabled
       THEN MoveTo(s, "launch") ELSE End(s)
    /\ UNCHANGED <<enabled, card, seen, container, health, poll, monitor, events, stopped>>

(* api_instance_start: the card is probed first, and may be refused.       *)
StartIsCleared(s) ==
    /\ At(s, {"start", "turn-on"}, "begin")
    /\ ResetHealth
    /\ jobs' = [Orphaned(jobs) EXCEPT ![s].at = "launch"]
    /\ UNCHANGED <<enabled, card, seen, container, poll, monitor, events, stopped>>

StartIsRefused(s) ==
    /\ At(s, {"start", "turn-on"}, "begin")
    /\ End(s)
    /\ UNCHANGED <<enabled, card, seen, container, health, poll, monitor, events, stopped>>

(* engine.start: wait for the country's exit, then find the old container, *)
(* capture its diagnostics and remove it, then run a new one.              *)
Launch(s) ==
    /\ At(s, Starting, "launch")
    /\ \/ jobs' = [jobs EXCEPT ![s].at = "remove", ![s].gen = container]
       \/ MoveTo(s, "failed")
    /\ UNCHANGED <<enabled, card, seen, container, health, poll, monitor, events, stopped>>

RemoveOld(s) ==
    /\ At(s, Starting, "remove")
    /\ container' = IF container = jobs[s].gen THEN NoGen ELSE container
    /\ jobs' = [jobs EXCEPT ![s].at = "create", ![s].gen = NoGen]
    /\ UNCHANGED <<enabled, card, seen, health, poll, monitor, events, stopped>>

KnownGens == {container, poll.gen} \cup {jobs[s].gen : s \in Slots}
Fresh(g) == g \in Gens \ KnownGens /\ \A h \in Gens \ KnownGens : g <= h

Create(s) ==
    /\ At(s, Starting, "create")
    /\ container = NoGen
    /\ \E g \in Gens : Fresh(g) /\ container' = g
    /\ MoveTo(s, "created")
    /\ UNCHANGED <<enabled, card, seen, health, poll, monitor, events, stopped>>

(* Docker refuses: another container has the name, or it is out of reach.  *)
CreateFails(s) ==
    /\ At(s, Starting, "create")
    /\ MoveTo(s, "failed")
    /\ UNCHANGED <<enabled, card, seen, container, health, poll, monitor, events, stopped>>

StartSucceeded(s) ==
    /\ At(s, Starting, "created")
    /\ IF jobs[s].kind \in {"recover", "hotplug"}
       THEN EndAndReset(s)
       ELSE End(s) /\ UNCHANGED health
    /\ UNCHANGED <<enabled, card, seen, container, poll, monitor, events, stopped>>

StartFailedQuietly(s) ==
    /\ At(s, Starting, "failed")
    /\ End(s)
    /\ UNCHANGED <<enabled, card, seen, container, health, poll, monitor, events, stopped>>

(* A recovery that raised is put back into its cooldown, in the record it  *)
(* was bound to; another start reports its error and leaves it there.      *)
StartFailed(s) ==
    /\ At(s, Starting, "failed")
    /\ health' = IF jobs[s].kind = "recover" /\ jobs[s].bound
                 THEN [health EXCEPT !.retrying = FALSE, !.retry = "cooling"]
                 ELSE health
    /\ End(s)
    /\ UNCHANGED <<enabled, card, seen, container, poll, monitor, events, stopped>>

(* api_instance_stop, after the reset: engine.stop.                        *)
StopEngine(s) ==
    /\ At(s, {"stop", "turn-off"}, "begin")
    /\ container' = NoGen
    /\ End(s)
    /\ UNCHANGED <<enabled, card, seen, health, poll, monitor, events, stopped>>

(* capture_and_stop: the generation is compared before the evidence is     *)
(* captured and again before the container is removed.                     *)
Capture(s) ==
    /\ At(s, {"capture"}, "begin")
    /\ IF container = jobs[s].gen THEN MoveTo(s, "remove") ELSE End(s)
    /\ UNCHANGED <<enabled, card, seen, container, health, poll, monitor, events, stopped>>

StopCapturedUnchecked(s) ==
    /\ At(s, {"capture"}, "remove")
    /\ container' = NoGen
    /\ End(s)
    /\ UNCHANGED <<enabled, card, seen, health, poll, monitor, events, stopped>>

(* The removal, if the container is still the one of the capture.          *)
StopCaptured(s) ==
    /\ At(s, {"capture"}, "remove")
    /\ container' = IF container = jobs[s].gen THEN NoGen ELSE container
    /\ End(s)
    /\ UNCHANGED <<enabled, card, seen, health, poll, monitor, events, stopped>>

Task(s) ==
    \/ RecoveryBegins(s) \/ HotplugSettles(s) \/ HotplugChecks(s)
    \/ StartIsCleared(s) \/ StartIsRefused(s)
    \/ Launch(s) \/ RemoveOld(s) \/ Create(s) \/ CreateFails(s)
    \/ StartSucceeded(s) \/ StartFailed(s)
    \/ StopEngine(s) \/ Capture(s) \/ StopCaptured(s)

-----------------------------------------------------------------------------
(* The card monitor. *)

MonitorSeesRemoval ==
    /\ monitor = "scan" /\ seen /\ ~card
    /\ seen' = FALSE
    /\ ResetHealth
    /\ jobs' = Orphaned(jobs)
    /\ monitor' = "check"
    /\ UNCHANGED <<enabled, card, container, poll, events, stopped>>

MonitorChecks ==
    /\ monitor = "check"
    /\ monitor' = IF container # NoGen THEN "stop" ELSE "scan"
    /\ UNCHANGED <<enabled, card, seen, container, health, poll, jobs, events, stopped>>

MonitorStops ==
    /\ monitor = "stop"
    /\ container' = NoGen
    /\ monitor' = "scan"
    /\ UNCHANGED <<enabled, card, seen, health, poll, jobs, events, stopped>>

(* The hotplug start is spawned unless one is in flight already.           *)
MonitorSeesInsert ==
    /\ monitor = "scan" /\ ~seen /\ card
    /\ seen' = TRUE
    /\ IF \E s \in Slots : jobs[s].kind = "hotplug"
       THEN UNCHANGED jobs
       ELSE Spawn(jobs, Job("hotplug"))
    /\ stopped' = FALSE
    /\ UNCHANGED <<enabled, card, container, health, poll, monitor, events>>

MoveCard ==
    /\ Event
    /\ card' = ~card
    /\ UNCHANGED <<enabled, seen, container, health, poll, monitor, jobs, stopped>>

-----------------------------------------------------------------------------
(* The user, and the control plane's own end. *)

Start ==
    /\ Event
    /\ Spawn(jobs, Job("start"))
    /\ stopped' = FALSE
    /\ UNCHANGED <<enabled, card, seen, container, health, poll, monitor>>

Stop ==
    /\ Event
    /\ ResetHealth
    /\ Spawn(Orphaned(jobs), Job("stop"))
    /\ stopped' = TRUE
    /\ UNCHANGED <<enabled, card, seen, container, poll, monitor>>

(* The reader's VoWiFi switch, one request at a time (capability_lock).    *)
SwitchIsFree == \A s \in Slots : jobs[s].kind \notin {"turn-on", "turn-off"}

TurnOn ==
    /\ Event
    /\ SwitchIsFree
    /\ ~enabled \/ container = NoGen
    /\ enabled' = TRUE
    /\ Spawn(jobs, Job("turn-on"))
    /\ stopped' = FALSE
    /\ UNCHANGED <<card, seen, container, health, poll, monitor>>

TurnOff ==
    /\ Event
    /\ SwitchIsFree
    /\ enabled
    /\ enabled' = FALSE
    /\ ResetHealth
    /\ Spawn(Orphaned(jobs), Job("turn-off"))
    /\ stopped' = TRUE
    /\ UNCHANGED <<card, seen, container, poll, monitor>>

(* The control plane restarts: memory and tasks are gone, containers run   *)
(* on, and the first scan finds every card newly inserted.                 *)
RestartControl ==
    /\ Event
    /\ seen' = FALSE
    /\ health' = BlankHealth
    /\ poll' = NoPoll
    /\ monitor' = "scan"
    /\ jobs' = [s \in Slots |-> NoJob]
    /\ UNCHANGED <<enabled, card, container, stopped>>

Poller == \/ \E result \in Samples : PollSamples(result) \/ PollRereads(result)
          \/ PollFindsDisabled \/ PollEnforcesOff \/ PollApplies
Timers == BudgetRunsOut \/ RetryFallsDue
Monitor == MonitorSeesRemoval \/ MonitorChecks \/ MonitorStops \/ MonitorSeesInsert
User == Start \/ Stop \/ TurnOn \/ TurnOff

Next ==
    \/ Poller \/ Timers \/ Monitor
    \/ \E s \in Slots : Task(s)
    \/ User \/ MoveCard \/ RestartControl

(* The event loop runs every task that can run, and cooldowns end.         *)
Fairness ==
    /\ WF_vars(Poller) /\ WF_vars(RetryFallsDue) /\ WF_vars(Monitor)
    /\ \A s \in Slots : WF_vars(Task(s))

Spec == Init /\ [][Next]_vars
FairSpec == Spec /\ Fairness

-----------------------------------------------------------------------------
(* Properties. *)

(* A health record that says it is retrying has a recovery task at work    *)
(* for it: otherwise the line would be frozen for ever, because            *)
(* apply_health starts no second recovery while the flag is up.            *)
RetryingHasAWorker ==
    health.retrying =>
        \E s \in Slots : jobs[s].kind = "recover" /\ (jobs[s].at = "begin" \/ jobs[s].bound)

(* A diagnostic capture that finishes late never removes a container that  *)
(* a restart, a recovery or a hotplug start has put in the place of the    *)
(* one it was started for (capture_and_stop).                              *)
CaptureSparesReplacement ==
    [][ \A s \in Slots :
            jobs[s].kind = "capture" /\ jobs'[s] = NoJob /\ container' = NoGen
                => container \in {NoGen, jobs[s].gen} ]_vars

(* A line that is switched off for good ends up without a container,       *)
(* whatever recovery, hotplug start or restart was in flight               *)
(* (_poll_instance_status).                                                *)
DisabledLineEndsStopped == <>[](~enabled) => <>[](container = NoGen)

(* A frozen line that was not given up on is retried: the fault is not     *)
(* final, whoever else starts, stops or resets the line meanwhile.         *)
FaultIsRetried ==
    (health.frozen = "fault" /\ health.retry # "never" /\ enabled)
        ~> (health.frozen # "fault" \/ health.retrying \/ ~enabled)

-----------------------------------------------------------------------------
(* What the source says of the line and the code does not keep. *)

RecoveryCreates(s) ==
    /\ At(s, {"recover"}, "create")
    /\ container = NoGen /\ container' # NoGen
    /\ jobs'[s].at = "created"

StopIsOver == stopped /\ \A s \in Slots : jobs[s].kind \notin {"stop", "turn-off"}

(* main.py, api_instance_stop: no pending recovery recreates a line that   *)
(* the user explicitly stopped.                                            *)
StopSticks == [][ StopIsOver => \A s \in Slots : ~RecoveryCreates(s) ]_vars
=============================================================================
