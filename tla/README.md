# A TLA+ model of the VoWiFi SMS and voice gateway

The gateway turns SIM cards in USB readers and modems into phone lines. For every line it
runs an engine (an IKEv2/ePDG tunnel and an Asterisk that registers with the carrier's IMS),
optionally behind a per-country exit through sing-box. This directory models the parts of it
in which several actors decide on each other's state: the control plane's status poller,
card monitor, recoveries and HTTP requests, and the host's orchestrator. Every definition is
translated from `src/`; `PROJECT.json` names the lines each definition stands for.

## The system

| component | state | operations | what is hard | correct when |
|---|---|---|---|---|
| exit failover policy (`control/app/failover.py`) | per-line ledger (strikes, tried nodes, failures, flags), persisted | classify, record | hundreds of failures on changing nodes, pins and siblings; restarts | nothing is announced twice, no node is abandoned before its strikes |
| exit selection (`host/mdd_orchestrator.py`) | selector, rendered config, cooldowns, request retries, handled requests, published status | reconcile cycle: render, relaunch, rank, publish | documents change under a cycle; restarts; rankings that fail | an exit moves only for a failure, a lock is kept, a request settles |
| country exit (`main.py`, `egress.py`, orchestrator) | status cache, request file, status file | freeze, judge, request, serve | two processes decide on what the other last wrote | a registered sibling keeps its exit |
| line lifecycle (`main.py`, `engine.py`) | configuration, card view, container, health record, tasks | poll, recover, hotplug start, capture, start, stop | every await is an interleaving; Docker calls run in threads | no line is stuck, no task destroys another's container, what is stopped stays stopped |
| IKEv2 engine (`engine/swu_ike.py`) | SAs, message ids, pending rekey, reply cache, probes, timers | attach, rekey of either SA, retransmit, probe, answer, delete | lost, late and repeated messages; rekeys and deletes of both ends crossing | the key in use is one the ePDG holds; a dead peer is noticed; a refused SIM is not tried again |
| SMS storage and routing (`store.py`, `main.py`) | history rows, delivery watchers | choose the route, send, watch the log | answers and reports that are late, lost or another message's; a crash between reservation and result | a message goes out once; a verdict is true and final |
| cellular SMS (`cellular_sms.py`, `store.py`, `main.py`) | marks of the program's own modem objects, import fingerprints | reserve, create, bind, send; list, claim, import, prune | a send that times out after it was sent; ModemManager restarts and reuses paths | the program's own messages are not imported, others' are not swallowed |
| SIM and reader access (`sim.py`, `card.py`, `usbreader.py`, `main.py`, `engine/pin_keeper.py`, `engine/ami_usim.py`) | reader locks, busy flags, the monitor's view, each engine's view; the cards' attempts and verified state | scan, probe, PIN command, start, unlock, authenticate | readers are addressed by an index that changes; engines take no lock; attempts are limited | no program spends the last attempt; a served line can unlock |
| eSIM (`lpa.py`, `estkme.py`, `main.py`) | reader locks, busy flags, downloads | profile operations, downloads, cancel | a reader shared with probes and hotplug starts | one user of a reader at a time |
| modems and device switches (`device_state.py`, `main.py`, orchestrator, `host/vpcd_modem_bridge.py`) | wishes, ports, identity documents, published status; bridges; radios | cycle: migrate, ModemManager, radios, ports, bridges, publish; switch, forget | files changed without a lock; bridges that die late; the host answers late | ports are distinct; each modem ends up as the file wishes |
| runtime cache and AMI (`runtime.py`, `ami.py`) | cached inspect, one client per generation | inspect, event, connect, drop | an inspect that finishes after a newer event | the cache ends up true, no client is orphaned |
| cellular calls (`cellular_call.py`) | the call and its audio | dial, answer, hang up | the modem and the caller both end it | no call is left open |
| authentication, notifications, Telegram, allowance, updates | sessions, queues, counters | | retries, throttling, an update that fails half way | |

The control plane is one asyncio process: between two awaits a task runs alone, at an await
any other task may run, and `asyncio.to_thread` lets Docker and file work overlap with all of
them. The orchestrator is a loop in another process. The two meet only in files under the
data directory (`desired.json`, `exit-reselect.json`, `proxy-status.json`, `devices-desired.json`,
`devices-status.json`), which are written by atomic replacement, so each side sees some whole
version of what the other wrote. A line's engine is a container with processes of its own (the
IKE process, Asterisk, the PIN keeper, the USIM bridge); it shares the SIM readers with the
control plane, and nothing but pcscd stands between them.

## The modules

| module | models | proofs |
|---|---|---|
| `ExitPolicy` | `failover.classify` and `failover.record` as operators on a ledger | |
| `ExitLedger` | one line's ledger, its file and the announcements | `ExitLedgerProofs` |
| `ExitSelector` | the orchestrator's reconcile cycle for one country | `ExitSelectorProofs` |
| `CountryExit` | several lines over one exit: `ExitSelector` and `ExitPolicy` composed | `CountryExitProofs` |
| `LineLifecycle` | one line's container and everything that starts and stops it | `LineLifecycleProofs` |
| `IkeAttach` | the attach of one IKE process: exchanges, rejects, address families | `IkeSessionProofs` |
| `IkeSession` | the tunnel and an ePDG over a lossy network (extends `IkeAttach`) | `IkeSessionProofs` |
| `TunnelKeys` | what a tunnel promises of its keys; `IkeSession` implements it | `IkeSessionProofs` |
| `CellularSms` | sending through the modem and the poller that imports from it | `MessagingProofs` |
| `Messaging` | both routes of a message, its history row, the delivery watchers (extends `CellularSms`) | `MessagingProofs` |
| `SimCards` | cards, readers, attempts, presenting a PIN | |
| `SimReaders` | the reader locks, the card monitor, cabling, hotplug starts (extends `SimCards`) | |
| `SimAccess` | PIN commands, eSIM operations, line starts, the engine's programs (extends `SimReaders`) | `SimAccessProofs` |
| `ModemHost` | the orchestrator's device cycle, bridges, ModemManager | |
| `Devices` | the control plane's switches over it (extends `ModemHost`) | `DevicesProofs` |
| `MC...` | the same for TLC | |

A definition that stands directly before another one with a similar name and says so in a
comment (`SaveNothing`, `RestartForgetting`, ...) is a faulty variant, used only to show that a
property notices the fault; no action refers to it.

### ExitPolicy, ExitLedger

`Record` is `record()` branch by branch, as a function from a ledger and the circumstances of
a failure to an action and a new ledger. The thresholds of `classify` compare measured
numbers, so `Classify` takes the outcome of the comparisons.

`ExitLedger` drives it. `Freeze` is the first half of `_judge_exit_failure` (record, save),
`Act` the second (write the request or dispatch the announcement), `Registered` the OK branch
of `apply_health`, `Restart` a restart of the control plane at any point. A save may fail
(`OSError` is logged and swallowed). What the exit looks like at a freeze is left free: any
node, pinned or not, any candidates, any sibling. What holds here therefore holds under every
behaviour of the host. `blamed` and `told` are history: they count what the properties are
about and no action reads them.

### ExitSelector

A cycle of `reconcile_proxy` is four steps, because the operator and the control plane write
their documents while it runs: it renders and perhaps relaunches sing-box (`Keep`, `Relaunch`,
`RelaunchForOther`, `RelaunchFails`), decides whether there is something to rank (`Skip`,
`DropStale`, `StartRanking`), ranks (`Select`, `RankingFails`), and publishes (`Publish`).
Latencies are abstract: any candidate of the pool may answer and any usable one may be the
fastest. The warm-up, the retry delay, the cooldown and the age of a request are timers that
run out in steps of their own; the cooldown (900 s) is kept longer than the request it was set
for (600 s), as the constants of the code have it.

### CountryExit

Each line has an engine and an entry in the status cache; `Freeze` reads the published exit and
the cached siblings, records the failure and may write a request. When the selector moves,
every registered tunnel over it breaks. The ledger is kept equal to its file here, which
`ExitLedger` treats separately.

### LineLifecycle

The line's container is a generation number (the container id). A task is a slot with a kind,
a stage and what it read before its last await; each of its steps is the stretch of code between
two awaits. `health` is the health record: `reset_health` installs a new one, so a recovery in
flight keeps a record that nobody reads (`bound` becomes false). A poll reads the configuration
and the container first (`PollSamples`, `PollFindsDisabled`) and applies its sample later
(`PollApplies`, one disjunct per branch of `apply_health`). `Launch`, `RemoveOld`, `Create` are
`engine.start`, whose Docker calls of several tasks overlap; `Capture` and `StopCaptured` are
`capture_and_stop`. A restart of the control plane loses every task and every record and leaves
the container running.

Left out: draft lines, deletion and reprovisioning, native mode (where the container id is a
constant and the generation check of a capture does nothing), the AMI client and the
runtime cache (a poll sees the container as it is), several lines, and the modem's half
of the device switch.

### IkeAttach, IkeSession, TunnelKeys

`IkeAttach` is `start_ike`: IKE_SA_INIT with its resends, cookie and other group, IKE_AUTH,
EAP-AKA with its repeated challenges, the final IKE_AUTH, and the ladder of address families an
automatic line climbs. The SIM and the ePDG choose how an exchange ends; the code chooses
what follows (`_reject_guard`: wait, give up, next attempt, next family).

`IkeSession` continues with `state_connected`. `Tick` is one wake of its loop: probe or give up,
retransmit or time out. `RekeyDue` proposes a rekey of the child or of the IKE SA, `Receive` takes
any message that was ever sent and not yet outlived (so messages are late, repeated, reordered,
or lost by never being taken), and `Epdg` is the other end. One thing is assumed of the network
(`InTime`): a request of the ePDG is no longer under way when the ePDG has followed it up with as
many others as the cache of replies holds. An IKE SA is a number, a key is
the IKE SA it was derived from and the two contributions, so two keys are equal in the model
exactly when the derivations are. `cache` is the cache of replies with its bounded length, found by
exchange type and message id. The ePDG is not part of the sources: it is strict about message ids
(window 1), repeats a reply verbatim and deletes what was replaced.

`TunnelKeys` says what all this is for: the key in use is one the other end holds, and it
is exchanged for another one only after the other end has that one. `KeepsKeys` is the refinement:
`here` is the key of the connected process, `there` what the ePDG holds. Two things that happen after
a switch break this (`crossed`, see below): a request of the retired IKE SA is handled, and the
reply cache may then answer for the wrong SA; or a late response of the retired SA is taken for that of
the rekey in flight, since only ids are compared. The mapped tunnel counts as broken from there on, and
the invariants say `~crossed`, so what is shown is that these are the only ways. A response of the
other kind moves the SA it speaks of and leaves the rekey in flight with its response spent
(`answered`); that rekey then runs into its time-out, and `RekeyEnds` includes that. After a crossing
SAs with equal numbers need no longer have equal keys at both ends, and no property speaks of them.

Left out: packet formats and cryptography (names of keys), the ePDG's own ESP rekey
(`SWU_ACCEPT_EPDG_ESP_REKEY`, off by default), the kernel's routes and policies, a change of
network, the reason kept in the status file.

### CellularSms, Messaging

ModemManager makes an object for every message under a path it counts from 0 in each run of
the daemon (`epoch`). A send reserves a durable mark (`CellularStart`), makes the object
(`Create`), binds the mark to its path (`Bind`), sends (`Send`) and records the verdict
(`SendAnswered`, `RecordVerdict`); each of them may fail, time out after it took effect, or answer
with nothing that can be read. The poller reads the epoch, then the list, then each object,
and imports what no mark claims (`Poll`). A mark that is not bound within five minutes claims nothing
any more, and after a day a mark whose object a whole listing does not show is pruned. The marks are
a set of table rows, ordered by id: `older` holds the requests whose marks have a smaller one, and
`Newest` is the query's `ORDER BY created_ts DESC,id DESC LIMIT 1`. `DaemonRestarts` drops drafts and sent objects and gives received ones other paths;
`Crash` is a restart of the control plane with `lifespan`'s settling of what was pending.

`Messaging` adds the route (`SendVowifi`, `SendAuto`), Asterisk's answer or its absence
(`AmiAnswers`), the engine's log and the watchers that look through it for a report
(`Watch`, `WatchEnds`). `aired`, `mishaps` and `shown` are history: how often a message went
out, what befell its send, and what the poller imported; no action reads them.

Left out: conversations, search and deletion of rows, usage counters, the one-minute cache of
message details, objects without text, received messages' push. Paths are taken in the order of
the list. The age of a mark (`TimePasses`) advances for all marks at once, while no send and no poll is
under way.

### SimCards, SimReaders, SimAccess

`SimCards` is the hardware: the order in which pcscd lists the readers, the SIM in each, attempts
and the verified state. A command that presents a PIN looks at the attempts in the same PC/SC
transaction, so it is one step; a request that makes two such accesses, which may meet two cards, is two
(`CommandsPin` and `ReadsVerified`, `PreflightProbes` and `PreflightVerifies`). `SimReaders` has the locks
per reader name, `lpa_busy`, the card
monitor (scan, probe each reader under its lock, publish; a probe that finds the lock
taken or loses its reader gives up) and the hotplug starts it schedules. `SimAccess`
has what a person asks for (a PIN command, an eSIM operation or download, a start or stop) in the
steps between two awaits, and the engine: the keeper finds the card and holds it, the USIM
bridge and the IKE process find it by port, by identity or by going through all of them, and
present the saved PIN when the card asks for it. `line` is a line's saved configuration and `engine` its
container, which keeps the port, index and PIN it was made with until it is replaced; the IKE process
turns the port into an index once, when it starts (`SwuStarts`), and every attempt of it addresses that
index, whichever reader has it by then (`SwuUnlocks`). Starting a line that runs replaces its container,
and the card its keeper had held closes (`Launch`).

A reader's name, its USB port and its socket are one value. Left out: draft lines and provisioning, the
files read from a card, readers with several slots, the suppression of probes, pcscd's own
maintenance. All cards ask for a PIN, each for another one, and enabling or disabling the
PIN is a command with a PIN like a verification.

### ModemHost, Devices

A cycle of the orchestrator finds the modems and folds the id of one that moved, starts
ModemManager, applies each modem's wish to its radio, assigns ports, starts and stops bridges and
publishes (`Host`, one action per stretch between two looks at something others change; the ports read in
`HostReconciles` are written back in `HostConcludes`). A radio that cannot be switched keeps what was noted
of it and is tried again in the next cycle; data is disconnected before the radio is to go off, whether
that succeeds or not (`Failures`). A bridge
reports its modem's identity, may die, and once terminated ends in a step of its own, which may
write its document late. `Devices` adds the requests: `AskSwitch` stops the line
and asks, `SetReads` and `SetWrites` are the read and the write of `devices-desired.json`,
`SwitchSucceeds` and `SwitchFails` what the wait ends with. Forgetting a device looks at it, awaits, and then
takes it out of three files and deletes its identity document, one after the other: for each file a
read and a write (`ForgetReadsWishes` to `ForgetUnlinks`), between which only the orchestrator runs.
What a switch's wait answers, and the line it stops and starts again, are in the model for the sake of the
requests they admit; no property is about the answer yet (see the plan).

The modems have no serial number, so an id is a USB path and a modem that moves must be
recognised by its IMEI. Left out: modems with serial numbers, USB resets, the maintenance window and
reader configuration, systemd restarting ModemManager by itself. Folding an id touches four files in
one step.

## The runs

| run | cfg | shows |
|---|---|---|
| exit_ledger | `MCExitLedger` | announcements are not repeated, no node is abandoned early, stop and slow cadence exclude each other |
| exit_selector | `MCExitSelector` | relaunches and restarts keep the exit, a served request leaves the failed node, a lock is not moved, requests settle |
| country_exit | `MCCountryExit` | no request written after a line was shown registered moves the exit under it |
| line_lifecycle | `MCLineLifecycle` | no orphaned retry flag, captures spare replacements, frozen lines are retried, a line that stays off ends up stopped |
| ike_session | `MCIkeSession` | the key in use is one the ePDG holds, message ids are not reused, rekeys end; `IkeSession` implements `TunnelKeys` |
| ike_liveness | `MCIkeLiveness` | a dead ePDG is noticed, the attach settles, families change only after the SIM was accepted; handlers run once, and the reply cache answers with a request's own reply |
| messaging | `MCMessaging` | a message goes out at most once, verdicts are true and final, no send is orphaned, and whose message the poller takes an object for |
| sim_access | `MCSimAccess` | no last attempt is spent, verified cards are spared, a served line gets its card verified again |
| devices | `MCDevices` | ports stay apart in the file; radios and running bridges end up as wished |

Three more configurations each check one statement of the source that the code does not keep;
TLC's counterexample is the evidence: `MCLineStop`, `MCSimStart` and `MCSimTries`, under "What the
code does not keep".

### Bounds

* `MCExitLedger`: two nodes, two strikes, a report after three failures, five failures per
  ledger life (any number of lives). Two nodes are enough for strikes to be interrupted by
  another node and for a pool to be partly and wholly tried; five failures are enough to pass
  both thresholds, be exonerated and exhaust again. The code's 3 and 6 are larger values
  of the same parameters, and the proofs cover all of them.
* `MCExitSelector`: two nodes, one line, two attempts per request, one request, three
  disturbances (pin changes, feed changes, relaunches for another country, failed relaunches,
  restarts). Three disturbances allow a lock, another lock and a relaunch that fails between them.
* `MCCountryExit`: two nodes of which one carries, two lines, one strike, two requests, no
  disturbances. The requests, the veto, both lines' polls and the cycle interleave freely;
  pins, feeds and restarts are the business of `MCExitSelector`.
* `MCLineLifecycle`: two tasks in flight, four generations, one event (a request, a card
  movement, a restart). Two tasks are a recovery and a stop, a capture and a start, two starts; polls,
  recoveries, captures and hotplug starts need no event.
  Four generations are never all known at once where `Create` needs a fresh one (the name is
  free then), and a fifth one adds no state. After the one event the liveness properties must hold for
  ever; the others are proved for any number of events. `MCLineStop` has two.
* `MCIkeSession`: one address family, two transmissions of a rekey, one probe, a cache of two
  replies, three rekeys of any kind (so up to four IKE SAs), one request of the ePDG, and probes while
  the ids of an IKE SA are below two. Child and IKE rekeys follow one another and a delete of the ePDG
  crosses them. The first IKE SA starts at id 4 and every later one at 0, so a rekey of the second and a
  rekey of the third are the first two whose ids coincide: three is the least number with which a
  late response can be taken for another. The code's cache of 16 is a larger value of `CacheLimit`,
  for which the theorems hold as well.
* `MCIkeLiveness`: two families, both modes, two probes, one rekey, two requests of the ePDG. Each
  timer can run out with another one in flight, and one request before and one after an IKE rekey are
  what it takes to repeat an id across the switch.
* `MCMessaging`: two requests and another program's message with the same recipient and text, one
  fault (a restart of ModemManager or of the control plane), two log entries, nothing received. Equal texts are the hard case: marks are
  claimed by text. The two requests are interchangeable, and the symmetry set says so (no liveness
  is checked there).
* `MCSimAccess`: two readers of which one may be plugged in only later, two SIMs in both or on one eUICC,
  right saved PINs (each is a wrong one for the other card, and persons may type any), two events (a reader
  or card moves, or a person asks for something) with the monitor, hotplug starts and engines running
  throughout. Two events are a card that goes and comes back, or a person's request crossed by a move or
  by another request. The two safety properties are proved for any number of readers, SIMs and
  events, saved PINs that are wrong included. `MCSimStart` and `MCSimTries` add wrong saved PINs.
* `MCDevices`: two ids, two modems, two events (a modem comes or goes, something dies or restarts, a
  person asks). Two events are a switch and a move, two crossing requests, a request and a death. Either
  both modems are seated or one has moved since; the wishes file has a wish for the first id, and the
  identity documents name the modem that was there, which is what folding an id needs. What other
  documents an earlier run may have left is not varied.

### Fairness

`SelectorFairness`: the orchestrator's loop cycles for ever (`loop`), and the warm-up and the
retry delay are comparisons with a clock. `Fairness` of `LineLifecycle`: the poller and the
card monitor are infinite loops that catch every exception, a task that can run is run
by the event loop (weak fairness for each slot), and a cooldown is a comparison with the
clock. `IkeSession`: the attach runs by itself, and `state_connected` selects with a timeout until
whichever timer is next; the network and the ePDG owe nothing. `SimAccess`: Asterisk registers
again and again, and every registration asks the USIM bridge to unlock; the monitor and the keeper
owe nothing to the property, and persons who type wrong PINs may spend the attempts it needs.
`Devices`: the orchestrator's loop again, and ModemManager claims a modem that is there and not yet
claimed; of the control plane nothing is assumed, not even that it ends a request it began. No fairness is assumed of a person, of cabling, of cards, of the outcome of a start
or a ranking, of the feed, or of which sample a poll obtains.

`CHECK_DEADLOCK` is off in `MCMessaging`, `MCSimAccess`, `MCSimStart` and `MCSimTries`: there the requests and
events run out, nothing recurs, and the system may rest. It is on everywhere else.

## The proofs

`ExitLedgerProofs` proves for every set of nodes, every `StrikesPerNode` and
`FailuresBeforeReport` above zero and every `MaxFailures` that the six invariants of
`exit_ledger` are invariants. None of them is inductive. Two facts carry the argument. First,
a restart may replace memory by the file at any time, so everything is stated for both: a
ledger in memory that is not the file's implies a failed save. Second, history counts what was
dispatched, while the flags in the ledger say what was decided: what was told plus what is
still to be told never exceeds what the flags `reported`, `given_up` and `exhausted` admit.
The inductive invariant is the conjunction `LedgerInv` (types, the exclusion of the two flags
for memory and file, and the history relations); each action has a lemma that it is preserved.

`LineLifecycleProofs` proves for any number of slots, generations and events the type
invariant, `RetryingHasAWorker` (inductive together with the type invariant: the lemmas follow
the worker through spawns, resets and stages) and the action property
`CaptureSparesReplacement`.

`CountryExitProofs` proves for any nodes, lines and bounds the type invariant of `country_exit`,
`LaterRequestsSpareShownLines`, and that the shared exit is the exit of `ExitSelector`: every step
of the lines and of the host is a step of `SelectorNext` or leaves its variables alone
(`SharingKeepsTheSelector`), so its theorems hold of the shared exit too. The veto of a sibling is
read when a request is written and the selector moves two files later, which makes the property
look like a race; the invariant `NothingNewer` says why it is none: as long as a line is
shown, the mailbox holds no request newer than what the poller saw when it showed the line, for the only
writer reads the veto in the same step, and a request being served is never newer than the mailbox.

`ExitSelectorProofs` proves for any nodes, attempts, requests and disturbances the type invariant
of `exit_selector` and its three action properties. They rest on what the orchestrator remembers
between steps (`SInv`): between cycles the last exit is the published one, which makes a relaunch
resume it; between the attempts of one request the failed node stays in its cooldown (or the whole
pool was released), so a retry cannot return to it, though the retry itself does not put it
there again; a ranking is never begun under a lock.

`IkeSessionProofs` proves every safety property of the two IKE runs and the refinement, for any number of
IKE SAs, contributions, transmissions, families and messages under way. Messages stay on the net,
so an invariant has to say of every packet that may still arrive what is true when it does
(`IInv`): `IdsInv`, that its id was passed by its sender and stands for no other packet
(`SameIdSameBytes`); `TokensInv` and `DeletesInv`, that its contribution was drawn, that no two
children share one, that a delete the process asked for or answered names an older key than the
one in use, and one the ePDG asks for no newer key; `MatchInv`, that a reply is to what was asked under its id; `GrantedInv`, that the ePDG has the child which the awaited
answer grants. The last four and the agreement of the ends hold as long as the IKE SA is `Holding`,
that is up, not crossed and with the ePDG alive. `CacheInv` and `ServedInv` count: the replies kept are
to the last requests handled on the current SA, so a repeated request that is in time finds its
own (`HandledOnce`, `UnshadowedUnlessCrossed`). Each action is first reduced to a shape (`Step`)
that says of each variable what the invariant reads, and each part of the invariant is then kept by
each shape. `KeysAreKept` is the refinement of `TunnelKeys`: every step establishes or breaks the
abstract tunnel, offers, retires or switches to a key of it, or leaves it alone.
`FamilyChangesAfterSimAuth` follows from a small invariant of the attach.

`MessagingProofs` proves every property of `messaging`, for any number of requests, messages of others,
restarts and crashes, with two invariants. `MInv` says of the send under way what it has done so far
(nothing is on the air before the object is bound; a message on the air whose epoch is over has the
daemon's restart on record), of every row what its status admits, and of the watchers that each
belongs to a VoWiFi row still called sent and that no row has two: without the last, one watcher's verdict
could be turned over by the other. It gives `AiredAtMostOnce`, `FailedNeverAired`, `PendingHasSender` and
`VerdictsStand`.

`OInv` says whose object is whose, and gives `OwnNotImported`, `MarksNameTheirOwn` and the type
invariant. An object of a request that is not excused by a mishap is guarded (`GuardInv`): a mark
of its epoch is bound to its path or is unbound, recent and not withdrawn. Four things keep it so.
Before `Create` the send's own mark is there (`SendInv`). Binding a mark drops another only from the same path,
and paths are unique in one epoch (`ObjectsInv`, the table's index in `MarksTypeOK`). Reserving and
pruning drop only what is a day old; the poll that prunes knows the epoch of each such mark to be
no later than the one it read, and has every object of that epoch in its list (`ScanInv`), so
what it drops guards nothing. And a claim that takes the mark of another request is on record. What the
poller finds unmarked in its own epoch is therefore excused or not the user's (`FoundInv`), also when it
is imported several steps later. The lemma `DescendKeeps` covers the steps that change marks in
place, `BindsKeeps` both ways of binding, `FewerMarks` pruning.

`SimAccessProofs` proves for any number of readers, SIMs and events `TryLeft` and
`VerifiedCardSpared`. The strengthening is that a card whose PIN stands verified has all its
attempts: a program that finds the card asking looks at the attempts first, and one that finds it
verified presents nothing, so only a person's wrong PIN costs a verified card an attempt, and
that one from three to two. `TryLeft` is about the last attempt and no more: the guard lets a PIN through at
two attempts, so a card may well be left with one (`MCSimTries`); from there no program presents a PIN.

`DevicesProofs` proves for any finite set of ids and any modems `PortsApart`. The orchestrator and a
request to forget a device each write the ports from a copy they read before, so the invariant
(`PInv`) says that ports are apart in the file and in either copy; a stale copy is then harmless to
the property. That what the orchestrator assigns is apart is a count: there are as many ports as ids, a port is in use only by a device
that is there and had it before, hence at least as many ports are free as there are devices
without one, and the k-th such device finds the k-th free port. Lemmas on the rank of an element
in a finite set of numbers (it is between 1 and the cardinality, it tells elements apart, and every
value is taken) make this precise.

The assumptions are the named ones on the constants (`PolicyAssumption`, `MaxFailuresAssumption`,
`SelectorAssumption`, `CountryAssumption`, `LifecycleAssumption`, `AttachAssumption`, `SessionAssumption`,
`CellularAssumption`, `MessagingAssumption`, `SimCardsAssumption`, `SeatingsAssumption`, `IdsAssumption`),
and each is evaluated by a run. `CellularAssumption` keeps requests, others' and received messages
apart, since they are names for messages; the others bound numbers from below and fix sorts.

Only model-checked: the liveness properties (`RequestSettles`, `FaultIsRetried`,
`DisabledLineEndsStopped`, `RekeyEnds`, `DeadPeerNoticed`, `AttachSettles`, `RunningLineUnlocks`,
`WishesCarriedOut`), since the prover has no rule for fairness and ENABLED. Every safety
invariant and action property of a passing run is a theorem. Two details of the models are there because
of the proofs, and TLC checks the same definitions: the marks are a set and not a sequence, since what a
filter over a sequence returns needs an induction the prover cannot instantiate, and the
number of requests an ePDG makes on an IKE SA is typed a natural number, its bound being a sum over all SAs.

## What the code does not keep

Three statements of the source are refuted by a run; the quotations are in `PROJECT.json`.

* `MCLineStop`: a recovery in flight recreates the engine after a stop that is over. A card
  removal, which also resets the health record and stops the engine, is overtaken in the same way.
* `MCSimStart`: a line bound to a USB port starts on another SIM that the monitor has identified
  in that port (`main.py:2400`).
* `MCSimTries`: a PIN is presented to a card with exactly two attempts left. The comments forbid it "when
  <= this many attempts remain" (`sim.py:27`) and "when only this many attempts remain"
  (`pin_keeper.py:71`), and this many is two; the code refuses below two (`sim.py:375`, `466`, `493`, `521`,
  `pin_keeper.py:392`), so a wrong PIN leaves one attempt.

The models also contain the following behaviours, which no document of the repository forbids or
which the properties except by name.

* Exits: a lock set just after a reselect moved the selector renders the config already in use,
  and a locked exit is not ranked, so it does not take effect (`mdd_orchestrator.py:1393`); and if a
  relaunch for a lock fails, the configuration started again may name another node than the one the
  exit sits on, which is why `LockHolds` asks for a configuration with the lock (`:1433`). The sibling
  veto is consulted when a request is written, not when it is served (`:1306`). An exhausted line
  ignores a node the feed has added since (`failover.py:142`).
* Lines: the poll's stop of a disabled line carries no generation and can remove the container of an
  enable request (`main.py:1501`). A failed hotplug start is only logged (`main.py:608`).
* Tunnel: the reply cache is searched by exchange and id, not by SA, so after an IKE rekey
  a late request of the old SA may answer one of the new (`swu_ike.py:1316`, `4915`); a late duplicate of a
  rekey response of the old SA is accepted by its id, even if it is of the other kind (`4843`, `4898`); a probe or delete that is lost leaves a gap in the
  ids, which a peer with a window of one does not pass; a reject that must not be retried ends a
  pinned line but sends an automatic one to the next family (`660`).
* Messages: an own draft is imported if ModemManager restarts between reservation and
  `Create`; the poller reads the epoch before the list (`cellular_sms.py:461`); another program's
  equal message may take an unbound mark (`store.py:552`); a received message that comes back under
  another path is imported again, for the path is in its fingerprint (`store.py:519`); a VoWiFi send
  without an answer is called failed though it may have left (`main.py:3980`), and one that is pending
  at a crash stays so; a SIP 2xx without a report counts as delivered (`main.py:3917`).
* SIMs: a PIN command goes to the index it looked up, whichever reader that is by then
  (`main.py:2125`); an eSIM operation looks for an engine before it has the lock (`2282`), a download
  makes its claim after an await (`4686`), and another operation may remove it (`2294`); a probe that was given
  up leaves a card unidentified until it moves (`500`); the keeper gives a lost card up only when no reader
  at all is left (`pin_keeper.py:465`); without a port, the USIM bridge presents a PIN to each card in turn
  (`ami_usim.py:287`); the IKE process goes on with the index it looked up at its start when readers are
  numbered anew (`swu_ike.py:6451`); changing a PIN leaves the saved one as it was (`main.py:2158`).
* Modems: `devices-desired.json` is read, changed and written by two processes without a lock
  (`device_state.py:145`, `mdd_orchestrator.py:1597`), so a wish or a migration may be lost; forgetting
  a device that has just come back frees the port of a live bridge (`main.py:3064`); a
  status from before a request may answer it (`main.py:3121`); a bridge that ends late writes back the identity
  of a device that was retired (`mdd_orchestrator.py:1708`); a bridge outlives ModemManager and serves
  nobody (`vpcd_modem_bridge.py:326`); after the 120 s wait the line is resumed while the wish stays (`main.py:3240`).

## Not modelled, and the plan

In this order:

1. `RuntimeCache`: `RuntimeRegistry` and `Hub.ami_for`/`drop_ami`; abstract promise: the cache
   ends up equal to the container, and no live client points at a removed one. `LineLifecycle`
   reads the container as it is.
2. `ExitRoutes`: ePDG addresses, their retention and ownership by country; the rest of the network
   reconciliation is recomputed from the documents every cycle.
3. Cellular calls: who ends a call, and what is left of its audio.
4. The update transaction of `mdd_update` with its rollback; sessions and throttling of logins;
   the queue of notifications.
5. What a device switch answers (`Observed`, `Answer`): what has to be true of the modem when the wait
   ends with success, given that a status from before the request may end it. The model has the wait, the
   line and the bridge's object for it.

Not planned: line configuration and validation (pure functions over documents), rendering of the
engine's templates, host facts and logs (input and output), the web interface (views over the API), the
installer and third-party patches.

Theorems worth proving next: type invariants of `SimAccess` and `Devices`, beyond the cards and the
ports that their theorems need, and the invariants of each new module.
