---------------------------- MODULE ExitSelector ----------------------------
(***************************************************************************)
(* The host orchestrator's side of one country exit in subscription mode:  *)
(* the reconcile cycle that renders the sing-box selector, (re)starts      *)
(* sing-box, serves the control plane's reselect request, and publishes    *)
(* the node in proxy-status.json (host/mdd_orchestrator.py).  A cycle is   *)
(* four steps, because the control plane and the operator write their      *)
(* documents while it runs.  Time is abstract: a cooldown, a warm-up, a    *)
(* retry delay or the age limit of a request passes in a step of its own.  *)
(***************************************************************************)
EXTENDS Integers, FiniteSets

CONSTANTS
    Nodes,              \* node names the subscription may offer
    NoNode,             \* the empty node name
    Lines,              \* the enabled lines of the country
    NoLine,             \* no line
    MaxAttempts,        \* EXIT_RESELECT_MAX_ATTEMPTS
    MaxRequests,        \* bound: reselect requests ever written
    MaxDisturbances     \* bound: operator, feed, process and host events

ASSUME SelectorAssumption ==
    /\ Nodes # {} /\ NoNode \notin Nodes /\ NoLine \notin Lines
    /\ MaxAttempts \in Nat \ {0}
    /\ MaxRequests \in Nat
    /\ MaxDisturbances \in Nat

VARIABLES
    \* documents other parties write
    members,        \* UDP-capable nodes of the feed that match the country
    pin,            \* the operator's pinned_node and pin_mode
    mailbox,        \* this country's entry of exit-reselect.json
    \* sing-box
    running,        \* the node the selector points at; NoNode: no process
    started,        \* last_proxy_fingerprint: the config last started well
    generated,      \* the config file on disk
    warm,           \* EXIT_RANK_WARMUP_SECONDS have passed since it started
    \* orchestrator memory and files
    lastExit,       \* last_exit_node
    unranked,       \* the country is in exit_unranked
    cooldown,       \* exit_cooldown
    retry,          \* reselect_retries
    handled,        \* handled_reselect, persisted
    published,      \* this exit in proxy-status.json, persisted
    \* the cycle in progress
    pc,             \* where the cycle is
    plan,           \* this cycle's exits_state
    asked,          \* the request this cycle ranks for; its reset is history:
                    \* the cooldown was cleared on the way
    disturbances    \* bound only

documents == <<members, pin, mailbox>>
singbox == <<running, started, generated, warm>>
memory == <<lastExit, unranked, cooldown, retry, handled, published>>
cycle == <<pc, plan, asked>>
selectorVars == <<documents, singbox, memory, cycle, disturbances>>

Unpinned == [mode |-> "none", node |-> NoNode]
Pins == {Unpinned} \cup [mode : {"lock", "prefer"}, node : Nodes]
Selections == {"managed", "preferred", "manual"}
Config == [members : SUBSET Nodes, default : Nodes \cup {NoNode}]
NoConfig == [members |-> {}, default |-> NoNode]
NoRetry == [id |-> 0, attempts |-> 0, waiting |-> FALSE]

SelectorTypeOK ==
    /\ members \in (SUBSET Nodes) \ {{}}
    /\ pin \in Pins
    /\ mailbox \in [id : 0 .. MaxRequests, node : Nodes \cup {NoNode},
                    line : Lines \cup {NoLine}]
    /\ running \in Nodes \cup {NoNode}
    /\ started \in Config /\ generated \in Config
    /\ warm \in BOOLEAN
    /\ lastExit \in Nodes \cup {NoNode}
    /\ unranked \in BOOLEAN
    /\ cooldown \in SUBSET Nodes
    /\ retry \in [id : 0 .. MaxRequests, attempts : 0 .. MaxAttempts - 1, waiting : BOOLEAN]
    /\ handled \in 0 .. MaxRequests
    /\ published \in [node : Nodes \cup {NoNode}, selection : Selections,
                      candidates : SUBSET Nodes]
    /\ pc \in {"idle", "built", "ranking", "settled"}
    /\ plan \in [selection : Selections, prefer : Nodes \cup {NoNode},
                 node : Nodes \cup {NoNode}, members : SUBSET Nodes]
    /\ asked \in [id : 0 .. MaxRequests, node : Nodes \cup {NoNode},
                  attempts : 0 .. MaxAttempts - 1, pool : SUBSET Nodes, reset : BOOLEAN]
    /\ disturbances \in 0 .. MaxDisturbances

SelectorInit ==
    /\ members = Nodes
    /\ pin = Unpinned
    /\ mailbox = [id |-> 0, node |-> NoNode, line |-> NoLine]
    /\ running = NoNode /\ started = NoConfig /\ generated = NoConfig /\ warm = FALSE
    /\ lastExit = NoNode /\ unranked = FALSE /\ cooldown = {}
    /\ retry = NoRetry /\ handled = 0
    /\ published = [node |-> NoNode, selection |-> "managed", candidates |-> {}]
    /\ pc = "idle"
    /\ plan = [selection |-> "managed", prefer |-> NoNode, node |-> NoNode, members |-> {}]
    /\ asked = [id |-> 0, node |-> NoNode, attempts |-> 0, pool |-> {}, reset |-> FALSE]
    /\ disturbances = 0

-----------------------------------------------------------------------------
(* The world outside a cycle. *)

Disturb ==
    /\ disturbances < MaxDisturbances
    /\ disturbances' = disturbances + 1

(* The operator pins a node, changes how it is pinned, or releases it.     *)
SetPin(p) ==
    /\ Disturb
    /\ p # pin
    /\ pin' = p
    /\ UNCHANGED <<members, mailbox, singbox, memory, cycle>>

(* The feed is refreshed and offers other nodes.                           *)
FeedChanges(offered) ==
    /\ Disturb
    /\ offered # members
    /\ members' = offered
    /\ UNCHANGED <<pin, mailbox, singbox, memory, cycle>>

(* egress.request_reselect: skipped while the published exit is locked.    *)
RequestReselect(l) ==
    /\ mailbox.id < MaxRequests
    /\ published.selection # "manual"
    /\ mailbox' = [id |-> mailbox.id + 1, node |-> published.node, line |-> l]

Pending == mailbox.id > handled

WarmUp ==
    /\ running # NoNode /\ ~warm
    /\ warm' = TRUE
    /\ UNCHANGED <<documents, running, started, generated, memory, cycle, disturbances>>

RetryDue ==
    /\ retry.waiting
    /\ retry' = [retry EXCEPT !.waiting = FALSE]
    /\ UNCHANGED <<documents, singbox, lastExit, unranked, cooldown, handled,
                   published, cycle, disturbances>>

(* A cooldown (900 s) outlives the request it was set for (600 s).         *)
CooldownOver(n) ==
    /\ n \in cooldown
    /\ pc # "ranking"
    /\ ~(Pending /\ retry.id = mailbox.id /\ mailbox.node = n)
    /\ cooldown' = cooldown \ {n}
    /\ UNCHANGED <<documents, singbox, lastExit, unranked, retry, handled,
                   published, cycle, disturbances>>

(* Faulty variants of a definition stand before it, named for the fault;   *)
(* nothing uses them except the runs that show a property notices.         *)
RestartForgetting ==
    /\ Disturb
    /\ running' = NoNode /\ started' = NoConfig /\ warm' = FALSE
    /\ lastExit' = NoNode
    /\ unranked' = FALSE /\ cooldown' = {} /\ retry' = NoRetry
    /\ pc' = "idle"
    /\ UNCHANGED <<documents, generated, handled, published, plan, asked>>

(* The orchestrator, and sing-box with it, stops and comes back: what is   *)
(* not in a file is gone, and the last exit is recovered from the status.  *)
Restart ==
    /\ Disturb
    /\ running' = NoNode /\ started' = NoConfig /\ warm' = FALSE
    /\ lastExit' = published.node
    /\ unranked' = FALSE /\ cooldown' = {} /\ retry' = NoRetry
    /\ pc' = "idle"
    /\ UNCHANGED <<documents, generated, handled, published, plan, asked>>

-----------------------------------------------------------------------------
(* The reconcile cycle. *)

Pinned == pin # Unpinned /\ pin.node \in members
Locked == Pinned /\ pin.mode = "lock"

(* The member the rendered selector defaults to: a lock first, then the    *)
(* node already carrying the tunnels, then a preference.                   *)
Default ==
    IF Locked THEN pin.node
    ELSE IF lastExit \in members THEN lastExit
    ELSE IF Pinned THEN pin.node
    ELSE CHOOSE n \in members : TRUE

Rendered == [members |-> members, default |-> Default]
Resumes == Default = lastExit

ThisPlan ==
    [selection |-> IF ~Pinned THEN "managed"
                   ELSE IF pin.mode = "prefer" THEN "preferred" ELSE "manual",
     prefer |-> IF Pinned /\ pin.mode = "prefer" THEN pin.node ELSE NoNode,
     node |-> NoNode,
     members |-> members]

(* apply_singbox, before the process is touched: only a country whose node *)
(* does not survive the rewrite starts over.                               *)
StartOver ==
    /\ unranked' = (unranked \/ ~Resumes)
    /\ lastExit' = IF Resumes THEN lastExit ELSE NoNode
    /\ warm' = FALSE

(* The rendered config is the one in use and the process is alive.         *)
Keep ==
    /\ pc = "idle"
    /\ running # NoNode /\ started = Rendered
    /\ plan' = ThisPlan
    /\ pc' = "built"
    /\ UNCHANGED <<documents, singbox, memory, asked, disturbances>>

(* It is not: sing-box restarts and the selector takes its default.        *)
Relaunch ==
    /\ pc = "idle"
    /\ running = NoNode \/ started # Rendered
    /\ StartOver
    /\ started' = Rendered /\ generated' = Rendered
    /\ running' = Default
    /\ plan' = ThisPlan
    /\ pc' = "built"
    /\ UNCHANGED <<documents, cooldown, retry, handled, published, asked, disturbances>>

(* sing-box died, or another country's exit changed the shared config.     *)
RelaunchForOther ==
    /\ Disturb
    /\ pc = "idle" /\ running # NoNode /\ started = Rendered
    /\ StartOver
    /\ running' = Default
    /\ plan' = ThisPlan
    /\ pc' = "built"
    /\ UNCHANGED <<documents, started, generated, cooldown, retry, handled,
                   published, asked>>

(* The new config is refused, or the new process exits during startup and  *)
(* the previous config is started again, with its own default.  Either way *)
(* the cycle ends there, publishing the exit without a node.               *)
RelaunchFails ==
    /\ Disturb
    /\ pc = "idle" /\ started # Rendered
    /\ StartOver
    /\ running' \in {running, generated.default}
    /\ published' = [node |-> NoNode, selection |-> ThisPlan.selection,
                     candidates |-> members]
    /\ UNCHANGED <<documents, started, generated, cooldown, retry, handled, cycle>>

(* Nothing to rank, or not yet.                                            *)
RetryKey == IF Pending THEN mailbox.id ELSE 0

Skip ==
    /\ pc = "built"
    /\ \/ ~warm
       \/ plan.selection = "manual"
       \/ ~Pending /\ ~unranked
       \/ retry.waiting /\ retry.id = RetryKey
    /\ pc' = "settled"
    /\ UNCHANGED <<documents, singbox, memory, plan, asked, disturbances>>

MayServeLocked == pc = "built" /\ warm

(* A warm exit that is not locked may be moved.                            *)
MayServe == pc = "built" /\ warm /\ plan.selection # "manual"

(* A request older than EXIT_RESELECT_MAX_AGE is no longer evidence.       *)
DropStale ==
    /\ MayServe /\ Pending
    /\ handled' = mailbox.id
    /\ retry' = NoRetry
    /\ pc' = "settled"
    /\ UNCHANGED <<documents, singbox, lastExit, unranked, cooldown, published,
                   plan, asked, disturbances>>

CoolingWithoutIt(attempts) == cooldown

(* The failed node enters its cooldown on the first attempt.               *)
Cooling(attempts) ==
    cooldown \cup (IF Pending /\ attempts = 0 THEN {mailbox.node} \ {NoNode} ELSE {})

(* A pool that is cooling down as a whole is released.                     *)
StartRanking ==
    /\ MayServe /\ (Pending \/ unranked)
    /\ ~(retry.waiting /\ retry.id = RetryKey)
    /\ LET attempts == IF retry.id = RetryKey THEN retry.attempts ELSE 0
           cooling == Cooling(attempts)
           reset == plan.members \subseteq cooling
       IN  /\ cooldown' = IF reset THEN {} ELSE cooling
           /\ asked' = [id |-> RetryKey, attempts |-> attempts,
                        reset |-> reset \/ (asked.reset /\ asked.id = RetryKey),
                        node |-> IF Pending THEN mailbox.node ELSE NoNode,
                        pool |-> IF reset THEN plan.members ELSE plan.members \ cooling]
    /\ pc' = "ranking"
    /\ UNCHANGED <<documents, singbox, lastExit, unranked, retry, handled,
                   published, plan, disturbances>>

Served == IF asked.id > 0 THEN asked.id ELSE handled

(* Some candidates answer: the preferred one wins, otherwise the fastest,  *)
(* which may be any of them.                                               *)
Select(usable, best) ==
    /\ pc = "ranking"
    /\ usable \subseteq asked.pool /\ best \in usable
    /\ plan.prefer \in usable => best = plan.prefer
    /\ running' = best
    /\ lastExit' = best
    /\ plan' = [plan EXCEPT !.node = best]
    /\ unranked' = FALSE
    /\ retry' = NoRetry
    /\ handled' = Served
    /\ pc' = "settled"
    /\ UNCHANGED <<documents, started, generated, warm, cooldown, published, asked,
                   disturbances>>

RankingFailsOnceMore ==
    /\ pc = "ranking"
    /\ IF asked.id > 0 /\ asked.attempts + 1 > MaxAttempts
       THEN /\ retry' = NoRetry
            /\ handled' = Served
       ELSE /\ retry' = [id |-> asked.id, waiting |-> TRUE,
                         attempts |-> IF asked.id > 0 THEN asked.attempts + 1 ELSE 0]
            /\ UNCHANGED handled
    /\ pc' = "settled"
    /\ UNCHANGED <<documents, singbox, lastExit, unranked, cooldown, published,
                   plan, asked, disturbances>>

RankingFailsForEver ==
    /\ pc = "ranking"
    /\ retry' = [id |-> asked.id, waiting |-> TRUE, attempts |-> asked.attempts]
    /\ pc' = "settled"
    /\ UNCHANGED <<documents, singbox, lastExit, unranked, cooldown, handled, published,
                   plan, asked, disturbances>>

(* None answers: the request is retried, and abandoned in the end; the     *)
(* first selection after a start keeps trying.                             *)
RankingFails ==
    /\ pc = "ranking"
    /\ IF asked.id > 0 /\ asked.attempts + 1 >= MaxAttempts
       THEN /\ retry' = NoRetry
            /\ handled' = Served
       ELSE /\ retry' = [id |-> asked.id, waiting |-> TRUE,
                         attempts |-> IF asked.id > 0 THEN asked.attempts + 1 ELSE 0]
            /\ UNCHANGED handled
    /\ pc' = "settled"
    /\ UNCHANGED <<documents, singbox, lastExit, unranked, cooldown, published,
                   plan, asked, disturbances>>

(* update_selected_nodes and the status write: the node is the one the     *)
(* Clash API reports, or, if it does not answer, the one chosen just now.  *)
Publish(answers) ==
    /\ pc = "settled"
    /\ LET node == IF answers THEN running ELSE plan.node
       IN  /\ published' = [node |-> node, selection |-> plan.selection,
                            candidates |-> plan.members]
           /\ lastExit' = IF node = NoNode THEN lastExit ELSE node
    /\ pc' = "idle"
    /\ UNCHANGED <<documents, singbox, unranked, cooldown, retry, handled,
                   plan, asked, disturbances>>

Cycle ==
    \/ Keep \/ Relaunch
    \/ Skip \/ DropStale \/ StartRanking
    \/ \E usable \in SUBSET Nodes, best \in Nodes : Select(usable, best)
    \/ RankingFails
    \/ \E answers \in BOOLEAN : Publish(answers)

Environment ==
    \/ \E p \in Pins : SetPin(p)
    \/ \E offered \in (SUBSET Nodes) \ {{}} : FeedChanges(offered)
    \/ RelaunchForOther \/ RelaunchFails \/ Restart
    \/ WarmUp \/ RetryDue
    \/ \E n \in Nodes : CooldownOver(n)

Ask ==
    /\ \E l \in Lines : RequestReselect(l)
    /\ UNCHANGED <<members, pin, singbox, memory, cycle, disturbances>>

SelectorNext == Cycle \/ Environment \/ Ask

(* The loop keeps cycling and its timers run out.                          *)
SelectorFairness == WF_selectorVars(Cycle) /\ WF_selectorVars(WarmUp \/ RetryDue)

SelectorSpec == SelectorInit /\ [][SelectorNext]_selectorVars /\ SelectorFairness

-----------------------------------------------------------------------------
(* Properties. *)

(* A rewrite of the sing-box config, a restart of sing-box and a restart   *)
(* of the orchestrator leave the exit on the node last published, as long  *)
(* as the feed offers it and no lock names another: only a failing line    *)
(* moves an exit, so a relaunch must resume (build_proxy_config).          *)
RelaunchKeepsTheExit ==
    [][ /\ pc = "idle" /\ pc' = "built"
        /\ published.node \in members /\ ~Locked
        /\ running \in {NoNode, published.node}
        => running' = published.node ]_selectorVars

(* A served request never lands on the node it was raised against, on any  *)
(* of its attempts, unless every candidate was cooling down and the whole  *)
(* pool was let back in (rank_and_select).                                 *)
FailedNodeAvoided ==
    [][ /\ pc = "ranking" /\ pc' = "settled"
        /\ asked.id > 0 /\ ~asked.reset
        /\ handled' = asked.id /\ lastExit' = running' /\ plan'.node # NoNode
        => running' # asked.node ]_selectorVars

(* An exit that sits on the node it is locked to, with a configuration on  *)
(* disk that says so, stays there, whatever requests are pending, whatever *)
(* restarts and whatever relaunch fails, until the operator or the feed    *)
(* changes (process_reselect_requests, build_proxy_config, apply_singbox). *)
LockHolds ==
    [][ /\ Locked /\ pin' = pin /\ members' = members
        /\ plan.selection = "manual" /\ running = pin.node /\ generated.default = pin.node
        => running' \in {running, NoNode} ]_selectorVars

(* Every request of the control plane is served, abandoned after its       *)
(* attempts or dropped for its age, so none stays pending for ever, unless *)
(* the exit is locked (process_reselect_requests).                         *)
RequestSettles == Pending ~> (~Pending \/ plan.selection = "manual")
=============================================================================
