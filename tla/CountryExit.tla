----------------------------- MODULE CountryExit ----------------------------
(***************************************************************************)
(* One country exit and the lines that share it.  The control plane polls  *)
(* the lines, judges the frozen ones with ExitPolicy and writes reselect   *)
(* requests; ExitSelector serves them on the host.  The two sides meet     *)
(* only in two files, exit-reselect.json and proxy-status.json, so each    *)
(* decides on what the other last wrote.                                   *)
(***************************************************************************)
EXTENDS ExitSelector

CONSTANTS
    Carrying,               \* nodes over which a tunnel comes up
    StrikesPerNode,
    FailuresBeforeReport,
    MaxFailures             \* bound on the failures of one ledger life

ASSUME CountryAssumption ==
    /\ Carrying \subseteq Nodes
    /\ StrikesPerNode \in Nat \ {0}
    /\ FailuresBeforeReport \in Nat \ {0}
    /\ MaxFailures \in Nat

Policy == INSTANCE ExitPolicy

VARIABLES
    engine,         \* each line's engine: none, trying to register, registered
    shown,          \* lines whose status_cache entry says OK
    ledger          \* hub.exit_ledgers, equal to its file

VARIABLE    \* history, for the properties only
    seenAt          \* requests written when a line was first shown OK

lineVars == <<engine, shown, ledger, seenAt>>
vars == <<selectorVars, lineVars>>

TypeOK ==
    /\ SelectorTypeOK
    /\ engine \in [Lines -> {"none", "trying", "registered"}]
    /\ shown \in SUBSET Lines
    /\ ledger \in [Lines -> Policy!Ledger]
    /\ seenAt \in [Lines -> 0 .. MaxRequests]

Init ==
    /\ SelectorInit
    /\ engine = [l \in Lines |-> "none"]
    /\ shown = {}
    /\ ledger = [l \in Lines |-> Policy!BlankLedger]
    /\ seenAt = [l \in Lines |-> 0]

-----------------------------------------------------------------------------
Registered == {l \in Lines : engine[l] = "registered"}

(* An engine starts once the country's exit is published (ensure_line).    *)
Start(l) ==
    /\ engine[l] = "none"
    /\ published.node # NoNode
    /\ engine' = [engine EXCEPT ![l] = "trying"]
    /\ UNCHANGED <<selectorVars, shown, ledger, seenAt>>

Register(l) ==
    /\ engine[l] = "trying"
    /\ running \in Carrying
    /\ engine' = [engine EXCEPT ![l] = "registered"]
    /\ UNCHANGED <<selectorVars, shown, ledger, seenAt>>

Lose(l) ==
    /\ engine[l] = "registered"
    /\ engine' = [engine EXCEPT ![l] = "trying"]
    /\ UNCHANGED <<selectorVars, shown, ledger, seenAt>>

(* The status poller samples a line that is registered: its ledger goes.   *)
PollRegistered(l) ==
    /\ l \in Registered
    /\ l \notin shown
    /\ shown' = shown \cup {l}
    /\ ledger' = [ledger EXCEPT ![l] = Policy!BlankLedger]
    /\ seenAt' = [seenAt EXCEPT ![l] = mailbox.id]
    /\ UNCHANGED <<selectorVars, engine>>

(* It samples a line that is not, past the grace period.                   *)
PollFailing(l) ==
    /\ l \notin Registered
    /\ l \in shown
    /\ shown' = shown \ {l}
    /\ UNCHANGED <<selectorVars, engine, ledger, seenAt>>

(* A line spends its retry budget, its engine is stopped and the failure   *)
(* judged (apply_health, _judge_exit_failure): an exit that does not carry *)
(* is to blame, one that does may be cleared.                              *)
PossibleVerdicts == IF running \in Carrying THEN Policy!Verdicts ELSE {"exit"}

(* A faulty variant, which nothing uses except the run that shows that the *)
(* property notices: the sibling lines are not looked at.                  *)
JudgeAlone(l, verdict) ==
    Policy!Record(ledger[l], verdict, published.node, published.selection = "manual",
                  published.candidates, FALSE)

(* The failure of a line, with the exit as published and the siblings as   *)
(* shown.                                                                  *)
Judge(l, verdict) ==
    Policy!Record(ledger[l], verdict, published.node, published.selection = "manual",
                  published.candidates, \E o \in Lines \ {l} : o \in shown)

Freeze(l) ==
    /\ engine[l] = "trying" /\ l \notin shown
    /\ ledger[l].failures < MaxFailures
    /\ \E verdict \in PossibleVerdicts :
         LET out == Judge(l, verdict)
         IN  /\ ledger' = [ledger EXCEPT ![l] = out.ledger]
             /\ IF out.action = "switch" THEN RequestReselect(l) ELSE UNCHANGED mailbox
    /\ engine' = [engine EXCEPT ![l] = "none"]
    /\ UNCHANGED <<members, pin, singbox, memory, cycle, disturbances,
                   shown, seenAt>>

(* The control plane restarts: ledgers are on disk, the status cache is    *)
(* not.                                                                    *)
RestartControl ==
    /\ shown # {}
    /\ shown' = {}
    /\ UNCHANGED <<documents, singbox, memory, cycle, disturbances, engine, ledger,
                   seenAt>>

(* The host's steps.  Moving the exit changes the outer source address,    *)
(* which breaks every tunnel that runs over it.                            *)
Host ==
    /\ Cycle \/ Environment
    /\ engine' = IF running' = running THEN engine
                 ELSE [l \in Lines |-> IF l \in Registered THEN "trying" ELSE engine[l]]
    /\ UNCHANGED <<shown, ledger, seenAt>>

Next ==
    \/ \E l \in Lines :
          \/ Start(l) \/ Register(l) \/ Lose(l)
          \/ PollRegistered(l) \/ PollFailing(l)
          \/ Freeze(l)
    \/ RestartControl
    \/ Host

Spec == Init /\ [][Next]_vars

-----------------------------------------------------------------------------
(* Properties. *)

(* The exit leaves the node it is on because a reselect request was served.*)
MovedByRequest ==
    /\ pc = "ranking" /\ asked.id > 0
    /\ running' \in Nodes \ {running}

(* Once a line is shown registered, no request written after that moves    *)
(* the exit under it, for as long as it is shown: the sibling veto holds   *)
(* against every line of the country and across both files                 *)
(* (main._peer_line_registered, failover.record).                          *)
LaterRequestsSpareShownLines ==
    [][ MovedByRequest => \A l \in shown : asked.id <= seenAt[l] ]_vars
=============================================================================
