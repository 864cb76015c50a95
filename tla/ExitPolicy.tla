----------------------------- MODULE ExitPolicy -----------------------------
(***************************************************************************)
(* The decision procedure of control/app/failover.py: who is blamed for    *)
(* one failure of a line (classify) and what a run of blamed failures does *)
(* to the line's ledger (record).  Both are pure functions of their        *)
(* arguments, so they are operators here; ExitLedger and CountryExit drive *)
(* them.                                                                   *)
(***************************************************************************)
EXTENDS Integers, FiniteSets

CONSTANTS
    Nodes,                  \* names of the subscription's exit nodes
    NoNode,                 \* the empty node name: the exit is not known
    StrikesPerNode,         \* STRIKES_PER_NODE
    FailuresBeforeReport    \* FAILURES_BEFORE_REPORT

ASSUME PolicyAssumption ==
    /\ NoNode \notin Nodes
    /\ StrikesPerNode \in Nat \ {0}
    /\ FailuresBeforeReport \in Nat \ {0}

(***************************************************************************)
(* Attribution.  The three thresholds of the code are comparisons of       *)
(* measured numbers; only their outcome matters to what follows.           *)
(***************************************************************************)

Verdicts == {"exit", "elsewhere", "unclear"}

Classify(provenStable, connected, suspicious) ==
    IF provenStable THEN "elsewhere"
    ELSE IF ~connected THEN "exit"
    ELSE IF suspicious THEN "unclear"
    ELSE "elsewhere"

(***************************************************************************)
(* The ledger.                                                             *)
(***************************************************************************)

Actions == {"hold", "switch", "back-off", "give-up", "report"}

Ledger == [node : Nodes \cup {NoNode}, strikes : Nat, tried : SUBSET Nodes,
           failures : Nat, given_up : BOOLEAN, exhausted : BOOLEAN,
           held_for_peer : BOOLEAN, reported : BOOLEAN]

BlankLedger ==
    [node |-> NoNode, strikes |-> 0, tried |-> {}, failures |-> 0,
     given_up |-> FALSE, exhausted |-> FALSE, held_for_peer |-> FALSE,
     reported |-> FALSE]

Outcome(action, ledger) == [action |-> action, ledger |-> ledger]

(* Faulty variants of a definition stand before it, named for the fault;   *)
(* nothing uses them except the runs that show a property notices.         *)
ReportAgain(l) ==
    IF l.failures >= FailuresBeforeReport
    THEN Outcome("report", [l EXCEPT !.reported = TRUE])
    ELSE Outcome("hold", l)

(* A failure the exit is not moved for: it is reported once it has been    *)
(* going on for long enough, and otherwise only counted.                   *)
ReportOrHold(l) ==
    IF l.failures >= FailuresBeforeReport /\ ~l.reported
    THEN Outcome("report", [l EXCEPT !.reported = TRUE])
    ELSE Outcome("hold", l)

(* The tunnel came up, so what an exhausted walk learnt described an       *)
(* outage and is forgotten.                                                *)
Exonerated(l) ==
    IF l.exhausted
    THEN [l EXCEPT !.exhausted = FALSE, !.tried = {}, !.strikes = 0,
                   !.held_for_peer = FALSE]
    ELSE [l EXCEPT !.held_for_peer = FALSE]

StruckWhoeverItWas(l, node) == [l EXCEPT !.strikes = @ + 1, !.node = node]

(* One more strike against the node in use; strikes belong to a node.      *)
Struck(l, node) ==
    [l EXCEPT !.strikes = IF node = l.node THEN @ + 1 ELSE 1, !.node = node]

StrikeOutUnnamed(l, node, pinned, candidates) ==
    LET out == [l EXCEPT !.tried = @ \cup {node}]
    IN  IF pinned
        THEN Outcome("give-up", [out EXCEPT !.given_up = TRUE])
        ELSE IF candidates \subseteq out.tried
        THEN Outcome("back-off", [out EXCEPT !.exhausted = TRUE])
        ELSE Outcome("switch", [out EXCEPT !.strikes = 0])

(* The node has had its chances.                                           *)
StrikeOut(l, node, pinned, candidates) ==
    LET out == [l EXCEPT !.tried = IF node = NoNode THEN @ ELSE @ \cup {node}]
    IN  IF pinned
        THEN Outcome("give-up", [out EXCEPT !.given_up = TRUE])
        ELSE IF candidates \subseteq out.tried
        THEN Outcome("back-off", [out EXCEPT !.exhausted = TRUE])
        ELSE Outcome("switch", [out EXCEPT !.strikes = 0])

BlameOnceExhausted(l, node, pinned, candidates) ==
    LET s == Struck(l, node)
    IN  IF s.strikes < StrikesPerNode
        THEN Outcome("hold", s)
        ELSE StrikeOut(s, node, pinned, candidates)

(* A blamed failure.  Once exhausted, nothing new is tried.                *)
Blame(l, node, pinned, candidates) ==
    IF l.exhausted
    THEN Outcome("back-off", l)
    ELSE LET s == Struck(l, node)
         IN  IF s.strikes < StrikesPerNode
             THEN Outcome("hold", s)
             ELSE StrikeOut(s, node, pinned, candidates)

(* record(): fold one failure into the ledger.  A give-up stands for as    *)
(* long as the pin it was given under.                                     *)
Record(ledger, verdict, node, pinned, candidates, peer) ==
    LET l == [ledger EXCEPT !.failures = @ + 1,
                            !.given_up = @ /\ pinned]
    IN  IF l.given_up
        THEN Outcome("hold", l)
        ELSE IF verdict # "exit"
        THEN ReportOrHold(Exonerated(l))
        ELSE IF peer
        THEN ReportOrHold([l EXCEPT !.held_for_peer = TRUE])
        ELSE Blame([l EXCEPT !.held_for_peer = FALSE], node, pinned, candidates)
=============================================================================
