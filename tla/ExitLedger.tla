----------------------------- MODULE ExitLedger -----------------------------
(***************************************************************************)
(* One line's exit-failover ledger over its whole life: every freeze of    *)
(* the line folds a failure into it, the ledger is written to disk before  *)
(* the outcome is acted on, a registration throws it away, and the control *)
(* plane may die between any two of those steps and load what is on disk.  *)
(* What the exit looks like at a freeze (which node, pinned or not, which  *)
(* candidates, whether a sibling is registered) is left entirely free, so  *)
(* what holds here holds under every behaviour of the host.                *)
(***************************************************************************)
EXTENDS ExitPolicy

CONSTANT MaxFailures        \* bound on the failures of one ledger life

ASSUME MaxFailuresAssumption == MaxFailures \in Nat

VARIABLES
    ledger,     \* hub.exit_ledgers[iid]
    disk,       \* this line's entry of exit-failover.json
    todo        \* what _judge_exit_failure still has to carry out

(* History, for the properties only. *)
VARIABLES
    blamed,     \* unvetoed failures blamed on each node in this ledger life,
                \* counted up to StrikesPerNode
    told,       \* announcements dispatched in this ledger life, by action
    saveFailed  \* a write of the ledger failed (OSError) at some time: the
                \* two counters above are not kept from then on

vars == <<ledger, disk, todo, blamed, told, saveFailed>>

Announcements == {"report", "give-up", "back-off"}

TypeOK ==
    /\ ledger \in Ledger
    /\ disk \in Ledger
    /\ todo \in {"nothing", "switch"} \cup Announcements
    /\ blamed \in [Nodes -> 0 .. StrikesPerNode]
    /\ told \in [Announcements -> Nat]
    /\ saveFailed \in BOOLEAN

NothingTold == [a \in Announcements |-> 0]
NothingBlamed == [n \in Nodes |-> 0]

Init ==
    /\ ledger = BlankLedger
    /\ disk = BlankLedger
    /\ todo = "nothing"
    /\ blamed = NothingBlamed
    /\ told = NothingTold
    /\ saveFailed = FALSE

(* Faulty variants of a definition stand before it, named for the fault;   *)
(* nothing uses them except the runs that show a property notices.         *)
SaveNothing(l, ok) ==
    /\ disk' = disk
    /\ saveFailed' = (saveFailed \/ ~ok)

(* _save_exit_ledgers: os.replace is atomic, and an OSError is logged and  *)
(* swallowed, which leaves the previous file.                              *)
Save(l, ok) ==
    /\ disk' = IF ok THEN l ELSE disk
    /\ saveFailed' = (saveFailed \/ ~ok)

(* History is kept only while every write succeeded.                       *)
Remember(blame, announced) ==
    /\ blamed' = IF saveFailed' THEN NothingBlamed ELSE blame
    /\ told' = IF saveFailed' THEN NothingTold ELSE announced

ToDoEveryTime(was, action) == IF action = "hold" THEN "nothing" ELSE action

(* The outcome is announced, but a back-off only on its transition.        *)
ToDo(was, action) ==
    IF action = "hold" \/ (action = "back-off" /\ was.exhausted)
    THEN "nothing" ELSE action

(* One freeze: the exit's status, the tunnel's evidence and the sibling    *)
(* lines are read, the failure is recorded and the ledger saved.           *)
Freeze(verdict, node, pinned, candidates, peer, saved) ==
    /\ todo = "nothing"
    /\ ledger.failures < MaxFailures
    /\ LET out == Record(ledger, verdict, node, pinned, candidates, peer)
       IN  /\ ledger' = out.ledger
           /\ Save(out.ledger, saved)
           /\ todo' = ToDo(ledger, out.action)
    /\ Remember(
         IF verdict = "exit" /\ ~peer /\ node \in Nodes /\ blamed[node] < StrikesPerNode
         THEN [blamed EXCEPT ![node] = @ + 1] ELSE blamed,
         [told EXCEPT !["give-up"] = IF pinned THEN @ ELSE 0,
                      !["back-off"] = IF verdict = "exit" THEN @ ELSE 0])

(* The second half of _judge_exit_failure: ask the host for another node,  *)
(* or hand the text to the notifier.                                       *)
Act ==
    /\ todo # "nothing"
    /\ todo' = "nothing"
    /\ UNCHANGED <<ledger, disk, saveFailed>>
    /\ Remember(blamed, IF todo \in Announcements
                        THEN [told EXCEPT ![todo] = @ + 1] ELSE told)

(* The line registered: apply_health pops the ledger, and writes the file  *)
(* if there was one to pop.  A fresh ledger is a new life.                 *)
Registered(saved) ==
    /\ todo = "nothing"
    /\ ledger # BlankLedger
    /\ ledger' = BlankLedger
    /\ Save(BlankLedger, saved)
    /\ Remember(NothingBlamed, NothingTold)
    /\ UNCHANGED todo

(* The control plane dies and comes back: what was not carried out is      *)
(* lost, and the ledger is the one on disk.                                *)
Restart ==
    /\ ledger' = disk
    /\ todo' = "nothing"
    /\ UNCHANGED <<disk, blamed, told, saveFailed>>

Next ==
    \/ \E verdict \in Verdicts, node \in Nodes \cup {NoNode}, pinned \in BOOLEAN,
          candidates \in SUBSET Nodes, peer \in BOOLEAN, saved \in BOOLEAN :
            Freeze(verdict, node, pinned, candidates, peer, saved)
    \/ Act
    \/ \E saved \in BOOLEAN : Registered(saved)
    \/ Restart

Spec == Init /\ [][Next]_vars

-----------------------------------------------------------------------------
(* Properties. *)

(* A stuck line is reported to the operator at most once per ledger life,  *)
(* however many further failures arrive and across restarts of the control *)
(* plane (failover.record and main._judge_exit_failure), unless the file   *)
(* could not be written.                                                   *)
ReportedOnce == told["report"] <= 1

(* A pinned exit is given up on at most once for as long as the pin        *)
(* stands: a restart must not re-announce it (main.py, Hub.exit_ledgers).  *)
GivenUpOncePerPin == told["give-up"] <= 1

(* Entering the slow cadence is announced at most once per outage: again   *)
(* only after a failure that cleared the exits has ended the outage.       *)
BackedOffOncePerOutage == told["back-off"] <= 1

(* No node is abandoned before it has had its chances: every node in tried *)
(* took StrikesPerNode blamed and unvetoed failures in this ledger life,   *)
(* whatever other nodes failed in between.                                 *)
StruckOut ==
    saveFailed \/ \A n \in ledger.tried : blamed[n] >= StrikesPerNode

(* The two ways of ending the fast rebuilds exclude each other: a line is  *)
(* never both stopped for a person and retrying on the slow cadence, so    *)
(* apply_health's choice of next_retry_at is never ambiguous.              *)
StoppedOrSlow == ~(ledger.given_up /\ ledger.exhausted)
=============================================================================
