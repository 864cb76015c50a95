-------------------------- MODULE CountryExitProofs -------------------------
(***************************************************************************)
(* For any nodes, lines and bounds: the types of CountryExit, that sharing *)
(* an exit leaves ExitSelector's steps what they are, and that no request  *)
(* written after a line was shown registered moves the exit under it       *)
(* (LaterRequestsSpareShownLines).                                         *)
(*                                                                         *)
(* The invariant behind the last one: as long as a line is shown, the      *)
(* mailbox holds no request that is newer than what the poller saw.  Two   *)
(* files lie between the veto and the move, but the mailbox is written     *)
(* only where the veto is read, and a request that is being served is      *)
(* never newer than the mailbox.                                           *)
(***************************************************************************)
EXTENDS CountryExit, ExitSelectorProofs

ControlTypeOK ==
    /\ engine \in [Lines -> {"none", "trying", "registered"}]
    /\ shown \in SUBSET Lines
    /\ ledger \in [Lines -> Policy!Ledger]
    /\ seenAt \in [Lines -> 0 .. MaxRequests]

NothingNewer == \A l \in shown : mailbox.id <= seenAt[l]

CInv == SInv /\ ControlTypeOK /\ NothingNewer

Spared == MovedByRequest => \A l \in shown : asked.id <= seenAt[l]

-----------------------------------------------------------------------------
(* What a judgement returns (failover.record).                             *)
Outcomes == [action : Policy!Actions, ledger : Policy!Ledger]

LEMMA HoldType ==
    ASSUME NEW l \in Policy!Ledger
    PROVE  Policy!ReportOrHold(l) \in Outcomes /\ Policy!ReportOrHold(l).action # "switch"
  <1>1. [l EXCEPT !.reported = TRUE] \in Policy!Ledger
    BY DEF Policy!Ledger
  <1> QED
    BY <1>1 DEF Policy!ReportOrHold, Policy!Outcome, Policy!Actions, Outcomes

LEMMA ExoneratedLedger ==
    ASSUME NEW l \in Policy!Ledger
    PROVE  Policy!Exonerated(l) \in Policy!Ledger
  <1>1. /\ [l EXCEPT !.held_for_peer = FALSE] \in Policy!Ledger
        /\ [l EXCEPT !.exhausted = FALSE, !.tried = {}, !.strikes = 0, !.held_for_peer = FALSE]
              \in Policy!Ledger
    BY DEF Policy!Ledger
  <1> QED
    BY <1>1 DEF Policy!Exonerated

LEMMA BlamedType ==
    ASSUME NEW l \in Policy!Ledger, NEW node \in Nodes \cup {NoNode}, NEW pinned,
           NEW candidates
    PROVE  Policy!Blame(l, node, pinned, candidates) \in Outcomes
  <1> DEFINE struck == Policy!Struck(l, node)
             out == [struck EXCEPT !.tried = IF node = NoNode THEN @ ELSE @ \cup {node}]
  <1>1. struck \in Policy!Ledger
    <2>1. (IF node = l.node THEN l.strikes + 1 ELSE 1) \in Nat
      BY DEF Policy!Ledger
    <2> QED
      BY <2>1 DEF Policy!Struck, Policy!Ledger
  <1> HIDE DEF struck
  <1>2. out \in Policy!Ledger
    BY <1>1 DEF Policy!Ledger
  <1>3. /\ [out EXCEPT !.given_up = TRUE] \in Policy!Ledger
        /\ [out EXCEPT !.exhausted = TRUE] \in Policy!Ledger
        /\ [out EXCEPT !.strikes = 0] \in Policy!Ledger
    BY <1>2 DEF Policy!Ledger
  <1>4. Policy!StrikeOut(struck, node, pinned, candidates) \in Outcomes
    BY <1>3 DEF Policy!StrikeOut, Policy!Outcome, Policy!Actions, Outcomes
  <1> QED
    BY <1>1, <1>4 DEF struck, Policy!Blame, Policy!Outcome, Policy!Actions, Outcomes

(* With a sibling registered the answer is never to move the exit.         *)
LEMMA JudgeType ==
    ASSUME CInv, NEW l \in Lines, NEW verdict \in Policy!Verdicts
    PROVE  /\ Judge(l, verdict) \in Outcomes
           /\ (\E o \in Lines \ {l} : o \in shown) => Judge(l, verdict).action # "switch"
  <1> DEFINE pinned == published.selection = "manual"
             peer == \E o \in Lines \ {l} : o \in shown
             counted == [ledger[l] EXCEPT !.failures = @ + 1, !.given_up = @ /\ pinned]
  <1>1. ledger[l] \in Policy!Ledger /\ published.node \in Nodes \cup {NoNode}
    BY DEF CInv, ControlTypeOK, SInv, SelectorTypeOK
  <1>2. counted \in Policy!Ledger
    <2>1. ledger[l].failures + 1 \in Nat /\ (ledger[l].given_up /\ pinned) \in BOOLEAN
      BY <1>1 DEF Policy!Ledger
    <2> QED
      BY <1>1, <2>1 DEF Policy!Ledger
  <1>3. Judge(l, verdict) =
            IF counted.given_up THEN Policy!Outcome("hold", counted)
            ELSE IF verdict # "exit" THEN Policy!ReportOrHold(Policy!Exonerated(counted))
            ELSE IF peer THEN Policy!ReportOrHold([counted EXCEPT !.held_for_peer = TRUE])
            ELSE Policy!Blame([counted EXCEPT !.held_for_peer = FALSE], published.node, pinned,
                              published.candidates)
    BY DEF Judge, Policy!Record
  <1> HIDE DEF counted, pinned, peer
  <1>4. \A held \in BOOLEAN : [counted EXCEPT !.held_for_peer = held] \in Policy!Ledger
    BY <1>2 DEF Policy!Ledger
  <1>5. Policy!Outcome("hold", counted) \in Outcomes
        /\ Policy!Outcome("hold", counted).action # "switch"
    BY <1>2 DEF Policy!Outcome, Policy!Actions, Outcomes
  <1>6. /\ Policy!ReportOrHold(Policy!Exonerated(counted)) \in Outcomes
        /\ Policy!ReportOrHold(Policy!Exonerated(counted)).action # "switch"
    BY <1>2, ExoneratedLedger, HoldType
  <1>7. /\ Policy!ReportOrHold([counted EXCEPT !.held_for_peer = TRUE]) \in Outcomes
        /\ Policy!ReportOrHold([counted EXCEPT !.held_for_peer = TRUE]).action # "switch"
    BY <1>4, HoldType
  <1>8. Policy!Blame([counted EXCEPT !.held_for_peer = FALSE], published.node, pinned,
                     published.candidates) \in Outcomes
    BY <1>1, <1>4, BlamedType
  <1>9. Judge(l, verdict) \in Outcomes
    BY <1>3, <1>5, <1>6, <1>7, <1>8
  <1>10. peer => Judge(l, verdict).action # "switch"
    BY <1>3, <1>5, <1>6, <1>7
  <1> QED
    BY <1>9, <1>10 DEF peer

-----------------------------------------------------------------------------
(* Every step of the composition is a step of the selector, or none of its *)
(* variables changes.                                                      *)
LEMMA SelectorStep ==
    ASSUME Next
    PROVE  SelectorNext \/ UNCHANGED selectorVars
  <1>1. ASSUME NEW l \in Lines, Freeze(l) PROVE Ask \/ UNCHANGED selectorVars
    <2>1. RequestReselect(l) \/ UNCHANGED mailbox
      BY <1>1 DEF Freeze
    <2>2. UNCHANGED <<members, pin, singbox, memory, cycle, disturbances>>
      BY <1>1 DEF Freeze
    <2> QED
      BY <2>1, <2>2 DEF Ask, selectorVars, documents
  <1>2. RestartControl => UNCHANGED selectorVars
    BY DEF RestartControl, selectorVars
  <1>3. Host => SelectorNext
    BY DEF Host, SelectorNext
  <1>4. ASSUME NEW l \in Lines,
               Start(l) \/ Register(l) \/ Lose(l) \/ PollRegistered(l) \/ PollFailing(l)
        PROVE  UNCHANGED selectorVars
    BY <1>4 DEF Start, Register, Lose, PollRegistered, PollFailing
  <1> QED
    BY <1>1, <1>2, <1>3, <1>4 DEF Next, SelectorNext

(* The host's steps write no request, and restart engines at most.         *)
LEMMA HostKeeps ==
    ASSUME CInv, Host
    PROVE  ControlTypeOK' /\ NothingNewer' /\ Spared
  <1>1. mailbox' = mailbox
    BY DEF Host, Cycle, Environment, Keep, Relaunch, Skip, DropStale, StartRanking, Select,
           RankingFails, Publish, SetPin, FeedChanges, RelaunchForOther, RelaunchFails, Restart,
           WarmUp, RetryDue, CooldownOver, documents
  <1>2. engine' \in [Lines -> {"none", "trying", "registered"}]
    BY DEF Host, CInv, ControlTypeOK
  <1>3. ControlTypeOK' /\ NothingNewer'
    BY <1>1, <1>2 DEF Host, CInv, ControlTypeOK, NothingNewer
  <1>4. asked.id <= mailbox.id /\ asked.id \in Int /\ mailbox.id \in Int
    BY SelectorAssumption DEF CInv, SInv, IdsInv, SelectorTypeOK
  <1>5. \A l \in shown : mailbox.id <= seenAt[l] /\ seenAt[l] \in Int
    BY SelectorAssumption DEF CInv, NothingNewer, ControlTypeOK
  <1> QED
    BY <1>3, <1>4, <1>5 DEF Spared

(* A failure is judged with the sibling veto, so while any line is shown   *)
(* no request is written.                                                  *)
LEMMA FreezeKeeps ==
    ASSUME CInv, NEW l \in Lines, Freeze(l)
    PROVE  ControlTypeOK' /\ NothingNewer'
  <1>1. PICK verdict \in PossibleVerdicts :
            /\ ledger' = [ledger EXCEPT ![l] = Judge(l, verdict).ledger]
            /\ IF Judge(l, verdict).action = "switch" THEN RequestReselect(l) ELSE UNCHANGED mailbox
    BY DEF Freeze
  <1>2. verdict \in Policy!Verdicts
    BY DEF PossibleVerdicts, Policy!Verdicts
  <1>3. Judge(l, verdict).ledger \in Policy!Ledger
    BY <1>2, JudgeType DEF Outcomes
  <1>7. l \notin shown /\ UNCHANGED <<shown, seenAt>> /\ engine' = [engine EXCEPT ![l] = "none"]
    BY DEF Freeze
  <1>4. ControlTypeOK'
    BY <1>1, <1>3, <1>7 DEF CInv, ControlTypeOK
  <1>5. CASE shown = {}
    BY <1>4, <1>5, <1>7 DEF NothingNewer
  <1>6. CASE shown # {}
    <2>1. \E o \in Lines \ {l} : o \in shown
      BY <1>6, <1>7 DEF CInv, ControlTypeOK
    <2>2. mailbox' = mailbox
      BY <1>1, <1>2, <2>1, JudgeType
    <2> QED
      BY <1>4, <1>7, <2>2 DEF CInv, NothingNewer
  <1> QED
    BY <1>5, <1>6

(* Of the remaining steps only a poll shows a line, and it notes what the  *)
(* mailbox holds.                                                          *)
LEMMA PollsKeep ==
    ASSUME CInv, NEW l \in Lines,
           Start(l) \/ Register(l) \/ Lose(l) \/ PollRegistered(l) \/ PollFailing(l)
    PROVE  ControlTypeOK' /\ NothingNewer'
  <1>1. mailbox' = mailbox /\ mailbox.id \in 0 .. MaxRequests
    BY DEF Start, Register, Lose, PollRegistered, PollFailing, selectorVars, documents, CInv, SInv,
           SelectorTypeOK
  <1>2. CASE PollRegistered(l)
    <2>1. Policy!BlankLedger \in Policy!Ledger
      BY DEF Policy!BlankLedger, Policy!Ledger
    <2>2. ControlTypeOK'
      BY <1>1, <1>2, <2>1 DEF PollRegistered, CInv, ControlTypeOK
    <2>3. NothingNewer'
      BY <1>1, <1>2 DEF PollRegistered, CInv, ControlTypeOK, NothingNewer
    <2> QED
      BY <2>2, <2>3
  <1>3. CASE Start(l) \/ Register(l) \/ Lose(l)
    BY <1>1, <1>3 DEF Start, Register, Lose, CInv, ControlTypeOK, NothingNewer
  <1>4. CASE PollFailing(l)
    BY <1>1, <1>4 DEF PollFailing, CInv, ControlTypeOK, NothingNewer
  <1> QED
    BY <1>2, <1>3, <1>4

(* Only the host moves the exit.                                           *)
LEMMA OthersSpare ==
    ASSUME Next, ~Host
    PROVE  Spared
  <1>1. UNCHANGED running
    BY DEF Next, Start, Register, Lose, PollRegistered, PollFailing, Freeze, RestartControl,
           selectorVars, singbox
  <1> QED
    BY <1>1 DEF Spared, MovedByRequest

LEMMA InitCountry == Init => CInv
  <1>1. Init => SInv
    BY InitHolds DEF Init
  <1>2. Policy!BlankLedger \in Policy!Ledger
    BY DEF Policy!BlankLedger, Policy!Ledger
  <1>3. Init => ControlTypeOK
    BY <1>2, SelectorAssumption DEF Init, ControlTypeOK
  <1> QED
    BY <1>1, <1>3 DEF CInv, NothingNewer, Init

LEMMA CountryStep ==
    ASSUME CInv, [Next]_vars
    PROVE  CInv' /\ (Spared \/ UNCHANGED vars)
  <1>1. CASE UNCHANGED vars
    <2>1. SInv'
      BY <1>1, NextKeeps DEF vars, CInv
    <2> QED
      BY <1>1, <2>1 DEF vars, lineVars, selectorVars, documents, CInv, ControlTypeOK, NothingNewer
  <1>2. CASE Next
    <2>1. SInv'
      BY <1>2, SelectorStep, NextKeeps DEF CInv
    <2>2. ControlTypeOK' /\ NothingNewer'
      <3>1. CASE RestartControl
        BY <3>1 DEF RestartControl, CInv, ControlTypeOK, NothingNewer
      <3> QED
        BY <1>2, <3>1, HostKeeps, FreezeKeeps, PollsKeep DEF Next
    <2>3. Spared
      BY <1>2, HostKeeps, OthersSpare
    <2> QED
      BY <2>1, <2>2, <2>3 DEF CInv
  <1> QED
    BY <1>1, <1>2

LEMMA CountryCorrect == Spec => []CInv
  BY InitCountry, CountryStep, PTL DEF Spec

-----------------------------------------------------------------------------
(* Every variable of the country keeps its type, on the host and in the    *)
(* control plane (mdd_orchestrator.py, main.py).                           *)
THEOREM CountryTypeCorrect == Spec => []TypeOK
  <1>1. CInv => TypeOK
    BY DEF CInv, SInv, ControlTypeOK, TypeOK
  <1> QED
    BY <1>1, CountryCorrect, PTL

(* Lines that share an exit, their polls and restarts make no step of the  *)
(* selector that it would not make alone: what is proved of ExitSelector   *)
(* without fairness holds in the composition.                              *)
THEOREM SharingKeepsTheSelector == Spec => SelectorInit /\ [][SelectorNext]_selectorVars
  <1>1. Init => SelectorInit
    BY DEF Init
  <1>2. [Next]_vars => [SelectorNext]_selectorVars
    BY SelectorStep DEF vars
  <1> QED
    BY <1>1, <1>2, PTL DEF Spec

(* The sibling veto holds across both files: no request written after a    *)
(* line was shown registered moves the exit under it (failover.record).    *)
THEOREM LaterRequestsSpare == Spec => LaterRequestsSpareShownLines
  <1>1. CInv /\ [Next]_vars => [ MovedByRequest => \A l \in shown : asked.id <= seenAt[l] ]_vars
    BY CountryStep DEF Spared
  <1> QED
    BY <1>1, CountryCorrect, PTL DEF Spec, LaterRequestsSpareShownLines
=============================================================================
