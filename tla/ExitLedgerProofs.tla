-------------------------- MODULE ExitLedgerProofs --------------------------
(***************************************************************************)
(* The ledger's invariants for every set of nodes, every number of strikes *)
(* and every sequence of failures, registrations, failed writes and        *)
(* restarts.  The model checker looks at two nodes and five failures.      *)
(***************************************************************************)
EXTENDS ExitLedger, TLAPS

(***************************************************************************)
(* What one announcement may have been told so far: nothing, unless the    *)
(* ledger carries its mark, and never while it is still to be carried out. *)
(***************************************************************************)
MarkedOnce(action, mark) ==
    /\ told[action] <= 1
    /\ told[action] = 1 => mark
    /\ todo = action => mark /\ told[action] = 0

(* The strikes the ledger holds against a node were all blamed on it.      *)
StrikesAreBlamed ==
    /\ ledger.node \in Nodes =>
         blamed[ledger.node] >= StrikesPerNode \/ blamed[ledger.node] >= ledger.strikes
    /\ \A n \in ledger.tried : blamed[n] >= StrikesPerNode

(* As long as every write succeeded, the file is the ledger, and the       *)
(* history agrees with the ledger's marks; afterwards it is not kept.      *)
HistoryInv ==
    IF saveFailed
    THEN told = NothingTold
    ELSE /\ disk = ledger
         /\ MarkedOnce("report", ledger.reported)
         /\ MarkedOnce("give-up", ledger.given_up)
         /\ MarkedOnce("back-off", ledger.exhausted)
         /\ StrikesAreBlamed

NeverBoth(l) == ~(l.given_up /\ l.exhausted)

LedgerInv ==
    /\ TypeOK
    /\ NeverBoth(ledger) /\ NeverBoth(disk)
    /\ HistoryInv

-----------------------------------------------------------------------------
(* What record() does to a ledger. *)

Inputs(verdict, node, pinned, candidates, peer) ==
    /\ verdict \in Verdicts
    /\ node \in Nodes \cup {NoNode}
    /\ pinned \in BOOLEAN
    /\ candidates \in SUBSET Nodes
    /\ peer \in BOOLEAN

Outcomes == [action : Actions, ledger : Ledger]

(* Every branch of record() ends in an action and a ledger.                *)
LEMMA ReportOrHoldType ==
    ASSUME NEW l \in Ledger
    PROVE  ReportOrHold(l) \in Outcomes
  BY DEF Ledger, Outcomes, Actions, ReportOrHold, Outcome

LEMMA ExoneratedType ==
    ASSUME NEW l \in Ledger
    PROVE  Exonerated(l) \in Ledger
  BY DEF Ledger, Exonerated

LEMMA StruckType ==
    ASSUME NEW l \in Ledger, NEW node \in Nodes \cup {NoNode}
    PROVE  Struck(l, node) \in Ledger
<1> DEFINE strikes == IF node = l.node THEN l.strikes + 1 ELSE 1
<1>1. strikes \in Nat
  BY DEF Ledger
<1>2. Struck(l, node) = [l EXCEPT !.strikes = strikes, !.node = node]
  BY DEF Struck
<1> HIDE DEF strikes
<1> QED
  BY <1>1, <1>2 DEF Ledger

LEMMA StrikeOutType ==
    ASSUME NEW l \in Ledger, NEW node \in Nodes \cup {NoNode},
           NEW pinned \in BOOLEAN, NEW candidates \in SUBSET Nodes
    PROVE  StrikeOut(l, node, pinned, candidates) \in Outcomes
<1> DEFINE out == [l EXCEPT !.tried = IF node = NoNode THEN @ ELSE @ \cup {node}]
<1>1. out \in Ledger
  BY DEF Ledger
<1>2. /\ [out EXCEPT !.given_up = TRUE] \in Ledger
      /\ [out EXCEPT !.exhausted = TRUE] \in Ledger
      /\ [out EXCEPT !.strikes = 0] \in Ledger
  BY <1>1 DEF Ledger
<1> QED
  BY <1>2 DEF StrikeOut, Outcome, Outcomes, Actions

LEMMA BlameType ==
    ASSUME NEW l \in Ledger, NEW node \in Nodes \cup {NoNode},
           NEW pinned \in BOOLEAN, NEW candidates \in SUBSET Nodes
    PROVE  Blame(l, node, pinned, candidates) \in Outcomes
<1>1. Struck(l, node) \in Ledger
  BY StruckType
<1>2. StrikeOut(Struck(l, node), node, pinned, candidates) \in Outcomes
  BY <1>1, StrikeOutType
<1> QED
  BY <1>1, <1>2 DEF Blame, Outcome, Outcomes, Actions

LEMMA RecordType ==
    ASSUME NEW l \in Ledger, NEW verdict, NEW node, NEW pinned, NEW candidates, NEW peer,
           Inputs(verdict, node, pinned, candidates, peer)
    PROVE  Record(l, verdict, node, pinned, candidates, peer) \in Outcomes
<1> DEFINE counted == [l EXCEPT !.failures = @ + 1, !.given_up = @ /\ pinned]
<1>1. counted \in Ledger
  <2>1. l.failures + 1 \in Nat /\ (l.given_up /\ pinned) \in BOOLEAN
    BY DEF Ledger
  <2> QED
    BY <2>1 DEF Ledger
<1> HIDE DEF counted
<1>2. \A held \in BOOLEAN : [counted EXCEPT !.held_for_peer = held] \in Ledger
  BY <1>1 DEF Ledger
<1>3. Outcome("hold", counted) \in Outcomes
  BY <1>1 DEF Outcome, Outcomes, Actions
<1>4. ReportOrHold(Exonerated(counted)) \in Outcomes
  BY <1>1, ExoneratedType, ReportOrHoldType
<1>5. ReportOrHold([counted EXCEPT !.held_for_peer = TRUE]) \in Outcomes
  BY <1>2, ReportOrHoldType
<1>6. Blame([counted EXCEPT !.held_for_peer = FALSE], node, pinned, candidates) \in Outcomes
  BY <1>2, BlameType DEF Inputs
<1> QED
  BY <1>3, <1>4, <1>5, <1>6 DEF Record, counted

(* A mark is set with its announcement, which is made only while the mark  *)
(* is down; and a mark goes down only with what it stands for.             *)
LEMMA RecordMarks ==
    ASSUME NEW l \in Ledger, NEW verdict, NEW node, NEW pinned, NEW candidates, NEW peer,
           Inputs(verdict, node, pinned, candidates, peer)
    PROVE  LET out == Record(l, verdict, node, pinned, candidates, peer)
           IN  /\ l.reported => out.ledger.reported /\ out.action # "report"
               /\ out.action = "report" => out.ledger.reported
               /\ l.given_up /\ pinned => out.ledger.given_up /\ out.action # "give-up"
               /\ out.action = "give-up" => out.ledger.given_up
               /\ l.exhausted /\ verdict = "exit" => out.ledger.exhausted
               /\ out.action = "back-off" => out.ledger.exhausted /\ verdict = "exit"
  BY DEF Inputs, Ledger, Record, ReportOrHold, Exonerated, Blame, Struck,
         StrikeOut, Outcome

(* Giving up and backing off stay alternatives.                            *)
LEMMA RecordNeverBoth ==
    ASSUME NEW l \in Ledger, NEW verdict, NEW node, NEW pinned, NEW candidates, NEW peer,
           Inputs(verdict, node, pinned, candidates, peer),
           NeverBoth(l)
    PROVE  NeverBoth(Record(l, verdict, node, pinned, candidates, peer).ledger)
  BY DEF Inputs, Ledger, NeverBoth, Record, ReportOrHold, Exonerated, Blame, Struck,
         StrikeOut, Outcome

(* A node is struck only by an unvetoed failure blamed on it, one strike   *)
(* at a time, and enters tried only when it is struck out.                 *)
LEMMA RecordStrikes ==
    ASSUME NEW l \in Ledger, NEW verdict, NEW node, NEW pinned, NEW candidates, NEW peer,
           Inputs(verdict, node, pinned, candidates, peer)
    PROVE  LET new == Record(l, verdict, node, pinned, candidates, peer).ledger
           IN  \/ /\ new.node = l.node
                  /\ new.strikes <= l.strikes
                  /\ new.tried \subseteq l.tried
               \/ /\ verdict = "exit" /\ ~peer
                  /\ new.node = node
                  /\ new.strikes <= IF node = l.node THEN l.strikes + 1 ELSE 1
                  /\ new.tried \subseteq l.tried
               \/ /\ verdict = "exit" /\ ~peer
                  /\ new.node = node
                  /\ new.strikes <= IF node = l.node THEN l.strikes + 1 ELSE 1
                  /\ (IF node = l.node THEN l.strikes + 1 ELSE 1) >= StrikesPerNode
                  /\ new.tried \subseteq l.tried \cup {node}
  BY PolicyAssumption
  DEF Inputs, Ledger, Record, ReportOrHold, Exonerated, Blame, Struck, StrikeOut, Outcome

-----------------------------------------------------------------------------
(* Type correctness. *)

LEMMA BlankLedgerType == BlankLedger \in Ledger
  BY DEF BlankLedger, Ledger

LEMMA NothingType ==
    /\ NothingTold \in [Announcements -> Nat]
    /\ NothingBlamed \in [Nodes -> 0 .. StrikesPerNode]
  BY PolicyAssumption DEF NothingTold, NothingBlamed

(* History keeps its type, whatever a step remembers of the right type.    *)
LEMMA RememberType ==
    ASSUME NEW blame \in [Nodes -> 0 .. StrikesPerNode],
           NEW announced \in [Announcements -> Nat],
           Remember(blame, announced)
    PROVE  /\ blamed' \in [Nodes -> 0 .. StrikesPerNode]
           /\ told' \in [Announcements -> Nat]
  BY NothingType DEF Remember

(* A blamed failure is counted up to StrikesPerNode.                       *)
LEMMA CountedBlameType ==
    ASSUME blamed \in [Nodes -> 0 .. StrikesPerNode], NEW node
    PROVE  (IF node \in Nodes /\ blamed[node] < StrikesPerNode
            THEN [blamed EXCEPT ![node] = @ + 1] ELSE blamed)
                \in [Nodes -> 0 .. StrikesPerNode]
<1>1. CASE node \in Nodes /\ blamed[node] < StrikesPerNode
  <2>1. blamed[node] + 1 \in 0 .. StrikesPerNode
    BY <1>1, PolicyAssumption
  <2> QED
    BY <1>1, <2>1
<1> QED
  BY <1>1

LEMMA FreezeType ==
    ASSUME TypeOK, NEW verdict, NEW node, NEW pinned, NEW candidates, NEW peer,
           NEW saved \in BOOLEAN,
           Inputs(verdict, node, pinned, candidates, peer),
           Freeze(verdict, node, pinned, candidates, peer, saved)
    PROVE  TypeOK'
<1> DEFINE out == Record(ledger, verdict, node, pinned, candidates, peer)
           blame == IF verdict = "exit" /\ ~peer /\ node \in Nodes
                       /\ blamed[node] < StrikesPerNode
                    THEN [blamed EXCEPT ![node] = @ + 1] ELSE blamed
           announced == [told EXCEPT !["give-up"] = IF pinned THEN @ ELSE 0,
                                     !["back-off"] = IF verdict = "exit" THEN @ ELSE 0]
<1>1. out \in Outcomes
  BY RecordType DEF TypeOK
<1>2. ledger' = out.ledger /\ todo' = ToDo(ledger, out.action) /\ Save(out.ledger, saved)
  BY DEF Freeze
<1>3. Remember(blame, announced)
  BY DEF Freeze
<1>4. blame \in [Nodes -> 0 .. StrikesPerNode]
  BY CountedBlameType DEF TypeOK
<1>5. announced \in [Announcements -> Nat]
  BY DEF TypeOK, Announcements
<1> HIDE DEF out, blame, announced
<1>6. ledger' \in Ledger /\ disk' \in Ledger /\ saveFailed' \in BOOLEAN
  BY <1>1, <1>2 DEF Outcomes, Save, TypeOK
<1>7. todo' \in {"nothing", "switch"} \cup Announcements
  BY <1>1, <1>2 DEF Outcomes, Actions, ToDo, Announcements
<1>8. blamed' \in [Nodes -> 0 .. StrikesPerNode] /\ told' \in [Announcements -> Nat]
  BY <1>3, <1>4, <1>5, RememberType
<1> QED
  BY <1>6, <1>7, <1>8 DEF TypeOK

LEMMA ActType == ASSUME TypeOK, Act PROVE TypeOK'
<1> DEFINE announced == IF todo \in Announcements THEN [told EXCEPT ![todo] = @ + 1] ELSE told
<1>1. announced \in [Announcements -> Nat]
  BY DEF TypeOK
<1>2. blamed' \in [Nodes -> 0 .. StrikesPerNode] /\ told' \in [Announcements -> Nat]
  BY <1>1, RememberType DEF Act, TypeOK
<1> QED
  BY <1>2 DEF Act, TypeOK

LEMMA RegisteredType ==
    ASSUME TypeOK, NEW saved \in BOOLEAN, Registered(saved) PROVE TypeOK'
<1>1. blamed' \in [Nodes -> 0 .. StrikesPerNode] /\ told' \in [Announcements -> Nat]
  BY NothingType, RememberType DEF Registered
<1> QED
  BY <1>1, BlankLedgerType DEF Registered, Save, TypeOK

(* TypeOK is preserved by every step.                                      *)
LEMMA TypeStep == TypeOK /\ [Next]_vars => TypeOK'
<1> SUFFICES ASSUME TypeOK, [Next]_vars PROVE TypeOK'
  OBVIOUS
<1>1. ASSUME NEW verdict \in Verdicts, NEW node \in Nodes \cup {NoNode},
             NEW pinned \in BOOLEAN, NEW candidates \in SUBSET Nodes,
             NEW peer \in BOOLEAN, NEW saved \in BOOLEAN,
             Freeze(verdict, node, pinned, candidates, peer, saved)
      PROVE  TypeOK'
  BY <1>1, FreezeType DEF Inputs
<1>2. CASE Act
  BY <1>2, ActType
<1>3. ASSUME NEW saved \in BOOLEAN, Registered(saved) PROVE TypeOK'
  BY <1>3, RegisteredType
<1>4. CASE Restart
  BY <1>4 DEF Restart, TypeOK
<1>5. CASE UNCHANGED vars
  BY <1>5 DEF vars, TypeOK
<1> QED
  BY <1>1, <1>2, <1>3, <1>4, <1>5 DEF Next

LEMMA TypeInit == Init => TypeOK
  BY BlankLedgerType, NothingType DEF Init, TypeOK

(* Every variable of the ledger's specification keeps its type: strikes    *)
(* and failures stay numbers, tried a set of node names, an outcome one of *)
(* the actions main.py knows (failover.record, _judge_exit_failure).       *)
THEOREM LedgerTypeCorrect == Spec => []TypeOK
  BY TypeInit, TypeStep, PTL DEF Spec

-----------------------------------------------------------------------------
(* The inductive invariant. *)

LEMMA BlankLedgerNeverBoth == NeverBoth(BlankLedger)
  BY DEF BlankLedger, NeverBoth

(* Neither the ledger nor the file ever says both.                         *)
LEMMA NeverBothStep ==
    ASSUME LedgerInv, [Next]_vars
    PROVE  NeverBoth(ledger)' /\ NeverBoth(disk)'
<1>1. ASSUME NEW verdict \in Verdicts, NEW node \in Nodes \cup {NoNode},
             NEW pinned \in BOOLEAN, NEW candidates \in SUBSET Nodes,
             NEW peer \in BOOLEAN, NEW saved \in BOOLEAN,
             Freeze(verdict, node, pinned, candidates, peer, saved)
      PROVE  NeverBoth(ledger)' /\ NeverBoth(disk)'
  <2> DEFINE out == Record(ledger, verdict, node, pinned, candidates, peer)
  <2>1. NeverBoth(out.ledger)
    BY RecordNeverBoth DEF LedgerInv, TypeOK, Inputs
  <2>2. ledger' = out.ledger /\ disk' \in {out.ledger, disk}
    BY <1>1 DEF Freeze, Save
  <2> HIDE DEF out
  <2> QED
    BY <2>1, <2>2 DEF LedgerInv, NeverBoth
<1>2. CASE Act
  BY <1>2 DEF Act, LedgerInv, NeverBoth
<1>3. ASSUME NEW saved \in BOOLEAN, Registered(saved)
      PROVE  NeverBoth(ledger)' /\ NeverBoth(disk)'
  BY <1>3, BlankLedgerNeverBoth DEF Registered, Save, LedgerInv, NeverBoth
<1>4. CASE Restart
  BY <1>4 DEF Restart, LedgerInv, NeverBoth
<1>5. CASE UNCHANGED vars
  BY <1>5 DEF vars, LedgerInv, NeverBoth
<1> QED
  BY <1>1, <1>2, <1>3, <1>4, <1>5 DEF Next

(* One failure, folded in and saved: each mark and its count.              *)
LEMMA FreezeMarks ==
    ASSUME LedgerInv, NEW verdict, NEW node, NEW pinned, NEW candidates, NEW peer,
           NEW saved \in BOOLEAN,
           Inputs(verdict, node, pinned, candidates, peer),
           Freeze(verdict, node, pinned, candidates, peer, saved),
           ~saveFailed'
    PROVE  /\ MarkedOnce("report", ledger.reported)'
           /\ MarkedOnce("give-up", ledger.given_up)'
           /\ MarkedOnce("back-off", ledger.exhausted)'
<1> DEFINE out == Record(ledger, verdict, node, pinned, candidates, peer)
<1>1. ledger \in Ledger /\ told \in [Announcements -> Nat]
  BY DEF LedgerInv, TypeOK
<1>2. /\ ledger.reported => out.ledger.reported /\ out.action # "report"
      /\ out.action = "report" => out.ledger.reported
      /\ ledger.given_up /\ pinned => out.ledger.given_up /\ out.action # "give-up"
      /\ out.action = "give-up" => out.ledger.given_up
      /\ ledger.exhausted /\ verdict = "exit" => out.ledger.exhausted
      /\ out.action = "back-off" => out.ledger.exhausted /\ verdict = "exit"
  BY <1>1, RecordMarks
<1>3. ledger' = out.ledger /\ todo' = ToDo(ledger, out.action)
  BY DEF Freeze
<1>4. /\ told'["report"] = told["report"]
      /\ told'["give-up"] = IF pinned THEN told["give-up"] ELSE 0
      /\ told'["back-off"] = IF verdict = "exit" THEN told["back-off"] ELSE 0
  BY <1>1 DEF Freeze, Remember, Announcements
<1>5. ~saveFailed /\ todo = "nothing"
  BY DEF Freeze, Save
<1>6. /\ MarkedOnce("report", ledger.reported)
      /\ MarkedOnce("give-up", ledger.given_up)
      /\ MarkedOnce("back-off", ledger.exhausted)
  BY <1>5 DEF LedgerInv, HistoryInv
<1>7. /\ told["report"] \in Nat /\ told["give-up"] \in Nat /\ told["back-off"] \in Nat
  BY <1>1 DEF Announcements
<1> HIDE DEF out
<1>8. MarkedOnce("report", ledger.reported)'
  BY <1>2, <1>3, <1>4, <1>6, <1>7 DEF MarkedOnce, ToDo
<1>9. MarkedOnce("give-up", ledger.given_up)'
  BY <1>2, <1>3, <1>4, <1>6, <1>7 DEF MarkedOnce, ToDo
<1>10. MarkedOnce("back-off", ledger.exhausted)'
  BY <1>2, <1>3, <1>4, <1>6, <1>7 DEF MarkedOnce, ToDo
<1> QED
  BY <1>8, <1>9, <1>10

(* One failure: the strikes stay blamed.                                   *)
LEMMA FreezeStrikes ==
    ASSUME LedgerInv, NEW verdict, NEW node, NEW pinned, NEW candidates, NEW peer,
           NEW saved \in BOOLEAN,
           Inputs(verdict, node, pinned, candidates, peer),
           Freeze(verdict, node, pinned, candidates, peer, saved),
           ~saveFailed'
    PROVE  StrikesAreBlamed'
<1> DEFINE new == Record(ledger, verdict, node, pinned, candidates, peer).ledger
           counts == verdict = "exit" /\ ~peer /\ node \in Nodes
                       /\ blamed[node] < StrikesPerNode
           struck == IF node = ledger.node THEN ledger.strikes + 1 ELSE 1
<1>1. /\ ledger \in Ledger /\ ledger' \in Ledger
      /\ blamed \in [Nodes -> 0 .. StrikesPerNode]
  BY FreezeType DEF LedgerInv, TypeOK
<1>2. ledger' = new /\ blamed' = IF counts THEN [blamed EXCEPT ![node] = @ + 1] ELSE blamed
  BY DEF Freeze, Remember
<1>3. StrikesAreBlamed
  BY DEF Freeze, Save, LedgerInv, HistoryInv
<1>4. \/ /\ new.node = ledger.node
         /\ new.strikes <= ledger.strikes
         /\ new.tried \subseteq ledger.tried
      \/ /\ verdict = "exit" /\ ~peer
         /\ new.node = node
         /\ new.strikes <= struck
         /\ new.tried \subseteq ledger.tried
      \/ /\ verdict = "exit" /\ ~peer
         /\ new.node = node
         /\ new.strikes <= struck
         /\ struck >= StrikesPerNode
         /\ new.tried \subseteq ledger.tried \cup {node}
  BY <1>1, RecordStrikes
<1> HIDE DEF new
<1>5. \A n \in Nodes : blamed[n] \in Nat /\ blamed'[n] \in Nat /\ blamed'[n] >= blamed[n]
  BY <1>1, <1>2, PolicyAssumption
<1>6. ASSUME verdict = "exit", ~peer, node \in Nodes
      PROVE  blamed'[node] >= StrikesPerNode \/ blamed'[node] >= struck
  <2>1. CASE counts
    <3>1. blamed'[node] = blamed[node] + 1
      BY <1>1, <1>2, <1>6, <2>1
    <3> QED
      BY <3>1, <1>1, <1>3, <1>6, PolicyAssumption DEF StrikesAreBlamed, Ledger
  <2>2. CASE ~counts
    BY <1>1, <1>2, <1>6, <2>2, PolicyAssumption
  <2> QED
    BY <2>1, <2>2
<1>7. ledger'.strikes \in Nat /\ ledger.strikes \in Nat /\ struck \in Nat
  BY <1>1 DEF Ledger
<1>8. ledger'.node \in Nodes => \/ blamed'[ledger'.node] >= StrikesPerNode
                                \/ blamed'[ledger'.node] >= ledger'.strikes
  <2> SUFFICES ASSUME ledger'.node \in Nodes
               PROVE  \/ blamed'[ledger'.node] >= StrikesPerNode
                      \/ blamed'[ledger'.node] >= ledger'.strikes
    OBVIOUS
  <2>1. CASE new.node = ledger.node /\ new.strikes <= ledger.strikes
    BY <2>1, <1>2, <1>3, <1>5, <1>7, PolicyAssumption DEF StrikesAreBlamed
  <2>2. CASE verdict = "exit" /\ ~peer /\ new.node = node /\ new.strikes <= struck
    <3>1. blamed'[node] >= StrikesPerNode \/ blamed'[node] >= struck
      BY <2>2, <1>2, <1>6
    <3>2. node \in Nodes /\ blamed'[node] \in Nat
      BY <2>2, <1>2, <1>5
    <3> HIDE DEF struck
    <3> QED
      BY <2>2, <3>1, <3>2, <1>2, <1>7, PolicyAssumption
  <2> QED
    BY <1>4, <2>1, <2>2
<1>9. ASSUME NEW n \in ledger'.tried PROVE blamed'[n] >= StrikesPerNode
  <2>1. n \in Nodes
    BY <1>1 DEF Ledger
  <2>2. CASE n \in ledger.tried
    BY <2>1, <2>2, <1>3, <1>5, PolicyAssumption DEF StrikesAreBlamed
  <2>3. CASE n \notin ledger.tried
    <3>1. n = node /\ verdict = "exit" /\ ~peer /\ struck >= StrikesPerNode
      BY <2>3, <1>2, <1>4
    <3>2. blamed'[n] \in Nat /\ (blamed'[n] >= StrikesPerNode \/ blamed'[n] >= struck)
      BY <3>1, <2>1, <1>5, <1>6
    <3> HIDE DEF struck
    <3> QED
      BY <3>1, <3>2, <1>7, PolicyAssumption
  <2> QED
    BY <2>2, <2>3
<1> QED
  BY <1>8, <1>9 DEF StrikesAreBlamed

LEMMA FreezeHistory ==
    ASSUME LedgerInv, NEW verdict, NEW node, NEW pinned, NEW candidates, NEW peer,
           NEW saved \in BOOLEAN,
           Inputs(verdict, node, pinned, candidates, peer),
           Freeze(verdict, node, pinned, candidates, peer, saved)
    PROVE  HistoryInv'
<1>1. CASE saveFailed'
  BY <1>1 DEF Freeze, Remember, HistoryInv, NothingTold
<1>2. CASE ~saveFailed'
  <2>1. disk' = ledger'
    BY <1>2 DEF Freeze, Save
  <2> QED
    BY <1>2, <2>1, FreezeMarks, FreezeStrikes DEF HistoryInv
<1> QED
  BY <1>1, <1>2

(* Carrying out an announcement uses it up.                                *)
LEMMA ActHistory == ASSUME LedgerInv, Act PROVE HistoryInv'
<1>1. CASE saveFailed
  BY <1>1 DEF Act, Remember, HistoryInv, NothingTold
<1>2. CASE ~saveFailed
  <2> USE <1>2 DEF Act, Remember
  <2>1. disk' = ledger' /\ blamed' = blamed /\ ledger' = ledger /\ todo' = "nothing"
    BY DEF LedgerInv, HistoryInv
  <2>2. StrikesAreBlamed'
    BY <2>1 DEF LedgerInv, HistoryInv, StrikesAreBlamed
  <2>3. ASSUME NEW a \in Announcements, NEW mark, MarkedOnce(a, mark)
        PROVE  told'[a] <= 1 /\ (told'[a] = 1 => mark)
    <3>1. told \in [Announcements -> Nat]
      BY DEF LedgerInv, TypeOK
    <3>2. CASE todo = a
      BY <3>1, <3>2, <2>3 DEF MarkedOnce
    <3>3. CASE todo # a
      BY <3>1, <3>3, <2>3 DEF MarkedOnce
    <3> QED
      BY <3>2, <3>3
  <2>4. /\ MarkedOnce("report", ledger.reported)
        /\ MarkedOnce("give-up", ledger.given_up)
        /\ MarkedOnce("back-off", ledger.exhausted)
    BY DEF LedgerInv, HistoryInv
  <2>5. /\ "report" \in Announcements /\ "give-up" \in Announcements
        /\ "back-off" \in Announcements
    BY DEF Announcements
  <2>6. /\ MarkedOnce("report", ledger.reported)'
        /\ MarkedOnce("give-up", ledger.given_up)'
        /\ MarkedOnce("back-off", ledger.exhausted)'
    BY <2>1, <2>3, <2>4, <2>5 DEF MarkedOnce
  <2> QED
    BY <2>1, <2>2, <2>6 DEF HistoryInv
<1> QED
  BY <1>1, <1>2

(* A registration starts a new life, with a clean ledger and history.      *)
LEMMA RegisteredHistory ==
    ASSUME LedgerInv, NEW saved \in BOOLEAN, Registered(saved) PROVE HistoryInv'
<1>1. told' = NothingTold
  BY DEF Registered, Remember
<1>2. CASE ~saveFailed'
  <2>1. /\ ledger' = BlankLedger /\ disk' = ledger' /\ blamed' = NothingBlamed
        /\ todo' = "nothing"
    BY <1>2 DEF Registered, Save, Remember
  <2>2. StrikesAreBlamed'
    BY <2>1, PolicyAssumption DEF StrikesAreBlamed, BlankLedger, NothingBlamed
  <2> QED
    BY <1>1, <1>2, <2>1, <2>2 DEF HistoryInv, MarkedOnce, NothingTold, Announcements
<1> QED
  BY <1>1, <1>2 DEF HistoryInv, NothingTold

(* A restart loads what was saved, and drops what was not carried out.     *)
LEMMA RestartHistory == ASSUME LedgerInv, Restart PROVE HistoryInv'
<1>1. CASE saveFailed
  BY <1>1 DEF Restart, LedgerInv, HistoryInv, NothingTold
<1>2. CASE ~saveFailed
  <2>1. /\ ledger' = ledger /\ disk' = ledger' /\ blamed' = blamed /\ told' = told
        /\ todo' = "nothing" /\ saveFailed' = saveFailed
    BY <1>2 DEF Restart, LedgerInv, HistoryInv
  <2> QED
    BY <1>2, <2>1 DEF LedgerInv, HistoryInv, MarkedOnce, StrikesAreBlamed
<1> QED
  BY <1>1, <1>2

LEMMA LedgerInvInit == Init => LedgerInv
<1> SUFFICES ASSUME Init PROVE LedgerInv
  OBVIOUS
<1>1. TypeOK /\ NeverBoth(ledger) /\ NeverBoth(disk)
  BY TypeInit, BlankLedgerNeverBoth DEF Init
<1>2. StrikesAreBlamed
  BY PolicyAssumption DEF Init, StrikesAreBlamed, BlankLedger, NothingBlamed
<1>3. HistoryInv
  BY <1>2 DEF Init, HistoryInv, MarkedOnce, NothingTold, Announcements
<1> QED
  BY <1>1, <1>3 DEF LedgerInv

LEMMA LedgerInvStep == LedgerInv /\ [Next]_vars => LedgerInv'
<1> SUFFICES ASSUME LedgerInv, [Next]_vars PROVE LedgerInv'
  OBVIOUS
<1>1. TypeOK'
  BY TypeStep DEF LedgerInv
<1>2. NeverBoth(ledger)' /\ NeverBoth(disk)'
  BY NeverBothStep
<1>3. HistoryInv'
  <2>1. ASSUME NEW verdict \in Verdicts, NEW node \in Nodes \cup {NoNode},
               NEW pinned \in BOOLEAN, NEW candidates \in SUBSET Nodes,
               NEW peer \in BOOLEAN, NEW saved \in BOOLEAN,
               Freeze(verdict, node, pinned, candidates, peer, saved)
        PROVE  HistoryInv'
    BY <2>1, FreezeHistory DEF Inputs
  <2>2. CASE Act
    BY <2>2, ActHistory
  <2>3. ASSUME NEW saved \in BOOLEAN, Registered(saved) PROVE HistoryInv'
    BY <2>3, RegisteredHistory
  <2>4. CASE Restart
    BY <2>4, RestartHistory
  <2>5. CASE UNCHANGED vars
    BY <2>5 DEF vars, LedgerInv, HistoryInv, MarkedOnce, StrikesAreBlamed, NothingTold
  <2> QED
    BY <2>1, <2>2, <2>3, <2>4, <2>5 DEF Next
<1> QED
  BY <1>1, <1>2, <1>3 DEF LedgerInv

THEOREM LedgerInvariant == Spec => []LedgerInv
  BY LedgerInvInit, LedgerInvStep, PTL DEF Spec

-----------------------------------------------------------------------------
(* What the invariant is for. *)

(* A stuck line is reported to the operator at most once per ledger life,  *)
(* across every restart of the control plane (_judge_exit_failure).        *)
THEOREM StuckLineReportedOnce == Spec => []ReportedOnce
<1>1. LedgerInv => ReportedOnce
  BY DEF LedgerInv, HistoryInv, MarkedOnce, ReportedOnce, NothingTold, Announcements
<1> QED
  BY <1>1, LedgerInvariant, PTL

(* A pinned exit is given up on, and the operator told, at most once while *)
(* the pin stands (failover.record, Hub.exit_ledgers).                     *)
THEOREM PinGivenUpOnce == Spec => []GivenUpOncePerPin
<1>1. LedgerInv => GivenUpOncePerPin
  BY DEF LedgerInv, HistoryInv, MarkedOnce, GivenUpOncePerPin, NothingTold, Announcements
<1> QED
  BY <1>1, LedgerInvariant, PTL

(* Entering the slow cadence is announced at most once per outage.         *)
THEOREM OutageBackedOffOnce == Spec => []BackedOffOncePerOutage
<1>1. LedgerInv => BackedOffOncePerOutage
  BY DEF LedgerInv, HistoryInv, MarkedOnce, BackedOffOncePerOutage, NothingTold, Announcements
<1> QED
  BY <1>1, LedgerInvariant, PTL

(* A node is in tried only after StrikesPerNode unvetoed failures that     *)
(* were blamed on it, however the failures of several nodes interleave     *)
(* and wherever the control plane was restarted (failover.record).         *)
THEOREM TriedNodesHadTheirChances == Spec => []StruckOut
<1>1. LedgerInv => StruckOut
  BY DEF LedgerInv, HistoryInv, StrikesAreBlamed, StruckOut
<1> QED
  BY <1>1, LedgerInvariant, PTL

(* Waiting for a person and retrying slowly never mix, in memory or in the *)
(* file (apply_health's choice of next_retry_at).                          *)
THEOREM GiveUpAndBackOffExclude == Spec => []StoppedOrSlow
<1>1. LedgerInv => StoppedOrSlow
  BY DEF LedgerInv, NeverBoth, StoppedOrSlow
<1> QED
  BY <1>1, LedgerInvariant, PTL
=============================================================================
