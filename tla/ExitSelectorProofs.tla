------------------------- MODULE ExitSelectorProofs -------------------------
(***************************************************************************)
(* For any nodes, lines, attempts, requests and disturbances: the types of *)
(* ExitSelector, and that a relaunch resumes the exit, a served request    *)
(* leaves the node it was raised against, and a lock is kept.              *)
(*                                                                         *)
(* Between cycles the orchestrator remembers the exit it has published.    *)
(* Between the attempts of one request the failed node stays in its        *)
(* cooldown, unless the whole pool was released.                           *)
(***************************************************************************)
EXTENDS ExitSelector, TLAPS

IdsInv ==
    /\ handled <= mailbox.id /\ asked.id <= mailbox.id /\ retry.id <= mailbox.id
    /\ retry.id > 0 => handled < retry.id
    /\ pc = "ranking" /\ asked.id > 0 => handled < asked.id

CycleInv ==
    /\ pc = "idle" /\ published.node # NoNode => lastExit = published.node
    /\ pc \in {"built", "ranking"} => plan.node = NoNode
    /\ pc = "ranking" => plan.selection # "manual"

(* The failed node of a request in progress.                               *)
Kept(node) == asked.reset \/ node \in cooldown \cup {NoNode}

RequestInv ==
    /\ pc = "ranking" /\ asked.id > 0 /\ ~asked.reset => asked.node \notin asked.pool
    /\ pc = "ranking" /\ asked.id > 0 /\ asked.id = mailbox.id
          => asked.node = mailbox.node /\ Kept(mailbox.node)
    /\ retry.id > 0 /\ retry.attempts > 0 /\ retry.id = mailbox.id
          => asked.id = mailbox.id /\ Kept(mailbox.node)

SInv == SelectorTypeOK /\ IdsInv /\ CycleInv /\ RequestInv

(* What the three action properties say of one step.                       *)
Resumed ==
    /\ pc = "idle" /\ pc' = "built"
    /\ published.node \in members /\ ~Locked
    /\ running \in {NoNode, published.node}
    => running' = published.node
Avoided ==
    /\ pc = "ranking" /\ pc' = "settled"
    /\ asked.id > 0 /\ ~asked.reset
    /\ handled' = asked.id /\ lastExit' = running' /\ plan'.node # NoNode
    => running' # asked.node
Held ==
    /\ Locked /\ pin' = pin /\ members' = members
    /\ plan.selection = "manual" /\ running = pin.node /\ generated.default = pin.node
    => running' \in {running, NoNode}
Sound == Resumed /\ Avoided /\ Held

-----------------------------------------------------------------------------
(* The configuration names a node that is offered.                         *)
LEMMA DefaultOffered ==
    ASSUME SelectorTypeOK
    PROVE  /\ Default \in members /\ members \subseteq Nodes
           /\ Rendered \in Config
           /\ ThisPlan \in [selection : Selections, prefer : Nodes \cup {NoNode},
                            node : Nodes \cup {NoNode}, members : SUBSET Nodes]
           /\ ThisPlan.node = NoNode
  <1>1. members \subseteq Nodes /\ members # {}
    BY DEF SelectorTypeOK
  <1>2. Pinned => pin.node \in members /\ pin.node \in Nodes
    BY <1>1 DEF Pinned
  <1>3. (CHOOSE n \in members : TRUE) \in members
    BY <1>1
  <1>4. Default \in members
    BY <1>2, <1>3 DEF Default, Locked
  <1>5. Rendered \in Config
    BY <1>1, <1>4 DEF Rendered, Config
  <1>6. ThisPlan.node = NoNode
    BY DEF ThisPlan
  <1>7. ThisPlan \in [selection : Selections, prefer : Nodes \cup {NoNode},
                      node : Nodes \cup {NoNode}, members : SUBSET Nodes]
    BY <1>1, <1>2 DEF ThisPlan, Selections
  <1> QED
    BY <1>1, <1>4, <1>5, <1>6, <1>7

(* A relaunch begins the cycle with the default node.                      *)
LEMMA LaunchKeeps ==
    ASSUME SInv, pc = "idle", pc' = "built", StartOver, running' = Default, plan' = ThisPlan,
           started' \in Config, generated' \in Config, disturbances' \in 0 .. MaxDisturbances,
           UNCHANGED <<documents, cooldown, retry, handled, published, asked>>
    PROVE  SInv' /\ Sound
  <1>1. SelectorTypeOK'
    BY DefaultOffered DEF SInv, SelectorTypeOK, StartOver, documents
  <1>2. IdsInv' /\ RequestInv'
    BY DEF SInv, IdsInv, RequestInv, Kept, documents
  <1>3. CycleInv'
    BY DefaultOffered DEF SInv, CycleInv
  <1>4. Resumed
    BY DefaultOffered, SelectorAssumption DEF SInv, CycleInv, Resumed, Default, documents
  <1>5. Avoided
    BY DEF Avoided
  <1>6. Held
    BY DEF Held, Default, documents
  <1> QED
    BY <1>1, <1>2, <1>3, <1>4, <1>5, <1>6 DEF SInv, Sound

LEMMA CycleBeginsKeeps ==
    ASSUME SInv, Keep \/ Relaunch \/ RelaunchForOther
    PROVE  SInv' /\ Sound
  <1>1. CASE Keep
    <2>1. UNCHANGED <<documents, singbox, memory, asked, disturbances>> /\ plan' = ThisPlan
          /\ pc = "idle" /\ pc' = "built" /\ running # NoNode
      BY <1>1 DEF Keep
    <2>2. SelectorTypeOK'
      BY <2>1, DefaultOffered DEF SInv, SelectorTypeOK, documents, singbox, memory
    <2>3. IdsInv' /\ RequestInv'
      BY <2>1 DEF SInv, IdsInv, RequestInv, Kept, documents, memory
    <2>4. CycleInv'
      BY <2>1, DefaultOffered DEF SInv, CycleInv
    <2>5. Sound
      BY <2>1 DEF Sound, Resumed, Avoided, Held, singbox
    <2> QED
      BY <2>2, <2>3, <2>4, <2>5 DEF SInv
  <1>2. CASE Relaunch
    <2>1. started' = Rendered /\ generated' = Rendered /\ disturbances' = disturbances
      BY <1>2 DEF Relaunch
    <2>2. started' \in Config /\ generated' \in Config /\ disturbances' \in 0 .. MaxDisturbances
      BY <2>1, DefaultOffered DEF SInv, SelectorTypeOK
    <2> QED
      BY <1>2, <2>2, LaunchKeeps DEF Relaunch
  <1>3. CASE RelaunchForOther
    <2>1. started' = started /\ generated' = generated
      BY <1>3 DEF RelaunchForOther
    <2>2. started' \in Config /\ generated' \in Config /\ disturbances' \in 0 .. MaxDisturbances
      BY <1>3, <2>1, SelectorAssumption DEF SInv, SelectorTypeOK, RelaunchForOther, Disturb
    <2> QED
      BY <1>3, <2>2, LaunchKeeps DEF RelaunchForOther
  <1> QED
    BY <1>1, <1>2, <1>3

LEMMA RelaunchFailsKeeps ==
    ASSUME SInv, RelaunchFails
    PROVE  SInv' /\ Sound
  <1>1. /\ UNCHANGED <<documents, started, generated, cooldown, retry, handled, cycle>>
        /\ StartOver /\ running' \in {running, generated.default}
        /\ published' = [node |-> NoNode, selection |-> ThisPlan.selection, candidates |-> members]
        /\ disturbances' \in 0 .. MaxDisturbances
    BY SelectorAssumption DEF RelaunchFails, Disturb, SInv, SelectorTypeOK
  <1>2. SelectorTypeOK'
    <2>1. running' \in Nodes \cup {NoNode}
      BY <1>1 DEF SInv, SelectorTypeOK, Config
    <2>2. ThisPlan.selection \in Selections
      BY DefaultOffered DEF SInv
    <2>3. published' \in [node : Nodes \cup {NoNode}, selection : Selections,
                          candidates : SUBSET Nodes]
      BY <1>1, <2>2 DEF SInv, SelectorTypeOK
    <2> QED
      BY <1>1, <2>1, <2>3 DEF SInv, SelectorTypeOK, StartOver, documents, cycle
  <1>3. IdsInv' /\ RequestInv'
    BY <1>1 DEF SInv, IdsInv, RequestInv, Kept, documents, cycle
  <1>4. CycleInv'
    BY <1>1 DEF SInv, CycleInv, cycle
  <1>5. Sound
    BY <1>1 DEF Sound, Resumed, Avoided, Held, cycle
  <1> QED
    BY <1>2, <1>3, <1>4, <1>5 DEF SInv

-----------------------------------------------------------------------------
(* The rest of a cycle.                                                    *)
LEMMA SkipKeeps ==
    ASSUME SInv, Skip
    PROVE  SInv' /\ Sound
  <1>1. pc = "built" /\ pc' = "settled"
        /\ UNCHANGED <<documents, singbox, memory, plan, asked, disturbances>>
    BY DEF Skip
  <1>2. SelectorTypeOK'
    BY <1>1 DEF SInv, SelectorTypeOK, documents, singbox, memory
  <1>3. IdsInv' /\ CycleInv' /\ RequestInv'
    BY <1>1 DEF SInv, IdsInv, CycleInv, RequestInv, Kept, documents, memory
  <1>4. Sound
    BY <1>1 DEF Sound, Resumed, Avoided, Held, singbox
  <1> QED
    BY <1>2, <1>3, <1>4 DEF SInv

LEMMA DropStaleKeeps ==
    ASSUME SInv, DropStale
    PROVE  SInv' /\ Sound
  <1>1. /\ pc = "built" /\ pc' = "settled" /\ handled' = mailbox.id /\ retry' = NoRetry
        /\ UNCHANGED <<documents, singbox, lastExit, unranked, cooldown, published,
                       plan, asked, disturbances>>
    BY DEF DropStale, MayServe
  <1>2. NoRetry \in [id : 0 .. MaxRequests, attempts : 0 .. MaxAttempts - 1, waiting : BOOLEAN]
    BY SelectorAssumption DEF NoRetry
  <1>3. SelectorTypeOK'
    BY <1>1, <1>2 DEF SInv, SelectorTypeOK, documents, singbox
  <1>4. IdsInv' /\ CycleInv' /\ RequestInv'
    BY <1>1 DEF SInv, IdsInv, CycleInv, RequestInv, Kept, NoRetry, documents, SelectorTypeOK
  <1>5. Sound
    BY <1>1 DEF Sound, Resumed, Avoided, Held, singbox
  <1> QED
    BY <1>3, <1>4, <1>5 DEF SInv

LEMMA StartRankingKeeps ==
    ASSUME SInv, StartRanking
    PROVE  SInv' /\ Sound
  <1> DEFINE attempts == IF retry.id = RetryKey THEN retry.attempts ELSE 0
             cooling == Cooling(attempts)
             reset == plan.members \subseteq cooling
  <1>1. /\ pc = "built" /\ pc' = "ranking" /\ plan.selection # "manual"
        /\ cooldown' = IF reset THEN {} ELSE cooling
        /\ asked' = [id |-> RetryKey, attempts |-> attempts,
                     reset |-> reset \/ (asked.reset /\ asked.id = RetryKey),
                     node |-> IF Pending THEN mailbox.node ELSE NoNode,
                     pool |-> IF reset THEN plan.members ELSE plan.members \ cooling]
        /\ UNCHANGED <<documents, singbox, lastExit, unranked, retry, handled,
                       published, plan, disturbances>>
    BY DEF StartRanking, MayServe
  <1>2. /\ attempts \in 0 .. MaxAttempts - 1 /\ RetryKey \in 0 .. MaxRequests
        /\ RetryKey <= mailbox.id /\ (Pending <=> RetryKey > 0)
        /\ RetryKey > 0 => RetryKey = mailbox.id /\ handled < RetryKey
        /\ mailbox.id > handled => RetryKey = mailbox.id
    BY SelectorAssumption DEF SInv, SelectorTypeOK, RetryKey, Pending
  <1>3. cooling \subseteq Nodes /\ cooldown \subseteq cooling
    BY DEF SInv, SelectorTypeOK, Cooling
  <1>4. /\ asked'.id = RetryKey
        /\ asked'.reset <=> reset \/ (asked.reset /\ asked.id = RetryKey)
        /\ asked'.node = IF Pending THEN mailbox.node ELSE NoNode
        /\ asked'.pool = IF reset THEN plan.members ELSE plan.members \ cooling
    BY <1>1
  <1>5. SelectorTypeOK'
    <2>1. asked' \in [id : 0 .. MaxRequests, node : Nodes \cup {NoNode},
                      attempts : 0 .. MaxAttempts - 1, pool : SUBSET Nodes, reset : BOOLEAN]
      <3>1. (reset \/ (asked.reset /\ asked.id = RetryKey)) \in BOOLEAN
        OBVIOUS
      <3>2. (IF Pending THEN mailbox.node ELSE NoNode) \in Nodes \cup {NoNode}
        BY DEF SInv, SelectorTypeOK
      <3>3. (IF reset THEN plan.members ELSE plan.members \ cooling) \in SUBSET Nodes
        BY DEF SInv, SelectorTypeOK
      <3> HIDE DEF attempts, cooling, reset
      <3> QED
        BY <1>1, <1>2, <3>1, <3>2, <3>3
    <2>2. cooldown' \in SUBSET Nodes
      BY <1>1, <1>3
    <2> HIDE DEF attempts, cooling, reset
    <2> QED
      BY <1>1, <2>1, <2>2 DEF SInv, SelectorTypeOK, documents, singbox
  <1>6. IdsInv'
    <2>1. mailbox' = mailbox /\ retry' = retry /\ handled' = handled /\ asked'.id = RetryKey
      BY <1>1, <1>4 DEF documents
    <2> HIDE DEF attempts, cooling, reset
    <2> QED
      BY <1>2, <2>1 DEF SInv, IdsInv
  <1>7. CycleInv'
    BY <1>1 DEF SInv, CycleInv
  <1>8. RequestInv'
    <2>1. RetryKey > 0 /\ ~asked'.reset => mailbox.node \in cooling \cup {NoNode}
      <3>1. CASE retry.id = RetryKey /\ retry.attempts > 0
        BY <1>2, <1>3, <1>4, <3>1 DEF SInv, RequestInv, Kept
      <3>2. CASE ~(retry.id = RetryKey /\ retry.attempts > 0)
        BY <1>2, <3>2 DEF Cooling, SInv, SelectorTypeOK
      <3> QED
        BY <3>1, <3>2
    <2>2. mailbox' = mailbox /\ retry' = retry
      BY <1>1 DEF documents
    <2>3. NoNode \notin plan.members
      BY SelectorAssumption DEF SInv, SelectorTypeOK
    <2>4. ~asked'.reset => cooldown' = cooling
      BY <1>1, <1>4
    <2>5. asked'.id > 0 /\ ~asked'.reset => asked'.node \notin asked'.pool
      BY <1>2, <1>4, <2>1, <2>3
    <2>6. asked'.id > 0 => asked'.node = mailbox'.node /\ Kept(mailbox.node)'
      BY <1>2, <1>4, <2>1, <2>2, <2>4 DEF Kept
    <2>7. retry.id > 0 /\ retry.attempts > 0 /\ retry.id = mailbox.id
              => asked'.id = mailbox.id /\ Kept(mailbox.node)'
      <3> SUFFICES ASSUME retry.id > 0, retry.attempts > 0, retry.id = mailbox.id
                   PROVE  asked'.id = mailbox.id /\ Kept(mailbox.node)'
        OBVIOUS
      <3>1. RetryKey = mailbox.id
        BY <1>2 DEF SInv, IdsInv
      <3> QED
        BY <1>4, <2>2, <2>6, <3>1
    <2> HIDE DEF attempts, cooling, reset
    <2> QED
      BY <2>2, <2>5, <2>6, <2>7 DEF RequestInv
  <1>9. Sound
    BY <1>1 DEF Sound, Resumed, Avoided, Held, singbox
  <1> QED
    BY <1>5, <1>6, <1>7, <1>8, <1>9 DEF SInv

LEMMA SelectKeeps ==
    ASSUME SInv, NEW usable \in SUBSET Nodes, NEW best \in Nodes, Select(usable, best)
    PROVE  SInv' /\ Sound
  <1>1. /\ pc = "ranking" /\ pc' = "settled" /\ best \in asked.pool
        /\ running' = best /\ lastExit' = best /\ plan' = [plan EXCEPT !.node = best]
        /\ unranked' = FALSE /\ retry' = NoRetry /\ handled' = Served
        /\ UNCHANGED <<documents, started, generated, warm, cooldown, published, asked,
                       disturbances>>
    BY DEF Select
  <1>2. NoRetry \in [id : 0 .. MaxRequests, attempts : 0 .. MaxAttempts - 1, waiting : BOOLEAN]
    BY SelectorAssumption DEF NoRetry
  <1>3. handled' \in 0 .. MaxRequests /\ handled' <= mailbox.id
    BY <1>1 DEF Served, SInv, SelectorTypeOK, IdsInv
  <1>4. plan' \in [selection : Selections, prefer : Nodes \cup {NoNode},
                   node : Nodes \cup {NoNode}, members : SUBSET Nodes]
    BY <1>1 DEF SInv, SelectorTypeOK
  <1>5. SelectorTypeOK'
    BY <1>1, <1>2, <1>3, <1>4 DEF SInv, SelectorTypeOK, documents
  <1>6. IdsInv' /\ CycleInv' /\ RequestInv'
    BY <1>1, <1>3 DEF SInv, IdsInv, CycleInv, RequestInv, Kept, NoRetry, documents, SelectorTypeOK
  <1>7. Sound
    BY <1>1 DEF Sound, Resumed, Avoided, Held, SInv, CycleInv, RequestInv
  <1> QED
    BY <1>5, <1>6, <1>7 DEF SInv

LEMMA RankingFailsKeeps ==
    ASSUME SInv, RankingFails
    PROVE  SInv' /\ Sound
  <1>1. /\ pc = "ranking" /\ pc' = "settled"
        /\ UNCHANGED <<documents, singbox, lastExit, unranked, cooldown, published,
                       plan, asked, disturbances>>
    BY DEF RankingFails
  <1>2. handled' \in 0 .. MaxRequests /\ handled' <= mailbox.id
    BY DEF RankingFails, Served, SInv, SelectorTypeOK, IdsInv
  <1>3. /\ retry' \in [id : 0 .. MaxRequests, attempts : 0 .. MaxAttempts - 1, waiting : BOOLEAN]
        /\ retry'.id = 0 \/ (retry'.id = asked.id /\ handled' = handled)
    <2>1. CASE asked.id > 0 /\ asked.attempts + 1 >= MaxAttempts
      <3>1. retry' = NoRetry
        BY <2>1 DEF RankingFails
      <3>2. NoRetry \in [id : 0 .. MaxRequests, attempts : 0 .. MaxAttempts - 1,
                         waiting : BOOLEAN]
        BY SelectorAssumption DEF NoRetry
      <3>3. NoRetry.id = 0
        BY DEF NoRetry
      <3>4. retry'.id = 0
        BY <3>1, <3>3
      <3> QED
        BY <3>1, <3>2, <3>4
    <2>2. CASE ~(asked.id > 0 /\ asked.attempts + 1 >= MaxAttempts)
      <3>1. retry' = [id |-> asked.id, waiting |-> TRUE,
                      attempts |-> IF asked.id > 0 THEN asked.attempts + 1 ELSE 0]
            /\ handled' = handled
        BY <2>2 DEF RankingFails
      <3>2. (IF asked.id > 0 THEN asked.attempts + 1 ELSE 0) \in 0 .. MaxAttempts - 1
        BY <2>2, SelectorAssumption DEF SInv, SelectorTypeOK
      <3>3. asked.id \in 0 .. MaxRequests
        BY DEF SInv, SelectorTypeOK
      <3> QED
        BY <3>1, <3>2, <3>3
    <2> QED
      BY <2>1, <2>2
  <1>4. SelectorTypeOK'
    BY <1>1, <1>2, <1>3 DEF SInv, SelectorTypeOK, documents, singbox
  <1>5. IdsInv' /\ CycleInv'
    BY <1>1, <1>2, <1>3 DEF SInv, IdsInv, CycleInv, documents, SelectorTypeOK
  <1>6. RequestInv'
    BY <1>1, <1>3 DEF SInv, RequestInv, Kept, documents
  <1>7. Sound
    BY <1>1 DEF Sound, Resumed, Avoided, Held, SInv, CycleInv, singbox
  <1> QED
    BY <1>4, <1>5, <1>6, <1>7 DEF SInv

LEMMA PublishKeeps ==
    ASSUME SInv, NEW answers \in BOOLEAN, Publish(answers)
    PROVE  SInv' /\ Sound
  <1> DEFINE node == IF answers THEN running ELSE plan.node
  <1>1. /\ pc = "settled" /\ pc' = "idle"
        /\ published' = [node |-> node, selection |-> plan.selection, candidates |-> plan.members]
        /\ lastExit' = IF node = NoNode THEN lastExit ELSE node
        /\ UNCHANGED <<documents, singbox, unranked, cooldown, retry, handled,
                       plan, asked, disturbances>>
    BY DEF Publish
  <1>2. node \in Nodes \cup {NoNode} /\ lastExit' \in Nodes \cup {NoNode}
    BY <1>1 DEF SInv, SelectorTypeOK
  <1>3. published' \in [node : Nodes \cup {NoNode}, selection : Selections,
                        candidates : SUBSET Nodes]
    BY <1>1, <1>2 DEF SInv, SelectorTypeOK
  <1>4. SelectorTypeOK'
    BY <1>1, <1>2, <1>3 DEF SInv, SelectorTypeOK, documents, singbox
  <1>5. IdsInv' /\ CycleInv' /\ RequestInv'
    BY <1>1 DEF SInv, IdsInv, CycleInv, RequestInv, Kept, documents
  <1>6. Sound
    BY <1>1 DEF Sound, Resumed, Avoided, Held, singbox
  <1> QED
    BY <1>4, <1>5, <1>6 DEF SInv

-----------------------------------------------------------------------------
(* The world outside a cycle.                                              *)
LEMMA DocumentsKeep ==
    ASSUME SInv, (\E p \in Pins : SetPin(p))
                 \/ (\E offered \in (SUBSET Nodes) \ {{}} : FeedChanges(offered)) \/ Ask
    PROVE  SInv' /\ Sound
  <1>1. UNCHANGED <<singbox, memory, cycle>>
    BY DEF SetPin, FeedChanges, Ask
  <1>2. /\ pin' \in Pins /\ members' \in (SUBSET Nodes) \ {{}}
        /\ disturbances' \in 0 .. MaxDisturbances
    BY SelectorAssumption DEF SetPin, FeedChanges, Ask, Disturb, SInv, SelectorTypeOK
  <1>3. \/ mailbox' = mailbox
        \/ /\ mailbox' \in [id : 0 .. MaxRequests, node : Nodes \cup {NoNode},
                            line : Lines \cup {NoLine}]
           /\ mailbox'.id = mailbox.id + 1
    <2>1. CASE Ask
      <3>1. PICK l \in Lines : RequestReselect(l)
        BY <2>1 DEF Ask
      <3>2. mailbox.id + 1 \in 0 .. MaxRequests /\ published.node \in Nodes \cup {NoNode}
        BY <3>1, SelectorAssumption DEF RequestReselect, SInv, SelectorTypeOK
      <3> QED
        BY <3>1, <3>2 DEF RequestReselect
    <2>2. CASE ~Ask
      BY <2>2 DEF SetPin, FeedChanges
    <2> QED
      BY <2>1, <2>2
  <1>4. SelectorTypeOK'
    BY <1>1, <1>2, <1>3 DEF SInv, SelectorTypeOK, singbox, memory, cycle
  <1>5. IdsInv' /\ CycleInv' /\ RequestInv'
    BY <1>1, <1>3
       DEF SInv, IdsInv, CycleInv, RequestInv, Kept, singbox, memory, cycle, SelectorTypeOK
  <1>6. Sound
    BY <1>1 DEF Sound, Resumed, Avoided, Held, singbox, cycle
  <1> QED
    BY <1>4, <1>5, <1>6 DEF SInv

LEMMA TimersKeep ==
    ASSUME SInv, WarmUp \/ RetryDue \/ \E n \in Nodes : CooldownOver(n)
    PROVE  SInv' /\ Sound
  <1>1. CASE WarmUp
    BY <1>1 DEF WarmUp, SInv, SelectorTypeOK, IdsInv, CycleInv, RequestInv, Kept, Sound,
                Resumed, Avoided, Held, documents, memory, cycle
  <1>2. CASE RetryDue
    <2>1. UNCHANGED <<documents, singbox, lastExit, unranked, cooldown, handled,
                      published, cycle, disturbances>>
          /\ retry' = [retry EXCEPT !.waiting = FALSE]
      BY <1>2 DEF RetryDue
    <2>2. retry' \in [id : 0 .. MaxRequests, attempts : 0 .. MaxAttempts - 1, waiting : BOOLEAN]
          /\ retry'.id = retry.id /\ retry'.attempts = retry.attempts
      BY <2>1 DEF SInv, SelectorTypeOK
    <2>3. SelectorTypeOK'
      BY <2>1, <2>2 DEF SInv, SelectorTypeOK, documents, singbox, cycle
    <2>4. IdsInv' /\ CycleInv' /\ RequestInv'
      BY <2>1, <2>2 DEF SInv, IdsInv, CycleInv, RequestInv, Kept, documents, cycle
    <2>5. Sound
      BY <2>1 DEF Sound, Resumed, Avoided, Held, singbox, cycle
    <2> QED
      BY <2>3, <2>4, <2>5 DEF SInv
  <1>3. ASSUME NEW n \in Nodes, CooldownOver(n)
        PROVE  SInv' /\ Sound
    <2>1. UNCHANGED <<documents, singbox, lastExit, unranked, retry, handled,
                      published, cycle, disturbances>>
          /\ cooldown' = cooldown \ {n} /\ pc # "ranking"
      BY <1>3 DEF CooldownOver
    <2>2. SelectorTypeOK'
      BY <2>1 DEF SInv, SelectorTypeOK, documents, singbox, cycle
    <2>3. IdsInv' /\ CycleInv'
      BY <2>1 DEF SInv, IdsInv, CycleInv, documents, cycle
    <2>4. RequestInv'
      BY <1>3, <2>1 DEF CooldownOver, SInv, IdsInv, RequestInv, Kept, documents, cycle, Pending,
                        SelectorTypeOK
    <2>5. Sound
      BY <2>1 DEF Sound, Resumed, Avoided, Held, singbox, cycle
    <2> QED
      BY <2>2, <2>3, <2>4, <2>5 DEF SInv
  <1> QED
    BY <1>1, <1>2, <1>3

LEMMA RestartKeeps ==
    ASSUME SInv, Restart
    PROVE  SInv' /\ Sound
  <1>1. /\ running' = NoNode /\ started' = NoConfig /\ warm' = FALSE /\ lastExit' = published.node
        /\ unranked' = FALSE /\ cooldown' = {} /\ retry' = NoRetry /\ pc' = "idle"
        /\ UNCHANGED <<documents, generated, handled, published, plan, asked>>
        /\ disturbances' \in 0 .. MaxDisturbances
    BY SelectorAssumption DEF Restart, Disturb, SInv, SelectorTypeOK
  <1>2. NoRetry \in [id : 0 .. MaxRequests, attempts : 0 .. MaxAttempts - 1, waiting : BOOLEAN]
        /\ NoConfig \in Config
    BY SelectorAssumption DEF NoRetry, NoConfig, Config
  <1>3. SelectorTypeOK'
    BY <1>1, <1>2 DEF SInv, SelectorTypeOK, documents
  <1>4. IdsInv' /\ CycleInv' /\ RequestInv'
    BY <1>1 DEF SInv, IdsInv, CycleInv, RequestInv, NoRetry, documents, SelectorTypeOK
  <1>5. Sound
    BY <1>1 DEF Sound, Resumed, Avoided, Held
  <1> QED
    BY <1>3, <1>4, <1>5 DEF SInv

-----------------------------------------------------------------------------
LEMMA InitHolds ==
    ASSUME SelectorInit
    PROVE  SInv
  <1>1. /\ members \in (SUBSET Nodes) \ {{}} /\ pin \in Pins
        /\ mailbox \in [id : 0 .. MaxRequests, node : Nodes \cup {NoNode},
                        line : Lines \cup {NoLine}]
    BY SelectorAssumption DEF SelectorInit, Pins
  <1>2. /\ started \in Config /\ generated \in Config
        /\ retry \in [id : 0 .. MaxRequests, attempts : 0 .. MaxAttempts - 1, waiting : BOOLEAN]
    BY SelectorAssumption DEF SelectorInit, Config, NoConfig, NoRetry
  <1>3. /\ published \in [node : Nodes \cup {NoNode}, selection : Selections,
                          candidates : SUBSET Nodes]
        /\ plan \in [selection : Selections, prefer : Nodes \cup {NoNode},
                     node : Nodes \cup {NoNode}, members : SUBSET Nodes]
        /\ asked \in [id : 0 .. MaxRequests, node : Nodes \cup {NoNode},
                      attempts : 0 .. MaxAttempts - 1, pool : SUBSET Nodes, reset : BOOLEAN]
    BY SelectorAssumption DEF SelectorInit, Selections
  <1>4. /\ running \in Nodes \cup {NoNode} /\ lastExit \in Nodes \cup {NoNode}
        /\ cooldown \in SUBSET Nodes /\ pc \in {"idle", "built", "ranking", "settled"}
        /\ warm \in BOOLEAN /\ unranked \in BOOLEAN
    BY Zenon DEF SelectorInit
  <1>5. handled \in 0 .. MaxRequests /\ disturbances \in 0 .. MaxDisturbances
    BY SelectorAssumption DEF SelectorInit
  <1>6. SelectorTypeOK
    BY <1>1, <1>2, <1>3, <1>4, <1>5 DEF SelectorTypeOK
  <1> QED
    BY <1>6 DEF SelectorInit, SInv, IdsInv, CycleInv, RequestInv, NoRetry

LEMMA NextKeeps ==
    ASSUME SInv, [SelectorNext]_selectorVars
    PROVE  SInv' /\ (Sound \/ UNCHANGED selectorVars)
  <1>1. CASE Cycle
    BY <1>1, CycleBeginsKeeps, SkipKeeps, DropStaleKeeps, StartRankingKeeps, SelectKeeps,
       RankingFailsKeeps, PublishKeeps DEF Cycle
  <1>2. CASE Environment
    BY <1>2, DocumentsKeep, CycleBeginsKeeps, RelaunchFailsKeeps, RestartKeeps, TimersKeep
       DEF Environment
  <1>3. CASE Ask
    BY <1>3, DocumentsKeep
  <1>4. CASE UNCHANGED selectorVars
    BY <1>4 DEF SInv, SelectorTypeOK, IdsInv, CycleInv, RequestInv, Kept, selectorVars, documents,
                singbox, memory, cycle
  <1> QED
    BY <1>1, <1>2, <1>3, <1>4 DEF SelectorNext

LEMMA SelectorCorrect == SelectorSpec => []SInv
  BY InitHolds, NextKeeps, PTL DEF SelectorSpec

-----------------------------------------------------------------------------
(* Every variable of the cycle keeps its type (mdd_orchestrator.py).       *)
THEOREM SelectorTypeCorrect == SelectorSpec => []SelectorTypeOK
  <1>1. SInv => SelectorTypeOK
    BY DEF SInv
  <1> QED
    BY <1>1, SelectorCorrect, PTL

(* A rewrite of the configuration or a restart resumes the exit that was   *)
(* published (build_proxy_config).                                         *)
THEOREM RelaunchResumes == SelectorSpec => RelaunchKeepsTheExit
  <1>1. SInv /\ [SelectorNext]_selectorVars =>
            [ /\ pc = "idle" /\ pc' = "built"
              /\ published.node \in members /\ ~Locked
              /\ running \in {NoNode, published.node}
              => running' = published.node ]_selectorVars
    BY NextKeeps DEF Sound, Resumed
  <1> QED
    BY <1>1, SelectorCorrect, PTL DEF SelectorSpec, RelaunchKeepsTheExit

(* A request moves the exit off the node it was raised against, on every   *)
(* attempt (rank_and_select).                                              *)
THEOREM RequestLeavesTheNode == SelectorSpec => FailedNodeAvoided
  <1>1. SInv /\ [SelectorNext]_selectorVars =>
            [ /\ pc = "ranking" /\ pc' = "settled"
              /\ asked.id > 0 /\ ~asked.reset
              /\ handled' = asked.id /\ lastExit' = running' /\ plan'.node # NoNode
              => running' # asked.node ]_selectorVars
    BY NextKeeps DEF Sound, Avoided
  <1> QED
    BY <1>1, SelectorCorrect, PTL DEF SelectorSpec, FailedNodeAvoided

(* A lock in effect is kept by requests, restarts and failed relaunches    *)
(* (process_reselect_requests, apply_singbox).                             *)
THEOREM LockIsKept == SelectorSpec => LockHolds
  <1>1. SInv /\ [SelectorNext]_selectorVars =>
            [ /\ Locked /\ pin' = pin /\ members' = members
              /\ plan.selection = "manual" /\ running = pin.node /\ generated.default = pin.node
              => running' \in {running, NoNode} ]_selectorVars
    BY NextKeeps DEF Sound, Held
  <1> QED
    BY <1>1, SelectorCorrect, PTL DEF SelectorSpec, LockHolds
=============================================================================
