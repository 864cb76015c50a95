-------------------------- MODULE SimAccessProofs --------------------------
(***************************************************************************)
(* For any number of readers, SIMs, lines, moves and requests: no program  *)
(* spends a card's last PIN attempt (TryLeft), and only a person's PIN     *)
(* command costs a verified card one (VerifiedCardSpared).                 *)
(*                                                                         *)
(* A verified card does not tell its attempts, so the guard lets a command *)
(* through to it.  The invariant therefore needs that a verified card has  *)
(* all of them, which holds because verifying restores them and a wrong    *)
(* PIN takes the verification away.                                        *)
(***************************************************************************)
EXTENDS SimAccess, TLAPS

Sound == {c \in Cards : c.tries >= 1 /\ (c.open => c.tries = FullTries)}

IInv == card \in [Sims -> Sound]

(* What a step other than a PIN command may make of card s.                *)
Gentle(s, c) == c \in Sound /\ (card[s].open => c.tries = FullTries)

GentleStep == card' \in [Sims -> Sound] /\ \A s \in Sims : Gentle(s, card'[s])

-----------------------------------------------------------------------------
(* A guarded PIN command leaves a sound card sound.                        *)
LEMMA GuardedSound ==
    ASSUME NEW c \in Sound, NEW right \in BOOLEAN
    PROVE  Guarded(c, right) \in Sound
  BY DEF Guarded, Presented, Sound, Cards, FullTries, MinTries

(* Unlocked is gentle: it leaves a verified card alone.                    *)
LEMMA UnlockedGentle ==
    ASSUME IInv, NEW s \in Sims, NEW right \in BOOLEAN
    PROVE  Gentle(s, Unlocked(card[s], right))
  BY GuardedSound DEF IInv, Unlocked, Gentle, Sound

(* A card that is left as it is, or only asked for its PIN again.          *)
LEMMA KeptSound ==
    ASSUME NEW c \in Sound, NEW keep \in BOOLEAN
    PROVE  Kept(c, keep) \in Sound /\ Kept(c, keep).tries = c.tries
  BY DEF Kept, Sound, Cards, FullTries

LEMMA KeptGentle ==
    ASSUME IInv, NEW s \in Sims, NEW c, Gentle(s, c), NEW keep \in BOOLEAN
    PROVE  Gentle(s, card[s]) /\ Gentle(s, Kept(c, keep))
  BY KeptSound DEF IInv, Gentle, Sound

LEMMA CardGentle ==
    ASSUME IInv, NEW s \in Sims
    PROVE  Gentle(s, card[s])
  BY DEF IInv, Gentle, Sound

LEMMA ClosedGentle ==
    ASSUME IInv, NEW s \in Sims, NEW keep \in BOOLEAN
    PROVE  Gentle(s, Kept(card[s], keep))
  BY CardGentle, KeptGentle

LEMMA HeldBoolean ==
    ASSUME NEW s
    PROVE  Held(s) \in BOOLEAN
  BY DEF Held

LEMMA ReleasedGentle ==
    ASSUME IInv, NEW s \in Sims, NEW c, Gentle(s, c)
    PROVE  Gentle(s, Released(s, c))
  BY KeptGentle, HeldBoolean DEF Released

LEMMA TriedGentle ==
    ASSUME IInv, NEW l, NEW saved, NEW s \in Sims
    PROVE  Gentle(s, Tried(l, saved, s)) /\ Gentle(s, Released(s, Tried(l, saved, s)))
  <1> DEFINE right == s = l /\ saved = "right"
  <1>1. Gentle(s, Tried(l, saved, s))
    <2>1. CASE saved = "none"
      BY <2>1, CardGentle DEF Tried
    <2>2. CASE saved # "none"
      <3>1. Tried(l, saved, s) = Unlocked(card[s], right)
        BY <2>2 DEF Tried
      <3>2. right \in BOOLEAN
        OBVIOUS
      <3> HIDE DEF right
      <3> QED
        BY <3>1, <3>2, UnlockedGentle
    <2> QED
      BY <2>1, <2>2
  <1> QED
    BY <1>1, ReleasedGentle

LEMMA TriedByGentle ==
    ASSUME IInv, NEW l, NEW s \in Sims
    PROVE  Gentle(s, TriedBy(l, s)) /\ Gentle(s, Released(s, TriedBy(l, s)))
  BY TriedGentle DEF TriedBy

-----------------------------------------------------------------------------
(* Steps that change at most one card, or none.                            *)
LEMMA NoCardGentle ==
    ASSUME IInv, UNCHANGED card
    PROVE  GentleStep
  BY CardGentle DEF GentleStep, IInv

LEMMA OneCardGentle ==
    ASSUME IInv, NEW x, NEW c, card' = [card EXCEPT ![x] = c], x \in Sims => Gentle(x, c)
    PROVE  GentleStep
  <1>1. card' = [s \in Sims |-> IF s = x THEN c ELSE card[s]]
    BY DEF IInv
  <1>2. \A s \in Sims : Gentle(s, card'[s])
    BY <1>1, CardGentle
  <1> QED
    BY <1>1, <1>2 DEF GentleStep, Gentle

LEMMA ManyCardsGentle ==
    ASSUME IInv, NEW f, card' = f, f = [s \in Sims |-> f[s]], \A s \in Sims : Gentle(s, f[s])
    PROVE  GentleStep
  BY DEF GentleStep, Gentle

LEMMA ResetGentle ==
    ASSUME IInv, NEW s, card' = Reset(s)
    PROVE  GentleStep
  <1>1. card' = [card EXCEPT ![s] = Kept(card[s], FALSE)]
    BY DEF Reset
  <1> QED
    BY <1>1, ClosedGentle, OneCardGentle

LEMMA UnpoweredGentle ==
    ASSUME IInv, NEW r, Unpowered(r)
    PROVE  GentleStep
  BY ResetGentle, NoCardGentle DEF Unpowered

LEMMA ClosedLinesGentle ==
    ASSUME IInv, NEW ls, Closed(ls)
    PROVE  GentleStep
  <1> DEFINE keep(s) ==
                \E l \in Sims \ ls : engine[l].up /\ engine[l].held /\ at[engine[l].claims] = s
             f == [s \in Sims |-> Kept(card[s], keep(s))]
  <1>1. card' = f
    BY DEF Closed
  <1>2. ASSUME NEW s \in Sims PROVE Gentle(s, f[s])
    <2>1. keep(s) \in BOOLEAN
      OBVIOUS
    <2>2. f[s] = Kept(card[s], keep(s))
      OBVIOUS
    <2> HIDE DEF keep, f
    <2> QED
      BY <2>1, <2>2, ClosedGentle
  <1>3. f = [s \in Sims |-> f[s]]
    OBVIOUS
  <1> HIDE DEF f
  <1> QED
    BY <1>1, <1>2, <1>3, ManyCardsGentle

LEMMA StopLinesGentle ==
    ASSUME IInv, NEW ls, StopLines(ls)
    PROVE  GentleStep
  BY ClosedLinesGentle DEF StopLines

-----------------------------------------------------------------------------
(* The actions.  Only a person's PIN command can be less than gentle.      *)
LEMMA CablingGentle ==
    ASSUME IInv, Cabling
    PROVE  GentleStep
  <1>1. CASE \E r \in Readers : Unplug(r) \/ Pull(r)
    BY <1>1, UnpoweredGentle DEF Unplug, Pull
  <1>2. CASE \E r \in Readers : Plug(r) \/ \E s \in Sims : Insert(r, s)
    BY <1>2, NoCardGentle DEF Plug, Insert
  <1> QED
    BY <1>1, <1>2 DEF Cabling

LEMMA MonitorGentle ==
    ASSUME IInv, Monitor
    PROVE  GentleStep
  <1>1. CASE \E r \in Readers : MonitorForgets(r) \/ MonitorEmpties(r)
    BY <1>1, StopLinesGentle, NoCardGentle DEF MonitorForgets, MonitorEmpties
  <1>2. CASE MonitorScans
    BY <1>2, NoCardGentle DEF MonitorScans, cardVars
  <1>3. CASE \E r \in Readers : MonitorSkips(r) \/ MonitorTrustsEngine(r) \/ MonitorGivesUp(r)
    BY <1>3, NoCardGentle DEF MonitorSkips, MonitorTrustsEngine, MonitorGivesUp, cardVars
  <1>4. CASE \E r \in Readers : MonitorLocks(r) \/ MonitorProbes(r)
    BY <1>4, NoCardGentle DEF MonitorLocks, MonitorProbes, cardVars
  <1> QED
    BY <1>1, <1>2, <1>3, <1>4 DEF Monitor

LEMMA UnlockStartGentle ==
    ASSUME IInv, UnlockStart
    PROVE  GentleStep
  <1> DEFINE right(s) == s = start.line /\ start.supplied = "right"
             c(s) == Released(s, Unlocked(card[s], right(s)))
  <1>1. \/ UNCHANGED card
        \/ \E s : card' = [card EXCEPT ![s] = c(s)]
    BY DEF UnlockStart
  <1>2. ASSUME NEW s \in Sims PROVE Gentle(s, c(s))
    <2>1. right(s) \in BOOLEAN
      OBVIOUS
    <2> HIDE DEF right
    <2> QED
      BY <2>1, UnlockedGentle, ReleasedGentle
  <1> HIDE DEF c
  <1> QED
    BY <1>1, <1>2, NoCardGentle, OneCardGentle

LEMMA PreflightGentle ==
    ASSUME IInv, PreflightVerifies
    PROVE  GentleStep
  <1> DEFINE c(s) == Released(s, Tried(start.line, line[start.line].pin, s))
  <1>1. \/ UNCHANGED card
        \/ \E s : card' = [card EXCEPT ![s] = c(s)]
    BY DEF PreflightVerifies
  <1>2. \A s \in Sims : Gentle(s, c(s))
    BY TriedGentle
  <1> HIDE DEF c
  <1> QED
    BY <1>1, <1>2, NoCardGentle, OneCardGentle

(* The reading after a PIN command leaves a verified card alone.           *)
LEMMA ReadsVerifiedGentle ==
    ASSUME IInv, ReadsVerified
    PROVE  GentleStep
  <1> DEFINE right(s) == pin.right /\ s = pin.meant
             c(s) == Released(s, Unlocked(card[s], right(s)))
  <1>1. \/ UNCHANGED card
        \/ \E s : card' = [card EXCEPT ![s] = c(s)]
    BY DEF ReadsVerified
  <1>2. ASSUME NEW s \in Sims PROVE Gentle(s, c(s))
    <2>1. right(s) \in BOOLEAN
      OBVIOUS
    <2> HIDE DEF right
    <2> QED
      BY <2>1, UnlockedGentle, ReleasedGentle
  <1> HIDE DEF c
  <1> QED
    BY <1>1, <1>2, NoCardGentle, OneCardGentle

LEMMA EngineGentle ==
    ASSUME IInv, NEW l \in Sims, Engine(l)
    PROVE  GentleStep
  <1>1. CASE KeeperOpens(l)
    <2>1. PICK s : card' = [card EXCEPT ![s] = TriedBy(l, s)]
      BY <1>1 DEF KeeperOpens
    <2> QED
      BY <2>1, TriedByGentle, OneCardGentle
  <1>2. CASE KeeperNotices(l) \/ SwuStarts(l)
    BY <1>2, NoCardGentle DEF KeeperNotices, SwuStarts, cardVars
  <1>3. CASE SwuUnlocks(l)
    <2>1. PICK s : card' = [card EXCEPT ![s] = Released(s, TriedBy(l, s))]
      BY <1>3 DEF SwuUnlocks
    <2> QED
      BY <2>1, TriedByGentle, OneCardGentle
  <1>4. CASE AmiUnlocks(l)
    <2> DEFINE f == [s \in Sims |-> IF s \in AmiSims(l) THEN Released(s, TriedBy(l, s)) ELSE card[s]]
    <2>1. card' = f /\ f = [s \in Sims |-> f[s]]
      BY <1>4 DEF AmiUnlocks
    <2>2. ASSUME NEW s \in Sims PROVE Gentle(s, f[s])
      BY TriedByGentle, CardGentle
    <2> HIDE DEF f
    <2> QED
      BY <2>1, <2>2, ManyCardsGentle
  <1> QED
    BY <1>1, <1>2, <1>3, <1>4 DEF Engine

EsimStep(o) ==
    \/ \E r \in Readers : AskEsim(o, r)
    \/ GuardEsim(o) \/ LockEsim(o) \/ OperateEsim(o) \/ FinishEsim(o)

LEMMA EsimGentle ==
    ASSUME IInv, NEW o, EsimStep(o)
    PROVE  GentleStep
  <1>1. CASE (\E r \in Readers : AskEsim(o, r)) \/ GuardEsim(o) \/ LockEsim(o) \/ FinishEsim(o)
    BY <1>1, NoCardGentle DEF AskEsim, GuardEsim, LockEsim, FinishEsim, cardVars
  <1>2. CASE OperateEsim(o)
    BY <1>2, ResetGentle, NoCardGentle DEF OperateEsim
  <1> QED
    BY <1>1, <1>2 DEF EsimStep

LEMMA PersonGentle ==
    ASSUME IInv, Person
    PROVE  GentleStep \/ CommandsPin
  <1>1. CASE NamePin \/ LockPin \/ \E r \in Readers : AskPin(r)
    BY <1>1, NoCardGentle DEF AskPin, NamePin, LockPin, cardVars
  <1>2. CASE \E l \in Sims : AskStart(l) \/ StopLine(l)
    BY <1>2, NoCardGentle, StopLinesGentle DEF AskStart, StopLine, cardVars
  <1>3. CASE PreflightPasses \/ PreflightProbes \/ Launch
    BY <1>3, NoCardGentle, ClosedLinesGentle DEF PreflightPasses, PreflightProbes, Launch, cardVars
  <1>4. \A o \in Ops : EsimStep(o) => GentleStep
    BY EsimGentle
  <1>5. UnlockStart \/ PreflightVerifies \/ ReadsVerified => GentleStep
    BY UnlockStartGentle, PreflightGentle, ReadsVerifiedGentle
  <1>6. \/ NamePin \/ LockPin \/ \E r \in Readers : AskPin(r)
        \/ \E l \in Sims : AskStart(l) \/ StopLine(l)
        \/ PreflightPasses \/ PreflightProbes \/ Launch
        \/ UnlockStart \/ PreflightVerifies \/ ReadsVerified
        \/ CommandsPin
        \/ \E o \in Ops : EsimStep(o)
    BY DEF Person, EsimStep
  <1> QED
    BY <1>1, <1>2, <1>3, <1>4, <1>5, <1>6

(* A person's PIN command presents a PIN to one card, verified or not.  If *)
(* the PIN is the right one, the card has all its attempts again.          *)
LEMMA RightPresentedGentle ==
    ASSUME IInv, NEW s \in Sims, card[s].open \/ card[s].tries >= MinTries
    PROVE  Gentle(s, Guarded(card[s], TRUE))
  BY DEF IInv, Guarded, Presented, Gentle, Sound, Cards, FullTries, MinTries

LEMMA CommandSound ==
    ASSUME IInv, CommandsPin
    PROVE  GentleStep \/ (card' \in [Sims -> Sound] /\ pin.pc = "locked" /\ pin'.pc = "idle")
  <1> DEFINE s == SimIn(ReaderAt(pin.index))
             right == pin.right /\ s = pin.meant
             well == s # NoSim /\ right /\ (card[s].open \/ card[s].tries >= MinTries)
             c == Released(s, Guarded(card[s], right))
  <1>1. right \in BOOLEAN
    OBVIOUS
  <1>2. UNCHANGED card \/ card' = [card EXCEPT ![s] = c]
    BY DEF CommandsPin
  <1>3. CASE UNCHANGED card
    BY <1>3, NoCardGentle
  <1>4. CASE card' = [card EXCEPT ![s] = c] /\ well
    <2>1. right = TRUE
      BY <1>4
    <2>2. s \in Sims => Gentle(s, Guarded(card[s], right))
      BY <1>4, <2>1, RightPresentedGentle
    <2> HIDE DEF s, right
    <2>3. s \in Sims => Gentle(s, c)
      BY <2>2, ReleasedGentle
    <2> QED
      BY <1>4, <2>3, OneCardGentle
  <1>5. CASE card' = [card EXCEPT ![s] = c] /\ ~well
    <2>1. pin.pc = "locked" /\ pin'.pc = "idle"
      BY <1>5 DEF CommandsPin, EndPin, NoPin
    <2> HIDE DEF s, right
    <2>2. s \in Sims => c \in Sound
      BY <1>1, GuardedSound, KeptSound, HeldBoolean DEF Released, IInv
    <2> HIDE DEF c
    <2>3. card' \in [Sims -> Sound]
      BY <1>5, <2>2 DEF IInv
    <2> QED
      BY <2>1, <2>3
  <1> QED
    BY <1>2, <1>3, <1>4, <1>5

LEMMA EveryStep ==
    ASSUME IInv, [Next]_vars
    PROVE  GentleStep \/ (card' \in [Sims -> Sound] /\ pin.pc = "locked" /\ pin'.pc = "idle")
  <1>1. CASE UNCHANGED vars
    BY <1>1, NoCardGentle DEF vars
  <1>2. CASE \E l \in Sims : HotplugStarts(l)
    BY <1>2, NoCardGentle DEF HotplugStarts, cardVars
  <1> QED
    BY <1>1, <1>2, CablingGentle, MonitorGentle, PersonGentle, CommandSound, EngineGentle DEF Next

LEMMA StartsSound == Init => IInv
  BY DEF Init, IInv, Sound, Cards, FullTries

LEMMA StaysSound == IInv /\ [Next]_vars => IInv'
  BY EveryStep DEF IInv, GentleStep

LEMMA AlwaysSound == Spec => []IInv
  BY StartsSound, StaysSound, PTL DEF Spec

-----------------------------------------------------------------------------
(* The card record keeps its shape.                                        *)
THEOREM CardsTypeCorrect == Spec => []CardsTypeOK
  <1>1. IInv => CardsTypeOK
    BY DEF IInv, CardsTypeOK, Sound
  <1> QED
    BY <1>1, AlwaysSound, PTL

(* No interleaving of the programs that hold PINs, with whatever PINs and  *)
(* however readers, cards and eSIM profiles move, blocks a card: its last  *)
(* attempt is never spent, though a wrong PIN may leave no more than that. *)
THEOREM NoCardBlocked == Spec => []TryLeft
  <1>1. IInv => TryLeft
    BY DEF IInv, TryLeft, Sound
  <1> QED
    BY <1>1, AlwaysSound, PTL

(* Only a person's PIN command costs a verified card an attempt.           *)
THEOREM VerifiedCardsSpared == Spec => VerifiedCardSpared
  <1> DEFINE Asked == pin.pc = "locked" /\ pin'.pc = "idle"
             Costly(s) == card[s].open /\ card'[s].tries < card[s].tries
  <1>1. ASSUME IInv, GentleStep, NEW s \in Sims PROVE ~Costly(s)
    BY <1>1 DEF IInv, GentleStep, Gentle, Sound, Cards, FullTries
  <1>2. IInv /\ [Next]_vars => [\A s \in Sims : Costly(s) => Asked]_vars
    BY <1>1, EveryStep
  <1> QED
    BY <1>2, AlwaysSound, PTL DEF Spec, VerifiedCardSpared

=============================================================================
