----------------------------- MODULE SimAccess -----------------------------
(***************************************************************************)
(* The requests of a person and the engines, on the readers of SimReaders: *)
(* PIN commands, eSIM operations and downloads, starts and stops of a line *)
(* (control/app/main.py), and how an engine's programs find and unlock     *)
(* their card (engine/pin_keeper.py, swu_ike.py, ami_usim.py).             *)
(***************************************************************************)
EXTENDS SimReaders

-----------------------------------------------------------------------------
(* A PIN command: the reader's index is resolved, the name of that index   *)
(* is looked up and locked, and the command goes to the index.             *)

AskPin(r) ==
    /\ pin.pc = "idle" /\ r \in Attached /\ Event
    /\ \E right, change \in BOOLEAN :
        pin' = [pc |-> "asked", index |-> IndexOf(r), name |-> NoReader,
                meant |-> at[r], right |-> right, change |-> change]
    /\ UNCHANGED <<cardVars, lineVars, hubVars, esim, start>>

NamePin ==
    /\ pin.pc = "asked"
    /\ pin' = [pin EXCEPT !.pc = "named", !.name = ReaderAt(pin.index)]
    /\ UNCHANGED <<cardVars, lineVars, hubVars, esim, start, events>>

LockPin ==
    /\ pin.pc = "named" /\ (pin.name # NoReader => holder[pin.name] = Nobody)
    /\ holder' = IF pin.name = NoReader THEN holder
                 ELSE [holder EXCEPT ![pin.name] = "pin"]
    /\ pin' = [pin EXCEPT !.pc = "locked"]
    /\ UNCHANGED <<cardVars, lineVars, cards, busy, monitor, hot, esim, start, events>>

EndPin ==
    /\ pin' = NoPin
    /\ holder' = IF pin.name = NoReader THEN holder
                 ELSE [holder EXCEPT ![pin.name] = Nobody]

(* verify_pin, change_pin and set_pin_enabled.  A verified PIN is followed *)
(* by a reading of the card, a changed one is in no line's configuration.  *)
CommandsPin ==
    LET s == SimIn(ReaderAt(pin.index))
        right == pin.right /\ s = pin.meant
        well == s # NoSim /\ right /\ (card[s].open \/ card[s].tries >= MinTries)
        stale == well /\ pin.change
        Worn(saved) == IF saved = "right" THEN "wrong" ELSE saved
    IN
    /\ pin.pc = "locked"
    /\ card' = IF s = NoSim THEN card
               ELSE [card EXCEPT ![s] = Released(s, Guarded(@, right))]
    /\ line' = IF stale THEN [line EXCEPT ![s].pin = Worn(@)] ELSE line
    /\ engine' = IF stale THEN [engine EXCEPT ![s].pin = Worn(@)] ELSE engine
    /\ IF well /\ ~pin.change
       THEN pin' = [pin EXCEPT !.pc = "verified"] /\ UNCHANGED holder
       ELSE EndPin
    /\ UNCHANGED <<order, at, cards, busy, monitor, hot, esim, start, events>>

(* The reading addresses the index once more, and brings the PIN along.    *)
ReadsVerified ==
    LET r == ReaderAt(pin.index)
        s == SimIn(r)
    IN
    /\ pin.pc = "verified"
    /\ card' = IF s = NoSim THEN card
               ELSE [card EXCEPT ![s] = Released(s, Unlocked(@, pin.right /\ s = pin.meant))]
    /\ cards' = IF r = NoReader THEN cards
                ELSE [cards EXCEPT ![r] = [known |-> TRUE, present |-> TRUE, sim |-> s,
                        index |-> IF cards[r].known THEN cards[r].index ELSE pin.index]]
    /\ EndPin
    /\ UNCHANGED <<order, at, lineVars, busy, monitor, hot, esim, start, events>>

-----------------------------------------------------------------------------
(* eSIM operations.  lpac is told the reader by name.                      *)

OpAt(o, pc) == esim[o].pc = pc
ToOp(o, pc) == esim' = [esim EXCEPT ![o].pc = pc]

AskEsim(o, r) ==
    /\ OpAt(o, "idle") /\ r \in Attached /\ Event
    /\ o = "download" => r \notin busy
    /\ esim' = [esim EXCEPT ![o] = [pc |-> "asked", name |-> r, index |-> IndexOf(r)]]
    /\ UNCHANGED <<cardVars, lineVars, hubVars, pin, start>>

(* An engine on the reader refuses the request; a download claims the      *)
(* reader before it waits for the lock.                                    *)
GuardEsim(o) ==
    /\ OpAt(o, "asked")
    /\ IF Claimants(esim[o].name) # {}
       THEN esim' = [esim EXCEPT ![o] = NoOp] /\ UNCHANGED busy
       ELSE /\ ToOp(o, "waiting")
            /\ busy' = IF o = "download" THEN busy \cup {esim[o].name} ELSE busy
    /\ UNCHANGED <<cardVars, lineVars, cards, holder, monitor, hot, pin, start, events>>

LockEsim(o) ==
    /\ OpAt(o, "waiting") /\ holder[esim[o].name] = Nobody
    /\ holder' = [holder EXCEPT ![esim[o].name] = o]
    /\ busy' = IF o = "operation" THEN busy \cup {esim[o].name} ELSE busy
    /\ ToOp(o, "holding")
    /\ UNCHANGED <<cardVars, lineVars, cards, monitor, hot, pin, start, events>>

(* The operation leaves the profile alone, or switches to one that is in   *)
(* no other reader, which resets the card.                                 *)
OperateEsim(o) ==
    LET r == esim[o].name IN
    /\ OpAt(o, "holding") /\ ToOp(o, "done")
    /\ \/ UNCHANGED <<at, card>>
       \/ /\ SimIn(r) # NoSim
          /\ \E s \in Sims : Loose(s) /\ at' = [at EXCEPT ![r] = s]
          /\ card' = Reset(at[r])
    /\ UNCHANGED <<order, lineVars, hubVars, pin, start, events>>

(* The card is read again, by the index of the request.                    *)
FinishEsim(o) ==
    LET r == esim[o].name
        s == SimIn(ReaderAt(esim[o].index))
    IN
    /\ OpAt(o, "done")
    /\ \E refresh \in BOOLEAN :
        IF refresh
        THEN /\ cards' = [cards EXCEPT ![r] = [known |-> TRUE, present |-> TRUE,
                                               index |-> esim[o].index, sim |-> s]]
             /\ hot' = Matched(s)
        ELSE UNCHANGED <<cards, hot>>
    /\ esim' = [esim EXCEPT ![o] = NoOp]
    /\ holder' = [holder EXCEPT ![r] = Nobody]
    /\ busy' = busy \ {r}
    /\ UNCHANGED <<cardVars, lineVars, monitor, pin, start, events>>

-----------------------------------------------------------------------------
(* Start and stop of a line by a person.                                   *)

AskStart(l) ==
    /\ start.pc = "idle" /\ Event
    /\ \E supplied \in {"right", "wrong", "none"} :
        start' = IF Mismatch(l) THEN NoStart
                 ELSE [NoStart EXCEPT !.pc = "asked", !.line = l, !.supplied = supplied]
    /\ UNCHANGED <<cardVars, lineVars, hubVars, pin, esim>>

(* A PIN that comes with the request is tried, without the reader's lock,  *)
(* and saved unless the card calls it wrong.                               *)
UnlockStart ==
    LET l == start.line
        right(s) == s = l /\ start.supplied = "right"
        save == line' = [line EXCEPT ![l].pin = start.supplied]
        on == start' = [start EXCEPT !.pc = "unlocked", !.supplied = "none"]
    IN
    /\ start.pc = "asked"
    /\ IF start.supplied = "none" THEN on /\ UNCHANGED <<card, line>>
       ELSE IF LineIndices(l) = {} THEN on /\ save /\ UNCHANGED card
       ELSE \E i \in LineIndices(l) :
        LET s == SimIn(ReaderAt(i)) IN
        IF s = NoSim THEN on /\ save /\ UNCHANGED card
        ELSE LET c == Unlocked(card[s], right(s)) IN
             /\ card' = [card EXCEPT ![s] = Released(s, c)]
             /\ IF c.tries < card[s].tries THEN start' = NoStart /\ UNCHANGED line ELSE on /\ save
    /\ UNCHANGED <<order, at, engine, hubVars, pin, esim, events>>

(* The preflight lets the start pass wherever it cannot look: no index, an *)
(* eSIM operation, or a lock not had within 0.05 s.                        *)
PreflightPasses ==
    /\ start.pc = "unlocked"
    /\ \/ LineIndices(start.line) = {}
       \/ \E i \in LineIndices(start.line) :
            ReaderAt(i) \in busy \/ (i \in DOMAIN order /\ holder[order[i]] # Nobody)
    /\ start' = [start EXCEPT !.pc = "go"]
    /\ UNCHANGED <<cardVars, lineVars, hubVars, pin, esim, events>>

(* With the lock of the name the index had, the card is read without a     *)
(* PIN, and if it asks for one a second time with the saved PIN.           *)
PreflightProbes ==
    LET l == start.line IN
    /\ start.pc = "unlocked"
    /\ \E i \in LineIndices(l) :
        LET s == SimIn(ReaderAt(i)) IN
        /\ ReaderAt(i) \notin busy /\ (i \in DOMAIN order => holder[order[i]] = Nobody)
        /\ IF s = NoSim \/ (~card[s].open /\ line[l].pin = "none")
           THEN start' = NoStart /\ UNCHANGED holder
           ELSE IF card[s].open
           THEN start' = [start EXCEPT !.pc = "go"] /\ UNCHANGED holder
           ELSE /\ start' = [start EXCEPT !.pc = "probed", !.index = i, !.name = order[i]]
                /\ holder' = [holder EXCEPT ![order[i]] = "start"]
    /\ UNCHANGED <<cardVars, lineVars, cards, busy, monitor, hot, pin, esim, events>>

(* A saved PIN the card calls wrong is deleted.                            *)
PreflightVerifies ==
    LET l == start.line
        s == SimIn(ReaderAt(start.index))
        c == Tried(l, line[l].pin, s)
        on == start' = [start EXCEPT !.pc = "go", !.index = 0, !.name = NoReader]
    IN
    /\ start.pc = "probed"
    /\ IF s = NoSim THEN on /\ UNCHANGED <<card, line>>
       ELSE /\ card' = [card EXCEPT ![s] = Released(s, c)]
            /\ IF c.tries < card[s].tries
               THEN start' = NoStart /\ line' = [line EXCEPT ![l].pin = "none"]
               ELSE on /\ UNCHANGED line
    /\ holder' = [holder EXCEPT ![start.name] = Nobody]
    /\ UNCHANGED <<order, at, engine, cards, busy, monitor, hot, pin, esim, events>>

(* Where the line's SIM is: the port the monitor shows it at, or else the  *)
(* saved one, and the port's index, or else the shown or the saved one.    *)
Places(l) ==
    LET Index(port, other) == IF port \in Attached THEN IndexOf(port) ELSE other IN
    IF ShownIn(l) = {}
    THEN {[port |-> line[l].port, index |-> Index(line[l].port, line[l].index)]}
    ELSE {[port |-> r, index |-> Index(r, cards[r].index)] : r \in ShownIn(l)}

(* The line is bound to its place, and a new engine takes the place of the *)
(* old one, whose keeper's card is closed.                                 *)
Launch ==
    LET l == start.line IN
    /\ start.pc = "go"
    /\ \E p \in Places(l) :
        /\ line' = [line EXCEPT ![l].port = p.port, ![l].index = p.index]
        /\ engine' = [engine EXCEPT ![l] = Launched(l, p.port, p.index)]
    /\ Closed({l})
    /\ start' = NoStart
    /\ UNCHANGED <<order, at, hubVars, pin, esim, events>>

StopLine(l) ==
    /\ engine[l].up /\ Event
    /\ StopLines({l})
    /\ UNCHANGED <<order, at, line, hubVars, taskVars>>

-----------------------------------------------------------------------------
(* The engine of a line.                                                   *)

(* find_reader: the bound port, the only reader, the card with the line's  *)
(* ICCID, or the first card there is.                                      *)
KeeperReader(l) ==
    IF engine[l].port \in Filled THEN engine[l].port
    ELSE IF Filled = {} THEN NoReader
    ELSE IF \E r \in Filled : at[r] = l THEN CHOOSE r \in Filled : at[r] = l
    ELSE CHOOSE r \in Filled : \A q \in Filled : IndexOf(r) <= IndexOf(q)

(* The engine presents the PIN it was made with.                           *)
TriedBy(l, s) == Tried(l, engine[l].pin, s)

(* The keeper unlocks the card it finds and holds it from then on.         *)
KeeperOpens(l) ==
    LET r == KeeperReader(l) IN
    /\ engine[l].up /\ engine[l].claims = NoReader /\ r # NoReader
    /\ card' = [card EXCEPT ![at[r]] = TriedBy(l, at[r])]
    /\ engine' = [engine EXCEPT ![l].claims = r, ![l].held = TRUE]
    /\ UNCHANGED <<order, at, line, hubVars, taskVars, events>>

(* Once a minute it looks whether there is any reader at all.              *)
KeeperNotices(l) ==
    /\ engine[l].up /\ engine[l].claims # NoReader /\ order = <<>>
    /\ engine' = [engine EXCEPT ![l].claims = NoReader, ![l].held = FALSE]
    /\ UNCHANGED <<cardVars, line, hubVars, taskVars, events>>

(* The IKE process looks its port's index up as it starts, and keeps it    *)
(* for all attempts, until it ends and is started again.                   *)
SwuIndex(l) ==
    IF engine[l].port \in Attached THEN IndexOf(engine[l].port) ELSE engine[l].index

SwuStarts(l) ==
    /\ engine[l].up /\ engine[l].swu # SwuIndex(l)
    /\ engine' = [engine EXCEPT ![l].swu = SwuIndex(l)]
    /\ UNCHANGED <<cardVars, line, hubVars, taskVars, events>>

SwuUnlocks(l) ==
    LET s == SimIn(ReaderAt(engine[l].swu)) IN
    /\ engine[l].up /\ s # NoSim
    /\ card' = [card EXCEPT ![s] = Released(s, TriedBy(l, s))]
    /\ UNCHANGED <<order, at, lineVars, hubVars, taskVars, events>>

(* open_usim with several readers and no port: the PIN is tried on every   *)
(* card in turn, up to the one that opens as the line's own.               *)
OwnOpens(l, i) == SimIn(ReaderAt(i)) = l /\ TriedBy(l, l).open
Walked(l) ==
    {SimIn(order[i]) : i \in {j \in DOMAIN order :
        at[order[j]] # NoSim /\ \A k \in 1 .. (j - 1) : ~OwnOpens(l, k)}}
AmiSims(l) ==
    IF Len(order) = 1 THEN {SimIn(order[1])} \ {NoSim}
    ELSE IF engine[l].port \in Filled THEN {at[engine[l].port]}
    ELSE Walked(l)

AmiTrustsKeeper(l) ==
    /\ engine[l].up /\ engine[l].claims = NoReader
    /\ card' = [s \in Sims |-> IF s \in AmiSims(l) THEN Released(s, TriedBy(l, s)) ELSE card[s]]
    /\ UNCHANGED <<order, at, lineVars, hubVars, taskVars, events>>

AmiUnlocks(l) ==
    /\ engine[l].up
    /\ card' = [s \in Sims |-> IF s \in AmiSims(l) THEN Released(s, TriedBy(l, s)) ELSE card[s]]
    /\ UNCHANGED <<order, at, lineVars, hubVars, taskVars, events>>

-----------------------------------------------------------------------------
Init ==
    /\ order \in Listings /\ at \in Seatings
    /\ card = [s \in Sims |-> [tries |-> FullTries, open |-> FALSE]]
    /\ cards = [r \in Readers |-> Blank]
    /\ holder = [r \in Readers |-> Nobody]
    /\ busy = {} /\ hot = {} /\ monitor = AtRest
    /\ line \in [Sims -> [port : {NoReader}, index : {1}, pin : SavedPins]]
    /\ engine = [l \in Sims |-> NoEngine]
    /\ pin = NoPin /\ esim = [o \in Ops |-> NoOp] /\ start = NoStart
    /\ events = 0

Cabling == \E r \in Readers : Unplug(r) \/ Plug(r) \/ Pull(r) \/ \E s \in Sims : Insert(r, s)

Monitor ==
    \/ MonitorScans
    \/ \E r \in Readers :
        \/ MonitorForgets(r) \/ MonitorSkips(r) \/ MonitorEmpties(r)
        \/ MonitorTrustsEngine(r) \/ MonitorGivesUp(r) \/ MonitorLocks(r) \/ MonitorProbes(r)

Person ==
    \/ \E r \in Readers : AskPin(r)
    \/ NamePin \/ LockPin \/ CommandsPin \/ ReadsVerified
    \/ \E o \in Ops :
        \/ \E r \in Readers : AskEsim(o, r)
        \/ GuardEsim(o) \/ LockEsim(o) \/ OperateEsim(o) \/ FinishEsim(o)
    \/ \E l \in Sims : AskStart(l) \/ StopLine(l)
    \/ UnlockStart \/ PreflightPasses \/ PreflightProbes \/ PreflightVerifies \/ Launch

Engine(l) ==
    \/ KeeperOpens(l) \/ KeeperNotices(l)
    \/ SwuStarts(l) \/ SwuUnlocks(l) \/ AmiUnlocks(l)

Next == Cabling \/ Monitor \/ Person \/ \E l \in Sims : HotplugStarts(l) \/ Engine(l)

Spec == Init /\ [][Next]_vars
(* An engine registers again and again, and each time unlocks its card.    *)
FairSpec == Spec /\ \A l \in Sims : WF_vars(AmiUnlocks(l))

-----------------------------------------------------------------------------
(* Whatever programs and persons meet on a card and whatever PINs they     *)
(* hold, none of them spends its last attempt.  (A wrong PIN may well      *)
(* bring the card to that attempt: see NeverSpentAtTwo.)                   *)
TryLeft == \A s \in Sims : card[s].tries >= 1

(* sim.py: "never verify/spend when <= this many attempts remain"; and     *)
(* pin_keeper.py: "never spend the PIN when only this many attempts        *)
(* remain" - this many being MIN_TRIES, two.                               *)
NeverSpentAtTwo ==
    [][\A s \in Sims :
        ~card[s].open /\ card[s].tries <= MinTries => card'[s].tries >= card[s].tries]_vars

(* Only a person's own PIN command costs a verified card an attempt: no    *)
(* line's engine, start or probe, nor the reading after the command,       *)
(* disturbs the card another line works with.                              *)
VerifiedCardSpared ==
    [][\A s \in Sims :
        card[s].open /\ card'[s].tries < card[s].tries => pin.pc = "locked" /\ pin'.pc = "idle"]_vars

(* An engine whose saved PIN is right gets its card verified again after   *)
(* anything that took the verification away, as long as the card is at the *)
(* line's own port and persons leave it the attempts the programs ask for. *)
Serves(l) ==
    /\ engine[l].up /\ engine[l].pin = "right"
    /\ engine[l].port \in Attached /\ at[engine[l].port] = l

RunningLineUnlocks ==
    \A l \in Sims :
        (Serves(l) /\ engine[l].held /\ at[engine[l].claims] = l) /\ card[l].tries >= MinTries
            ~> card[l].open \/ ~Serves(l) \/ ~engine[l].held \/ card[l].tries < MinTries

(* main.py: "never start a line whose reader now holds a different         *)
(* identity" - as far as the monitor shows it.                             *)
NeverStartedOnAnother ==
    [][\A l \in Sims : \A r \in Readers :
        /\ start.pc = "idle" /\ start'.pc = "asked" /\ start'.line = l
        /\ line[l].port = r /\ cards[r].known /\ cards[r].present
        => cards[r].sim \in {l, NoSim}]_vars

=============================================================================
