---------------------------- MODULE SimReaders ----------------------------
(***************************************************************************)
(* Who touches a SIM card, and when (control/app/main.py, sim.py, card.py, *)
(* and the engines' pin_keeper.py, swu_ike.py and ami_usim.py).            *)
(*                                                                         *)
(* The control plane's card monitor, a person's PIN command, eSIM          *)
(* operations and line starts share the readers with the engines.  Among   *)
(* themselves they take a lock per reader name, but address a reader by    *)
(* the index they looked up before; the engines know neither.  Readers and *)
(* cards come and go at any step.                                          *)
(***************************************************************************)
EXTENDS SimCards, FiniteSets

CONSTANTS
    Listings,       \* the readers at first, in the order pcscd lists them
    Seatings,       \* where the SIMs may sit at first
    SavedPins,      \* what PINs the lines may have saved at first
    MaxEvents       \* bound: moves of a reader or card, and requests of a person

ASSUME SeatingsAssumption ==
    /\ \A q \in Listings : q \in Seq(Readers) /\ \A i, j \in DOMAIN q : i # j => q[i] # q[j]
    /\ Seatings \subseteq [Readers -> Sims \cup {NoSim}]
    /\ SavedPins \subseteq {"right", "wrong", "none"}

VARIABLES
    cards,      \* hub.cards: what the monitor knows of each reader
    holder,     \* who holds hub.reader_lock of each reader
    busy,       \* hub.lpa_busy
    monitor,    \* the monitor's scan: readers to go, and the snapshot it works on
    line,       \* each SIM's line: its saved configuration
    engine,     \* and its engine, with the configuration it was made with
    hot,        \* lines with a pending hotplug start
    pin,        \* a person's PIN command
    esim,       \* an eSIM operation and a profile download
    start,      \* a person's start of a line
    events      \* moves and requests so far

vars == <<order, at, card, cards, holder, busy, monitor, line, engine, hot,
          pin, esim, start, events>>
cardVars == <<order, at, card>>
lineVars == <<line, engine>>
hubVars == <<cards, holder, busy, monitor, hot>>
taskVars == <<pin, esim, start>>

Nobody == "nobody"
Ops == {"operation", "download"}
Blank == [known |-> FALSE, index |-> 0, present |-> FALSE, sim |-> NoSim]
NoPin == [pc |-> "idle", index |-> 0, name |-> NoReader, meant |-> NoSim,
          right |-> FALSE, change |-> FALSE]
NoOp == [pc |-> "idle", name |-> NoReader, index |-> 0]
NoStart == [pc |-> "idle", line |-> NoSim, supplied |-> "none", index |-> 0, name |-> NoReader]
NoEngine == [up |-> FALSE, port |-> NoReader, index |-> 0, pin |-> "none",
             claims |-> NoReader, held |-> FALSE, swu |-> 0]
AtRest == [todo |-> {}, seen |-> <<>>, full |-> {}, probe |-> NoReader, port |-> NoReader]

-----------------------------------------------------------------------------
(* Cards in use.                                                           *)

(* A verified PIN outlives a connection only while a pin_keeper holds one. *)
Held(s) == \E l \in Sims : engine[l].up /\ engine[l].held /\ at[engine[l].claims] = s
Released(s, c) == Kept(c, Held(s))

(* A line's PIN, if it has one, is presented to a card; it is the right    *)
(* one for the line's own SIM at most.                                     *)
Tried(l, saved, s) ==
    IF saved = "none" THEN card[s] ELSE Unlocked(card[s], s = l /\ saved = "right")

(* find_running_by_reader: the engine whose keeper names this reader.      *)
Claimants(r) == {l \in Sims : engine[l].up /\ engine[l].claims = r}

(* The readers of a list, in its order, whose monitor entry shows the SIM. *)
ShownIn(s) == {r \in Readers : cards[r].known /\ cards[r].present /\ cards[r].sim = s}

(* _reader_index_for_instance: the bound port first, then the SIM's entry. *)
LineIndices(l) ==
    IF line[l].port \in Attached
    THEN {IndexOf(line[l].port)}
    ELSE {cards[r].index : r \in ShownIn(l)}

(* _card_identity_mismatch                                                 *)
Mismatch(l) ==
    /\ LineIndices(l) = {}
    /\ \E r \in Readers :
        /\ cards[r].known /\ cards[r].present
        /\ IF line[l].port # NoReader THEN r = line[l].port ELSE cards[r].index = line[l].index
        /\ cards[r].sim \notin {l, NoSim}

(* An engine's end closes the cards its keeper alone had kept open.        *)
Closed(ls) ==
    card' = [s \in Sims |-> Kept(card[s],
        \E l \in Sims \ ls : engine[l].up /\ engine[l].held /\ at[engine[l].claims] = s)]

StopLines(ls) ==
    /\ Closed(ls)
    /\ engine' = [l \in Sims |-> IF l \in ls THEN NoEngine ELSE engine[l]]

(* A new engine, of the configuration as it is saved.                      *)
Launched(l, port, index) ==
    [NoEngine EXCEPT !.up = TRUE, !.port = port, !.index = index, !.pin = line[l].pin]

-----------------------------------------------------------------------------
(* Cabling.                                                                *)

Event == events < MaxEvents /\ events' = events + 1

(* Without power a card forgets its PIN, and a keeper's handle is dead.    *)
Unpowered(r) ==
    /\ card' = IF at[r] = NoSim THEN card ELSE Reset(at[r])
    /\ engine' = [l \in Sims |-> [engine[l] EXCEPT !.held = @ /\ engine[l].claims # r]]

Unplug(r) ==
    /\ r \in Attached /\ Event
    /\ order' = SelectSeq(order, LAMBDA q : q # r)
    /\ Unpowered(r)
    /\ UNCHANGED <<at, line, hubVars, taskVars>>

Plug(r) ==
    /\ r \notin Attached /\ Event
    /\ \E i \in 0 .. Len(order) :
        order' = SubSeq(order, 1, i) \o <<r>> \o SubSeq(order, i + 1, Len(order))
    /\ UNCHANGED <<at, card, lineVars, hubVars, taskVars>>

Pull(r) ==
    /\ r \in Filled /\ Event
    /\ at' = [at EXCEPT ![r] = NoSim]
    /\ Unpowered(r)
    /\ UNCHANGED <<order, line, hubVars, taskVars>>

Loose(s) == \A r \in Readers : at[r] # s

Insert(r, s) ==
    /\ r \in Attached /\ at[r] = NoSim /\ Loose(s) /\ Event
    /\ at' = [at EXCEPT ![r] = s]
    /\ UNCHANGED <<order, card, lineVars, hubVars, taskVars>>

-----------------------------------------------------------------------------
(* The card monitor.                                                       *)

Done(r) ==
    IF monitor.todo = {r} THEN AtRest
    ELSE [monitor EXCEPT !.todo = @ \ {r}, !.probe = NoReader, !.port = NoReader]

(* A scan that would find every entry as it is changes nothing.            *)
Changed(r) ==
    IF r \in Attached
    THEN ~cards[r].known \/ cards[r].index # IndexOf(r) \/ cards[r].present # (r \in Filled)
    ELSE cards[r].known

MonitorScans ==
    /\ monitor.todo = {} /\ \E r \in Readers : Changed(r)
    /\ monitor' = [AtRest EXCEPT !.todo = Readers, !.seen = order, !.full = Filled]
    /\ UNCHANGED <<cardVars, lineVars, cards, holder, busy, hot, taskVars, events>>

Seen(r) == \E i \in DOMAIN monitor.seen : monitor.seen[i] = r
SeenIndex(r) == CHOOSE i \in DOMAIN monitor.seen : monitor.seen[i] = r

(* Lost readers come first, then the others in their order.                *)
Turn(r) ==
    /\ r \in monitor.todo /\ monitor.probe = NoReader
    /\ Seen(r) => \A q \in monitor.todo : Seen(q) /\ SeenIndex(r) <= SeenIndex(q)

(* _on_card_remove stops the line of the entry or the one that claims the reader. *)
Bereft(r) == IF cards[r].sim # NoSim THEN {cards[r].sim} ELSE Claimants(r)

MonitorForgets(r) ==
    /\ Turn(r) /\ ~Seen(r)
    /\ IF cards[r].known THEN StopLines(Bereft(r)) ELSE UNCHANGED <<card, engine>>
    /\ cards' = [cards EXCEPT ![r] = Blank]
    /\ monitor' = Done(r)
    /\ UNCHANGED <<order, at, line, holder, busy, hot, taskVars, events>>

(* While an eSIM operation has the reader, only the index is refreshed.    *)
MonitorSkips(r) ==
    /\ Turn(r) /\ Seen(r)
    /\ r \in busy \/ (cards[r].known /\ cards[r].present = (r \in monitor.full))
    /\ cards' = [cards EXCEPT ![r] =
                    IF cards[r].known THEN [@ EXCEPT !.index = SeenIndex(r)]
                    ELSE [Blank EXCEPT !.known = TRUE, !.index = SeenIndex(r),
                                       !.present = r \in monitor.full]]
    /\ monitor' = Done(r)
    /\ UNCHANGED <<cardVars, lineVars, holder, busy, hot, taskVars, events>>

MonitorEmpties(r) ==
    /\ Turn(r) /\ Seen(r) /\ r \notin busy /\ r \notin monitor.full
    /\ ~cards[r].known \/ cards[r].present
    /\ IF cards[r].known THEN StopLines(Bereft(r)) ELSE UNCHANGED <<card, engine>>
    /\ cards' = [cards EXCEPT ![r] = [Blank EXCEPT !.known = TRUE, !.index = SeenIndex(r)]]
    /\ monitor' = Done(r)
    /\ UNCHANGED <<order, at, line, holder, busy, hot, taskVars, events>>

Inserted(r) ==
    /\ Turn(r) /\ Seen(r) /\ r \notin busy /\ r \in monitor.full
    /\ ~cards[r].known \/ ~cards[r].present

Entry(r, s) == [known |-> TRUE, index |-> SeenIndex(r), present |-> TRUE, sim |-> s]
Matched(s) == IF s = NoSim THEN hot ELSE hot \cup {s}

(* A reader an engine claims is taken for that engine's SIM, unprobed.     *)
MonitorTrustsEngine(r) ==
    /\ Inserted(r)
    /\ \E l \in Claimants(r) :
        /\ cards' = [cards EXCEPT ![r] = Entry(r, l)]
        /\ hot' = Matched(l)
    /\ monitor' = Done(r)
    /\ UNCHANGED <<cardVars, lineVars, holder, busy, taskVars, events>>

(* The lock is given 0.05 s; without it the card stays unidentified.       *)
MonitorGivesUp(r) ==
    /\ Inserted(r) /\ Claimants(r) = {} /\ holder[r] # Nobody
    /\ cards' = [cards EXCEPT ![r] = Entry(r, cards[r].sim)]
    /\ monitor' = Done(r)
    /\ UNCHANGED <<cardVars, lineVars, holder, busy, hot, taskVars, events>>

MonitorLocks(r) ==
    /\ Inserted(r) /\ Claimants(r) = {} /\ holder[r] = Nobody
    /\ holder' = [holder EXCEPT ![r] = "monitor"]
    /\ monitor' = [monitor EXCEPT !.probe = r, !.port = ReaderAt(SeenIndex(r))]
    /\ UNCHANGED <<cardVars, lineVars, cards, busy, hot, taskVars, events>>

(* The probe reads whatever card has the snapshot's index by now, and the  *)
(* line of that card is bound to the port found before.                    *)
MonitorProbes(r) ==
    /\ monitor.probe = r
    /\ LET s == SimIn(ReaderAt(SeenIndex(r))) IN
        /\ cards' = [cards EXCEPT ![r] = Entry(r, s)]
        /\ line' = IF s = NoSim THEN line
                   ELSE [line EXCEPT ![s].port = monitor.port, ![s].index = SeenIndex(r)]
        /\ hot' = Matched(s)
    /\ holder' = [holder EXCEPT ![r] = Nobody]
    /\ monitor' = Done(r)
    /\ UNCHANGED <<cardVars, engine, busy, taskVars, events>>

(* Six seconds after an insertion a line starts, without a PIN preflight.  *)
HotplugStarts(l) ==
    /\ l \in hot
    /\ hot' = hot \ {l}
    /\ engine' = IF ~engine[l].up /\ ShownIn(l) # {}
                 THEN [engine EXCEPT ![l] = Launched(l, line[l].port, line[l].index)]
                 ELSE engine
    /\ UNCHANGED <<cardVars, line, cards, holder, busy, monitor, taskVars, events>>

=============================================================================
