----------------------------- MODULE ModemHost -----------------------------
(***************************************************************************)
(* The orchestrator's reconciliation of USB modems (mdd_orchestrator.py):  *)
(* a cycle finds the modems, folds the id of one that moved to another USB *)
(* path, keeps ModemManager running while there is a modem, applies each   *)
(* modem's wishes to its radio, and runs one SIM bridge per modem that is  *)
(* to serve VoWiFi (vpcd_modem_bridge.py).                                 *)
(*                                                                         *)
(* The modems have no USB serial, so an id names a USB path; a bridge's    *)
(* identity document tells which modem (IMEI) is behind it.  The control   *)
(* plane writes the wishes and deletes documents meanwhile (Devices).      *)
(***************************************************************************)
EXTENDS Integers, FiniteSets

CONSTANTS
    Ids,            \* device ids, in their order: numbers
    Modems,         \* the modems
    Wishes,         \* what a person may ask of a modem
    NoModem, NoWish,
    Seatings,       \* where the modems may be at first
    SavedWishes,    \* the wishes file an earlier run may have left
    SavedPapers,    \* and the identity documents
    MaxEvents       \* bound: cabling, failures, restarts and requests

ASSUME IdsAssumption == Ids \subseteq Nat /\ IsFiniteSet(Ids)

VARIABLES
    usb,        \* the modem at each path
    mm,         \* ModemManager runs
    claimed,    \* the modems it has claimed
    air,        \* each modem's radio
    wishes,     \* devices-desired.json
    ports,      \* hardware-state.json: each device's VPCD base port, 0 if none
    papers,     \* modems/<id>.json: the IMEI last reported for each id
    shown,      \* devices-status.json
    host,       \* the orchestrator's cycle
    noted,      \* radio_states and cellular_states
    bridges,    \* the bridges the orchestrator keeps
    dying,      \* those it has terminated and does not wait for
    events      \* moves, failures and requests so far

hostVars == <<host, noted, bridges, dying>>
fileVars == <<wishes, ports, papers, shown>>

Event == events < MaxEvents /\ events' = events + 1

Default == [vowifi |-> TRUE, data |-> FALSE, flight |-> FALSE]
NoBridge == [modem |-> NoModem, port |-> 0, up |-> FALSE, linked |-> FALSE]
NotShown == [wish |-> NoWish, busy |-> FALSE, present |-> FALSE, error |-> FALSE]
NoWishes == [d \in Ids |-> NoWish]
NoPorts == [d \in Ids |-> 0]

(* device_capability_plan: flight mode wins over a saved data wish.        *)
Plan(w) == IF w.flight THEN "off" ELSE IF w.data THEN "data" ELSE "on"

Present == {d \in Ids : usb[d] # NoModem}

-----------------------------------------------------------------------------
(* Publishing.                                                             *)

Busy(d, w, bs, ns) ==
    \/ w.vowifi # bs[d].up
    \/ (Plan(w) = "data") # (ns[d] = "data")
    \/ ns[d] # "unknown" /\ w.flight = (ns[d] # "off")
    \/ ~mm

Published(want, assigned, bs, ns, transitioning, error) ==
    [d \in Ids |->
        IF want[d] = NoWish /\ assigned[d] = 0 THEN NotShown
        ELSE LET w == IF want[d] = NoWish THEN Default ELSE want[d]
                 present == assigned[d] # 0
             IN  [wish |-> w, present |-> present, error |-> error \/ ~present,
                  busy |-> transitioning \/ (present /\ Busy(d, w, bs, ns))]]

-----------------------------------------------------------------------------
(* The cycle: the modems found, the wishes as the migration read them, the *)
(* ids it has yet to visit, and the wishes and ports the cycle then works  *)
(* with.                                                                   *)

AtRest == [pc |-> "looks", found |-> {}, copy |-> NoWishes, todo |-> {}, want |-> NoWishes,
           assigned |-> NoPorts]

HostLooks ==
    /\ host.pc = "looks"
    /\ host' = [AtRest EXCEPT !.pc = "migrates", !.found = Present, !.todo = Present,
                              !.copy = wishes]
    /\ UNCHANGED <<usb, mm, claimed, air, fileVars, noted, bridges, dying, events>>

(* A new id is the only missing one's modem if both documents name it.     *)
Stale == {d \in Ids : host.copy[d] # NoWish /\ d \notin host.found}

Moved(old, new) ==
    /\ host.copy[new] = NoWish /\ Stale = {old}
    /\ papers[old] # NoModem /\ papers[old] = papers[new]

HostKeeps(new) ==
    /\ host.pc = "migrates" /\ new \in host.todo /\ ~\E old \in Ids : Moved(old, new)
    /\ host' = [host EXCEPT !.todo = @ \ {new}]
    /\ UNCHANGED <<usb, mm, claimed, air, fileVars, noted, bridges, dying, events>>

(* The whole wishes file is written as it was read.                        *)
HostFolds(old, new) ==
    LET folded == [host.copy EXCEPT ![new] = host.copy[old], ![old] = NoWish] IN
    /\ host.pc = "migrates" /\ new \in host.todo /\ Moved(old, new)
    /\ host' = [host EXCEPT !.todo = @ \ {new}, !.copy = folded]
    /\ wishes' = folded
    /\ ports' = IF ports[old] # 0 /\ ports[new] = 0
                THEN [ports EXCEPT ![new] = ports[old], ![old] = 0] ELSE ports
    /\ shown' = [shown EXCEPT ![old] = NotShown]
    /\ papers' = [papers EXCEPT ![old] = NoModem]
    /\ UNCHANGED <<usb, mm, claimed, air, noted, bridges, dying, events>>

(* desired_devices.  ModemManager is needed while there is a modem.        *)
HostPlans ==
    LET want == [d \in Ids |-> IF wishes[d] = NoWish /\ d \in host.found THEN Default
                               ELSE wishes[d]]
        switching == mm # (host.found # {})
    IN
    /\ host.pc = "migrates" /\ host.todo = {}
    /\ host' = [host EXCEPT !.pc = IF switching THEN "switches" ELSE "tunes",
                            !.want = want, !.copy = NoWishes,
                            !.assigned = IF switching THEN ports ELSE NoPorts]
    /\ shown' = IF switching THEN Published(want, ports, bridges, noted, TRUE, FALSE) ELSE shown
    /\ UNCHANGED <<usb, mm, claimed, air, wishes, ports, papers, noted, bridges, dying, events>>

(* stop_bridges waits for each; a bridge that ends leaves its document.    *)
StopBridges ==
    /\ bridges' = [d \in Ids |-> NoBridge]
    /\ papers' = [d \in Ids |-> IF bridges[d].up THEN bridges[d].modem ELSE papers[d]]

HostSwitches ==
    /\ host.pc = "switches"
    /\ mm' = (host.found # {}) /\ claimed' = {}
    /\ IF mm' \/ mm THEN StopBridges ELSE UNCHANGED <<bridges, papers>>
    /\ host' = [host EXCEPT !.pc = "tunes", !.assigned = NoPorts]
    /\ UNCHANGED <<usb, air, wishes, ports, shown, noted, dying, events>>

(* A failed switch is rolled back and told, and the cycle is over.         *)
HostFailsToSwitch ==
    /\ host.pc = "switches" /\ Event
    /\ StopBridges
    /\ claimed' = {}
    /\ shown' = Published(host.want, host.assigned, bridges', noted, FALSE, TRUE)
    /\ host' = AtRest
    /\ UNCHANGED <<usb, mm, air, wishes, ports, noted, dying>>

(* apply_device_radios, for the modems ModemManager has an object of.  A   *)
(* radio that cannot be switched keeps what was noted of it, and is tried  *)
(* again in the next cycle; before it is to go off, data is disconnected.  *)
(* Where the radio is as wished, data may still not come up or go down.    *)
Reach == {d \in host.found : usb[d] \in claimed}

Well(d) == LET w == Plan(host.want[d]) IN [air |-> w, noted |-> w]

Failures(d) ==
    LET w == Plan(host.want[d])
        a == air[usb[d]]
        Told(x) == [air |-> x, noted |-> x]
        Stuck(x) == [air |-> x, noted |-> noted[d]]
    IN
    IF (w = "off") = (a = "off") THEN {Told(a)}
    ELSE IF w = "off" THEN {Stuck("on"), Stuck(a)}
    ELSE {Stuck("off"), Told("on")}

HostTunes ==
    /\ host.pc = "tunes"
    /\ \E fails \in SUBSET Reach :
        \E left \in [Reach -> UNION {{Well(d)} \cup Failures(d) : d \in Reach}] :
            /\ \A d \in Reach : left[d] \in IF d \in fails THEN Failures(d) ELSE {Well(d)}
            /\ IF fails = {} THEN UNCHANGED events ELSE Event
            /\ air' = [m \in Modems |-> IF \E d \in Reach : usb[d] = m
                                        THEN left[CHOOSE d \in Reach : usb[d] = m].air
                                        ELSE air[m]]
            /\ noted' = [d \in Ids |-> IF d \in Reach THEN left[d].noted ELSE noted[d]]
    /\ host' = [host EXCEPT !.pc = "reconciles"]
    /\ UNCHANGED <<usb, mm, claimed, fileVars, bridges, dying>>

(* Saved base ports stay; a new device gets the next free one, in order.   *)
Saved == {d \in Present : ports[d] # 0}

UsedForgetsSaved == {}

Used == {ports[d] : d \in Saved}
Free == (1 .. Cardinality(Ids)) \ Used
Rank(d) == Cardinality({e \in Present \ Saved : e <= d})
NextFree(k) == CHOOSE p \in Free : Cardinality({q \in Free : q <= p}) = k

Assigned ==
    [d \in Ids |-> IF d \notin Present THEN 0
                   ELSE IF d \in Saved THEN ports[d]
                   ELSE NextFree(Rank(d))]

(* reconcile_hardware looks at the USB tree again and reads the saved      *)
(* ports, drops bridges that died or are not wanted, and starts those      *)
(* whose modem is claimed.                                                 *)
Wanted == {d \in Present : host.want[d] # NoWish /\ host.want[d].vowifi /\ d \in host.found}
KeepsTheDead(d) == d \in Wanted /\ bridges[d].modem # NoModem

Keeps(d) == d \in Wanted /\ bridges[d].up

HostReconciles ==
    /\ host.pc = "reconciles"
    /\ host' = [host EXCEPT !.pc = "concludes", !.assigned = Assigned]
    /\ bridges' = [d \in Ids |->
            IF Keeps(d) THEN bridges[d]
            ELSE IF d \in Wanted /\ usb[d] \in claimed
            THEN [modem |-> usb[d], port |-> Assigned[d], up |-> TRUE, linked |-> TRUE]
            ELSE NoBridge]
    /\ dying' = dying \cup {[id |-> d, modem |-> bridges[d].modem] :
                                d \in {e \in Ids : bridges[e].up /\ ~Keeps(e)}}
    /\ UNCHANGED <<usb, mm, claimed, air, fileVars, noted, events>>

(* The ports are written back and the status is published.                 *)
HostConcludes ==
    /\ host.pc = "concludes"
    /\ ports' = host.assigned
    /\ shown' = Published(host.want, host.assigned, bridges, noted, FALSE, FALSE)
    /\ host' = AtRest
    /\ UNCHANGED <<usb, mm, claimed, air, wishes, papers, noted, bridges, dying, events>>

Host ==
    \/ HostLooks \/ HostPlans \/ HostSwitches \/ HostFailsToSwitch \/ HostTunes
    \/ HostReconciles \/ HostConcludes
    \/ \E new \in Ids : HostKeeps(new) \/ \E old \in Ids : HostFolds(old, new)

(* A restart stops the bridges; the files stay.                            *)
HostRestarts ==
    /\ Event
    /\ StopBridges
    /\ host' = AtRest /\ noted' = [d \in Ids |-> "unknown"]
    /\ UNCHANGED <<usb, mm, claimed, air, wishes, ports, shown, dying>>

-----------------------------------------------------------------------------
(* The bridges, ModemManager and the cabling.                              *)

(* main and refresh_metadata: a bridge reports its modem's identity, and   *)
(* an empty one when the modem does not answer.                            *)
Reported(b) == IF b.linked THEN b.modem ELSE NoModem

BridgeReports(d) ==
    /\ bridges[d].up /\ papers[d] # Reported(bridges[d])
    /\ papers' = [papers EXCEPT ![d] = Reported(bridges[d])]
    /\ UNCHANGED <<usb, mm, claimed, air, wishes, ports, shown, hostVars, events>>

BridgeDies(d) ==
    /\ bridges[d].up /\ Event
    /\ bridges' = [bridges EXCEPT ![d].up = FALSE]
    /\ UNCHANGED <<usb, mm, claimed, air, fileVars, host, noted, dying>>

(* A terminated bridge writes its document once more as it ends.           *)
BridgeEnds(b) ==
    /\ dying' = dying \ {b}
    /\ papers' = [papers EXCEPT ![b.id] = b.modem]
    /\ UNCHANGED <<usb, mm, claimed, air, wishes, ports, shown, host, noted, bridges, events>>

ModemManagerClaims(m) ==
    /\ mm /\ m \notin claimed /\ \E d \in Ids : usb[d] = m
    /\ claimed' = claimed \cup {m}
    /\ UNCHANGED <<usb, mm, air, fileVars, hostVars, events>>

(* A bridge names its modem by ModemManager's object, which is no more     *)
(* after the modem or ModemManager was away; the bridge goes on without.   *)
Unlinked(ms) ==
    [d \in Ids |-> [bridges[d] EXCEPT !.linked = @ /\ bridges[d].modem \notin ms]]

ModemManagerDies ==
    /\ mm /\ Event
    /\ mm' = FALSE /\ claimed' = {} /\ bridges' = Unlinked(Modems)
    /\ UNCHANGED <<usb, air, fileVars, host, noted, dying>>

Unplug(d) ==
    /\ usb[d] # NoModem /\ Event
    /\ usb' = [usb EXCEPT ![d] = NoModem]
    /\ claimed' = claimed \ {usb[d]} /\ air' = [air EXCEPT ![usb[d]] = "on"]
    /\ bridges' = Unlinked({usb[d]})
    /\ UNCHANGED <<mm, fileVars, host, noted, dying>>

Plug(d, m) ==
    /\ usb[d] = NoModem /\ (\A e \in Ids : usb[e] # m) /\ Event
    /\ usb' = [usb EXCEPT ![d] = m]
    /\ UNCHANGED <<mm, claimed, air, fileVars, hostVars>>

=============================================================================
