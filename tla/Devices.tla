------------------------------ MODULE Devices ------------------------------
(***************************************************************************)
(* A modem's switches, as the control plane offers them (main.py,          *)
(* device_state.py), over the orchestrator's cycle (ModemHost).  The two   *)
(* meet only in files: the control plane reads, changes and writes the     *)
(* wishes, and waits until the status shows what it asked for.             *)
(***************************************************************************)
EXTENDS ModemHost

VARIABLES
    switch,     \* the request that holds capability_lock
    edit,       \* a change of the wishes file, read and not yet written
    forget,     \* the forgetting of a device
    line        \* whether the engine of the line in each device runs

vars == <<usb, mm, claimed, air, fileVars, hostVars, events, switch, edit, forget, line>>
machineVars == <<usb, mm, claimed, air, hostVars>>

NoSwitch == [pc |-> "idle", id |-> 0, wish |-> NoWish, ran |-> FALSE, starts |-> FALSE]
NoEdit == [pc |-> "none", id |-> 0, wish |-> NoWish, copy |-> NoWishes]
NothingShown == [d \in Ids |-> NotShown]
NoForget == [pc |-> "idle", id |-> 0, wishes |-> NoWishes, ports |-> NoPorts,
             shown |-> NothingShown]

Known == {d \in Ids : wishes[d] # NoWish \/ ports[d] # 0 \/ shown[d] # NotShown}
Previous(d) == IF wishes[d] = NoWish THEN Default ELSE wishes[d]

-----------------------------------------------------------------------------
(* api_device_capabilities.  A change of VoWiFi, or asking for it again    *)
(* while the line is down, stops the line for as long as the switch takes. *)
AskSwitch(d, w, again) ==
    LET toggles == w.vowifi # Previous(d).vowifi \/ again IN
    /\ switch.pc = "idle" /\ d \in Known /\ Event
    /\ again => w.vowifi /\ ~line[d]
    /\ w # Previous(d) \/ again
    /\ switch' = [pc |-> "sets", id |-> d, wish |-> w,
                  ran |-> line[d] /\ toggles, starts |-> toggles]
    /\ line' = [line EXCEPT ![d] = @ /\ ~toggles]
    /\ UNCHANGED <<machineVars, fileVars, edit, forget>>

(* The control plane's requests work on the files one after the other;     *)
(* only the orchestrator comes in between.                                 *)
Idle == edit.pc = "none" /\ forget.pc \in {"idle", "granted"}

(* set_desired reads the whole file, and writes it back.                   *)
SetReads ==
    /\ switch.pc = "sets" /\ Idle
    /\ edit' = [pc |-> "sets", id |-> switch.id, wish |-> switch.wish, copy |-> wishes]
    /\ switch' = [switch EXCEPT !.pc = "waits"]
    /\ UNCHANGED <<machineVars, fileVars, forget, line, events>>

SetWrites ==
    /\ edit.pc = "sets"
    /\ wishes' = [edit.copy EXCEPT ![edit.id] = edit.wish]
    /\ edit' = NoEdit
    /\ UNCHANGED <<machineVars, ports, papers, shown, switch, forget, line, events>>

(* The line is started again unless VoWiFi was to go, or the start fails.  *)
Answer(starts) ==
    /\ \E started \in {FALSE, starts /\ switch.wish.vowifi} :
        line' = [line EXCEPT ![switch.id] = @ \/ started]
    /\ switch' = NoSwitch
    /\ UNCHANGED <<machineVars, fileVars, edit, forget, events>>

(* _wait_for_device_request: the status shows the wish, and no transition. *)
Waits == switch.pc = "waits" /\ edit.pc # "sets"
Observed ==
    LET s == shown[switch.id] IN s.wish = switch.wish /\ ~s.busy /\ s.present

SwitchSucceeds == Waits /\ Observed /\ ~shown[switch.id].error /\ Answer(switch.starts)

(* The host reports an error, or 120 seconds are over.                     *)
SwitchFails == Waits /\ Answer(switch.ran)

(* api_device_delete of a device that is not there: it looks, waits, and   *)
(* then takes the device out of each file, which it reads and writes back. *)
ForgetLooks(d) ==
    /\ forget.pc = "idle" /\ d \in Known /\ ~shown[d].present /\ Event
    /\ forget' = [NoForget EXCEPT !.pc = "granted", !.id = d]
    /\ UNCHANGED <<machineVars, fileVars, switch, edit, line>>

Forgetting(pc) ==
    /\ forget.pc = pc
    /\ UNCHANGED <<machineVars, switch, edit, line, events>>
ForgetGoesOn(pc) == forget' = [NoForget EXCEPT !.pc = pc, !.id = forget.id]

ForgetReadsWishes ==
    /\ Forgetting("granted") /\ Idle
    /\ forget' = [forget EXCEPT !.pc = "wishes", !.wishes = wishes]
    /\ UNCHANGED fileVars

ForgetWritesWishes ==
    LET d == forget.id IN
    /\ Forgetting("wishes") /\ ForgetGoesOn("to ports")
    /\ wishes' = IF forget.wishes[d] = NoWish THEN wishes
                 ELSE [forget.wishes EXCEPT ![d] = NoWish]
    /\ UNCHANGED <<ports, papers, shown>>

ForgetReadsPorts ==
    /\ Forgetting("to ports")
    /\ forget' = [forget EXCEPT !.pc = "ports", !.ports = ports]
    /\ UNCHANGED fileVars

ForgetWritesPorts ==
    LET d == forget.id IN
    /\ Forgetting("ports") /\ ForgetGoesOn("to status")
    /\ ports' = IF forget.ports[d] = 0 THEN ports ELSE [forget.ports EXCEPT ![d] = 0]
    /\ UNCHANGED <<wishes, papers, shown>>

ForgetReadsStatus ==
    /\ Forgetting("to status")
    /\ forget' = [forget EXCEPT !.pc = "status", !.shown = shown]
    /\ UNCHANGED fileVars

ForgetWritesStatus ==
    LET d == forget.id IN
    /\ Forgetting("status") /\ ForgetGoesOn("to papers")
    /\ shown' = IF forget.shown[d] = NotShown THEN shown
                ELSE [forget.shown EXCEPT ![d] = NotShown]
    /\ UNCHANGED <<wishes, ports, papers>>

ForgetUnlinks ==
    /\ Forgetting("to papers")
    /\ papers' = [papers EXCEPT ![forget.id] = NoModem]
    /\ forget' = NoForget
    /\ UNCHANGED <<wishes, ports, shown>>

Forget ==
    \/ ForgetReadsWishes \/ ForgetWritesWishes \/ ForgetReadsPorts \/ ForgetWritesPorts
    \/ ForgetReadsStatus \/ ForgetWritesStatus \/ ForgetUnlinks

(* The engine ends or is started by other means.                           *)
LineChanges(d) ==
    /\ Event
    /\ line' = [line EXCEPT ![d] = ~@]
    /\ UNCHANGED <<machineVars, fileVars, switch, edit, forget>>

(* A request dies with the control plane; what it wrote stays.             *)
ControlRestarts ==
    /\ Event
    /\ switch' = NoSwitch /\ edit' = NoEdit /\ forget' = NoForget
    /\ UNCHANGED <<machineVars, fileVars, line>>

Control ==
    \/ \E d \in Ids : \/ \E w \in Wishes, again \in BOOLEAN : AskSwitch(d, w, again)
                      \/ ForgetLooks(d) \/ LineChanges(d)
    \/ SetReads \/ SetWrites \/ SwitchSucceeds \/ SwitchFails
    \/ Forget \/ ControlRestarts

-----------------------------------------------------------------------------
Init ==
    /\ usb \in Seatings
    /\ mm \in BOOLEAN /\ claimed = {} /\ air = [m \in Modems |-> "on"]
    /\ wishes \in SavedWishes /\ papers \in SavedPapers
    /\ ports = NoPorts /\ shown = NothingShown
    /\ host = AtRest /\ noted = [d \in Ids |-> "unknown"]
    /\ bridges = [d \in Ids |-> NoBridge] /\ dying = {}
    /\ switch = NoSwitch /\ edit = NoEdit /\ forget = NoForget /\ line = [d \in Ids |-> FALSE]
    /\ events = 0

Machine ==
    /\ \/ Host \/ HostRestarts \/ ModemManagerDies
       \/ \E d \in Ids : BridgeReports(d) \/ BridgeDies(d) \/ Unplug(d) \/ \E m \in Modems : Plug(d, m)
       \/ \E b \in dying : BridgeEnds(b)
       \/ \E m \in Modems : ModemManagerClaims(m)
    /\ UNCHANGED <<switch, edit, forget, line>>

Next == Machine \/ Control

(* The cycle goes on, and ModemManager claims what it finds.               *)
Spec ==
    /\ Init /\ [][Next]_vars
    /\ WF_vars(Host /\ UNCHANGED <<switch, edit, forget, line>>)
    /\ \A m \in Modems : WF_vars(ModemManagerClaims(m) /\ UNCHANGED <<switch, edit, forget, line>>)

-----------------------------------------------------------------------------
(* No two devices have one VPCD port in the file, whatever came, went,     *)
(* moved to another path or was forgotten: a port kept from before is      *)
(* never handed out again while the file has it.  (A device that comes     *)
(* back while it is forgotten loses its port from the file, and another    *)
(* may be given it while the first one's bridge still uses it.)            *)
PortsApart == \A d, e \in Ids : d # e /\ ports[d] # 0 => ports[d] # ports[e]

(* Once nothing more happens, every modem that is there has what the file  *)
(* wishes of it: the radio, and a running bridge exactly if it is to serve *)
(* VoWiFi, however requests, moves and failures met before.  (A bridge     *)
(* that runs may have lost ModemManager's object of its modem.)            *)
CarriedOut(d) ==
    usb[d] # NoModem => /\ bridges[d].up = Previous(d).vowifi
                        /\ air[usb[d]] = Plan(Previous(d))

WishesCarriedOut == <>[](\A d \in Ids : CarriedOut(d))

=============================================================================
