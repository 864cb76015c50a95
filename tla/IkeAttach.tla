------------------------------ MODULE IkeAttach ------------------------------
(***************************************************************************)
(* How one swu_ike process of the engine attaches to the ePDG              *)
(* (engine/swu_ike.py, start_ike): IKE_SA_INIT, IKE_AUTH with EAP-AKA, the *)
(* final IKE_AUTH, and the ladder of address families an automatic line    *)
(* climbs.  The SIM and the ePDG decide how each exchange ends.            *)
(* IkeSession is the tunnel once it stands.                                *)
(***************************************************************************)
EXTENDS Integers

CONSTANTS
    Families,       \* length of the ladder of address families
    AutoModes       \* whether the line's cp_mode may be automatic, pinned or both

ASSUME AttachAssumption == Families \in Nat \ {0} /\ AutoModes \subseteq BOOLEAN

VARIABLES
    auto,       \* the line's cp_mode is automatic
    resolved,   \* cp_mode.resolved in the run directory; 0 when there is none
    attach,     \* the attach in progress
    status      \* swu_status.json

attachVars == <<auto, resolved, attach, status>>

Policies == {"none", "transient", "backoff", "no_retry"}

AttachTypeOK ==
    /\ auto \in AutoModes /\ resolved \in 0 .. Families
    /\ attach \in [at : {"init", "auth", "eap", "final", "connected", "exited"}, sends : 1 .. 3,
                   family : 1 .. Families, left : 0 .. 1, cookie : BOOLEAN,
                   eap : BOOLEAN, barred : BOOLEAN]
    /\ status \in [state : {"CONNECTING", "CONNECTED", "DOWN"}, why : {"none", "reject"}]

-----------------------------------------------------------------------------
(* The ladder: one family when it is pinned or was resolved before.        *)

First == IF auto /\ resolved # 0 THEN resolved ELSE 1
Last == IF auto /\ resolved = 0 THEN Families ELSE First

(* Two attempts per family, each from a clean slate.                       *)
Attempt(family, left, barred) ==
    [at |-> "init", sends |-> 1, family |-> family, left |-> left,
     cookie |-> IF left = 1 THEN FALSE ELSE attach.cookie, eap |-> FALSE, barred |-> barred]

AttachInit ==
    /\ auto \in AutoModes /\ resolved = 0
    /\ attach = [at |-> "init", sends |-> 1, family |-> 1, left |-> 1, cookie |-> FALSE,
                 eap |-> FALSE, barred |-> FALSE]
    /\ status = [state |-> "CONNECTING", why |-> "none"]

(* Every way out of the process passes through the last lines of main,     *)
(* which write DOWN with what the attach was rejected for, if it was.      *)
Exit(policy) ==
    /\ attach' = [attach EXCEPT !.at = "exited", !.barred = (policy = "no_retry")]
    /\ status' = [state |-> "DOWN", why |-> IF policy = "none" THEN "none" ELSE "reject"]

(* On to the next family of the ladder.                                    *)
NextFamily(policy) ==
    IF attach.family < Last
    THEN attach' = Attempt(attach.family + 1, 1, policy = "no_retry") /\ UNCHANGED status
    ELSE Exit(policy)

FailToNextFamily(policy) ==
    IF policy \in {"no_retry", "backoff"} THEN Exit(policy) ELSE NextFamily(policy)

FailAgain(policy) ==
    IF policy \in {"no_retry", "backoff"}
    THEN Exit(policy)
    ELSE attach' = Attempt(attach.family, 0, FALSE) /\ UNCHANGED status

(* _reject_guard, then the next attempt on the same family if one is left. *)
Fail(policy) ==
    IF policy \in {"no_retry", "backoff"} \/ attach.left = 0
    THEN Exit(policy)
    ELSE attach' = Attempt(attach.family, 0, FALSE) /\ UNCHANGED status

GoTo(stage, sends) ==
    attach' = [attach EXCEPT !.at = stage, !.sends = sends] /\ UNCHANGED status

-----------------------------------------------------------------------------
(* The exchanges.  Any may time out after its retransmissions, be refused  *)
(* with an error notify of any policy, or (after IKE_SA_INIT) get a        *)
(* message of another kind, which raises an exception and ends the         *)
(* process.                                                                *)

Refused(stage) == \E policy \in Policies : attach.at = stage /\ Fail(policy)
Malformed(stage) == attach.at = stage /\ Exit("none")

SaInitAnswered == attach.at = "init" /\ GoTo("auth", 1)

(* No answer, or another group wanted: three sends in all.                 *)
SaInitRepeats ==
    /\ attach.at = "init" /\ attach.sends < 3
    /\ GoTo("init", attach.sends + 1)

(* A cookie is returned at once, but only in answer to the first send.     *)
SaInitCookie ==
    /\ attach.at = "init"
    /\ IF attach.sends = 1
       THEN attach' = [attach EXCEPT !.sends = 2, !.cookie = TRUE] /\ UNCHANGED status
       ELSE Fail("none")

(* The challenge is answered by the SIM.                                   *)
AuthChallenged == attach.at = "auth" /\ GoTo("eap", 1)

(* The identity is asked for, or the SIM finds the sequence out of step.   *)
AuthRepeats ==
    /\ attach.at = "auth"
    /\ IF attach.sends = 1 THEN GoTo("auth", 2) ELSE GoTo("eap", 2)

SimRefuses == attach.at \in {"auth", "eap"} /\ Fail("backoff")

EapSucceeds ==
    /\ attach.at = "eap"
    /\ attach' = [attach EXCEPT !.at = "final", !.sends = 1, !.eap = TRUE]
    /\ UNCHANGED status

EapRepeats ==
    /\ attach.at = "eap"
    /\ IF attach.sends = 1 THEN GoTo("eap", 2) ELSE Fail("none")

(* The final exchange is a matter of the address family, not of the SIM.   *)
FinalRefused(policy) ==
    /\ attach.at = "final"
    /\ IF auto /\ attach.eap THEN NextFamily(policy) ELSE Fail(policy)

(* A tunnel without a P-CSCF is deleted again on an automatic line.        *)
FinalUseless == attach.at = "final" /\ auto /\ NextFamily("none")

(* The tunnel stands: what the attempts counted is over.                   *)
Connected ==
    /\ attach.at = "final"
    /\ attach' = [Attempt(attach.family, 1, FALSE) EXCEPT !.at = "connected"]
    /\ status' = [state |-> "CONNECTED", why |-> "none"]
    /\ resolved' = IF auto THEN attach.family ELSE resolved

(* The entrypoint starts a new process; the run directory stays.           *)
Respawn ==
    /\ attach.at = "exited"
    /\ attach' = [Attempt(First, 1, FALSE) EXCEPT !.cookie = FALSE]
    /\ status' = [state |-> "CONNECTING", why |-> "none"]

Exchange ==
    /\ \/ SaInitAnswered \/ SaInitRepeats \/ SaInitCookie
       \/ AuthChallenged \/ AuthRepeats \/ SimRefuses
       \/ EapSucceeds \/ EapRepeats
       \/ \E policy \in Policies : FinalRefused(policy)
       \/ FinalUseless
       \/ \E stage \in {"init", "auth", "eap"} : Refused(stage)
       \/ \E stage \in {"auth", "eap", "final"} : Malformed(stage)
    /\ UNCHANGED <<auto, resolved>>

=============================================================================
