------------------------------ MODULE TunnelKeys -----------------------------
(***************************************************************************)
(* What the engine's tunnel promises of its child SAs, whatever exchanges  *)
(* bring it about: the keys this end sends with are always keys the other  *)
(* end holds, and this end moves to a key only after the other end has it  *)
(* (make before break).  IkeSession implements it.                         *)
(***************************************************************************)
CONSTANTS AllKeys, NoKey

VARIABLES
    here,       \* the key this end uses, NoKey when there is no tunnel
    there       \* the keys the other end holds

keyVars == <<here, there>>

Init == here = NoKey /\ there = {}

Establish(k) == here = NoKey /\ here' = k /\ there' = {k}
Offer(k) == here # NoKey /\ there' = there \cup {k} /\ UNCHANGED here
Switch(k) == here # NoKey /\ k \in there /\ here' = k /\ UNCHANGED there
Retire(k) == k # here /\ there' = there \ {k} /\ UNCHANGED here
Break == here # NoKey /\ here' = NoKey /\ there' = {}

Next ==
    \/ \E k \in AllKeys : Establish(k) \/ Offer(k) \/ Switch(k) \/ Retire(k)
    \/ Break

Spec == Init /\ [][Next]_keyVars
=============================================================================
