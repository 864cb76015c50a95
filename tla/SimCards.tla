------------------------------ MODULE SimCards ------------------------------
(***************************************************************************)
(* SIM cards behind PC/SC readers: where each card sits, in which order    *)
(* pcscd enumerates the readers, how many PIN attempts a card has left and *)
(* whether its PIN stands verified.  The cards and pcscd are outside the   *)
(* repository; what the gateway presents to them, and when it refuses to,  *)
(* is the code of sim.py, pin_keeper.py, ami_usim.py and swu_ike.py.       *)
(*                                                                         *)
(* Every PIN command of the repository looks the attempts up and presents  *)
(* the PIN inside one PC/SC transaction, so a command is one step here.    *)
(* All cards ask for a PIN, and no two of them for the same one.           *)
(***************************************************************************)
EXTENDS Integers, Sequences

CONSTANTS
    Readers,        \* the readers; a name, a USB port and a socket are one
    Sims,           \* SIM identities; a line is named by the one it is for
    NoReader, NoSim

ASSUME SimCardsAssumption == NoReader \notin Readers /\ NoSim \notin Sims

VARIABLES
    order,      \* the readers in pcscd's order
    at,         \* the SIM that answers in each reader
    card        \* each SIM's attempts left, and whether its PIN is verified

MinTries == 2
FullTries == 3

Cards == [tries : 0 .. FullTries, open : BOOLEAN]

CardsTypeOK == card \in [Sims -> Cards]

-----------------------------------------------------------------------------
(* Readers are addressed by their index in the order of the moment.        *)

Attached == {order[i] : i \in DOMAIN order}
IndexOf(r) == CHOOSE i \in DOMAIN order : order[i] = r
ReaderAt(i) == IF i \in DOMAIN order THEN order[i] ELSE NoReader
SimIn(r) == IF r \in Attached THEN at[r] ELSE NoSim
Filled == {r \in Attached : at[r] # NoSim}

(* A card that receives a PIN.  The right one restores all attempts, a     *)
(* wrong one costs an attempt and the verified state.                      *)
Presented(c, right) ==
    IF c.tries = 0 THEN c
    ELSE IF right THEN [tries |-> FullTries, open |-> TRUE]
    ELSE [tries |-> c.tries - 1, open |-> FALSE]

(* The guard all PIN code shares: a verified card does not tell how many   *)
(* attempts are left, and any other is spared with fewer than MinTries of  *)
(* them.  With two left a PIN is presented, though the comments at         *)
(* MIN_TRIES say that it is not.                                           *)
GuardedToTheLast(c, right) == IF ~c.open /\ c.tries < MinTries - 1 THEN c ELSE Presented(c, right)

Guarded(c, right) == IF ~c.open /\ c.tries < MinTries THEN c ELSE Presented(c, right)

(* Programs that only need the card open leave a verified card alone.      *)
UnlockedUnasked(c, right) == Guarded(c, right)

Unlocked(c, right) == IF c.open THEN c ELSE Guarded(c, right)

(* A card whose PIN stays verified, or that asks for it again.             *)
Kept(c, keep) == IF keep THEN c ELSE [tries |-> c.tries, open |-> FALSE]

(* A card that loses power or is reset.                                    *)
Reset(s) == [card EXCEPT ![s] = Kept(@, FALSE)]

=============================================================================
