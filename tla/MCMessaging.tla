---------------------------- MODULE MCMessaging ------------------------------
(* Two sends and a message of another program, all of the same text.       *)
EXTENDS Messaging
LOCAL INSTANCE TLC
SameSends == Permutations(Requests)
=============================================================================
