---------------------------- MODULE MCExitLedger ----------------------------
(* ExitLedger for TLC: the node names are interchangeable. *)
EXTENDS ExitLedger, TLC

NodeSymmetry == Permutations(Nodes)
=============================================================================
