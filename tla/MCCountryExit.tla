---------------------------- MODULE MCCountryExit ---------------------------
(* CountryExit for TLC: the lines are interchangeable, the nodes are not.  *)
EXTENDS CountryExit, TLC

LineSymmetry == Permutations(Lines)
=============================================================================
