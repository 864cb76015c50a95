--------------------------- MODULE MCExitSelector ---------------------------
(* ExitSelector for TLC.  The first member of a feed is a CHOOSE, so the   *)
(* nodes are not interchangeable and no symmetry is declared.              *)
EXTENDS ExitSelector
=============================================================================
