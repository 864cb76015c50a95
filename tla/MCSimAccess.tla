---------------------------- MODULE MCSimAccess ----------------------------
(* Two readers, and two SIMs that sit in both or share one eUICC.          *)
EXTENDS SimAccess, TLC

CONSTANTS r1, r2, s1, s2

BothSeated == r1 :> s1 @@ r2 :> s2
OneSeated == r1 :> s1 @@ r2 :> NoSim
BothListed == <<r1, r2>>
OneListed == <<r1>>
TwoListings == {BothListed, OneListed}
TwoSeatings == {BothSeated, OneSeated}

=============================================================================
