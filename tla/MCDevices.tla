----------------------------- MODULE MCDevices -----------------------------
(* Two modems and two USB paths; one of them may have left its path before *)
(* the first cycle.                                                        *)
EXTENDS Devices, TLC

CONSTANTS m1, m2

Silent == [Default EXCEPT !.vowifi = FALSE, !.flight = TRUE]
Online == [Default EXCEPT !.vowifi = FALSE, !.data = TRUE]
Asked == {Default, Silent}

Seated == {1 :> m1 @@ 2 :> m2, 1 :> NoModem @@ 2 :> m1}
Files == {1 :> Online @@ 2 :> NoWish}
Papers == {1 :> m1 @@ 2 :> NoModem}

=============================================================================
