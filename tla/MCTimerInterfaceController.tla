--------------------- MODULE MCTimerInterfaceController ---------------------
(* Three countdown pages of one recipe: two with different times, so that   *)
(* they run out in either order, and one whose time is negative, a date     *)
(* already past when it is set.                                             *)
EXTENDS TimerInterfaceController, TLC

CONSTANTS p1, p2, p3

MCPages == {p1, p2, p3}
MCTempo == (p1 :> 2) @@ (p2 :> 1) @@ (p3 :> -2)
=============================================================================
