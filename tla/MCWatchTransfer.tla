--------------------------- MODULE MCWatchTransfer ---------------------------
(* Recipes that share a text: one whose first step is timed, so that the    *)
(* page of its second step is not the second page, one of a single step     *)
(* without a time, and one of no step at all, which the phone builds when   *)
(* no step of the database has a text.                                      *)
EXTENDS WatchTransfer

CONSTANTS chop, bake

MCTexts   == {chop, bake}
MCTimes   == {5}
MCRecipes ==
  {[steps |-> <<[text |-> bake, time |-> 5], [text |-> chop, time |-> NoTime]>>],
   [steps |-> <<[text |-> chop, time |-> NoTime]>>],
   [steps |-> << >>]}
=============================================================================
