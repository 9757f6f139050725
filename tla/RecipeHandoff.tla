---------------------------- MODULE RecipeHandoff ----------------------------
(***************************************************************************)
(* What "Start recipe" promises the cook, whatever lies between the two    *)
(* devices: the watch shows the pages of one recipe the cook started, all  *)
(* of them, and never goes back to a recipe started before the last one it *)
(* showed.  It may skip recipes, and it may be blank.                      *)
(***************************************************************************)
EXTENDS Naturals, Sequences

CONSTANTS
  Recipes,     (* the recipes the cook can start                           *)
  PagesOf(_),  (* the pages of a recipe                                    *)
  Blank        (* a watch that shows no recipe                             *)

VARIABLES
  chosen,      (* the recipes started, in order                            *)
  newest,      (* the last of them that was shown, 0 before the first      *)
  screen       (* the pages on the watch                                   *)

vars == <<chosen, newest, screen>>

Init ==
  /\ chosen = << >>
  /\ newest = 0
  /\ screen = Blank

Choose(recipe) ==
  /\ chosen' = Append(chosen, recipe)
  /\ UNCHANGED <<newest, screen>>

Show(n) ==
  /\ n > newest
  /\ newest' = n
  /\ screen' = PagesOf(chosen[n])
  /\ UNCHANGED chosen

Clear ==
  /\ screen' = Blank
  /\ UNCHANGED <<chosen, newest>>

Next ==
  \/ \E recipe \in Recipes : Choose(recipe)
  \/ \E n \in 1..Len(chosen) : Show(n)
  \/ Clear

Spec == Init /\ [][Next]_vars
=============================================================================
