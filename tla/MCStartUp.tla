----------------------------- MODULE MCStartUp ------------------------------
(* Recipe books of up to three children, drawn from one for each shape that *)
(* parseRecipe tells apart.  The first three are whole: keys of one and of  *)
(* two digits, an ingredient that comes twice, a step without a text.       *)
(*                                                                          *)
(* Two categories, of two elements and of one, as different in length as    *)
(* those of viewDidLoad, and a highlight.  Two recipes have the names of    *)
(* all of them, one of them again with a photo that never loads.            *)
EXTENDS StartUp, TLC

CONSTANTS chop, bake, torta, costela, rabada, ratatouille, good, bad

MCKeys  == {1, 2, 3, 10}
MCTexts == {chop, bake}
MCTimes == {5}

MCPhotos == {good, bad}
cake == [name |-> {torta, costela}, photo |-> good]
pie  == [name |-> {rabada, ratatouille, costela}, photo |-> good]
Unlit == [pie EXCEPT !.photo = bad]
MCCards == {cake, pie, Unlit}
MCBlankCard == [name |-> {}, photo |-> bad]
MCSetup == <<[elements |-> <<{costela}, {ratatouille}>>], [elements |-> <<{rabada}>>]>>

Timed(t)   == [text |-> t, time |-> 5]
Untimed(t) == [text |-> t, time |-> NoTime]

TwoDigitKeys ==
  [ing |-> (1 :> chop) @@ (2 :> bake), card |-> cake,
   stp |-> (2 :> Untimed(chop)) @@ (10 :> Timed(bake))]
NoTextStep ==
  [ing |-> (1 :> chop) @@ (2 :> chop), card |-> pie,
   stp |-> (1 :> Untimed(bake)) @@ (2 :> Untimed(Other)) @@ (3 :> Timed(chop))]
NoSteps   == [ing |-> << >>, card |-> Unlit, stp |-> << >>]
BadStep   == [ing |-> (1 :> bake), card |-> cake,
              stp |-> (1 :> Timed(bake)) @@ (2 :> Other) @@ (3 :> Timed(chop))]
BadShape  == [ing |-> Other, card |-> cake, stp |-> (1 :> Untimed(chop))]
NoPassos  == [ing |-> (1 :> chop), card |-> cake, stp |-> Other]
NoIng     == [ing |-> Absent, card |-> cake, stp |-> Other]
BadIng    == [ing |-> (1 :> chop) @@ (2 :> Other), card |-> cake,
              stp |-> (1 :> Untimed(chop))]
NoCard    == [ing |-> (1 :> chop), card |-> Other, stp |-> (1 :> Untimed(chop))]

MCChildren ==
  {Other, TwoDigitKeys, NoTextStep, NoSteps, BadStep, BadShape, NoPassos,
   NoIng, BadIng, NoCard}

MCSnapshots == UNION {[1..n -> MCChildren] : n \in 0..3}
=============================================================================
