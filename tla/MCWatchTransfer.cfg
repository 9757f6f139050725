SPECIFICATION Spec
CONSTANTS
  chop = chop
  bake = bake
  NoTime = NoTime
  Texts <- MCTexts
  Times <- MCTimes
  Recipes <- MCRecipes
  MaxSends = 3
INVARIANTS
  ShownOneRecipe
  PagesFollowSteps
  InFlightInOrder
  LastStartAccountedFor
PROPERTIES
  ImplementsHandoff
  HandOversEnd
