SPECIFICATION StartUpSpec
CONSTANTS
  chop = chop
  bake = bake
  torta = torta
  costela = costela
  rabada = rabada
  ratatouille = ratatouille
  good = good
  bad = bad
  NoTime = NoTime
  Other = Other
  Absent = Absent
  NoRecipe = NoRecipe
  BlankCard <- MCBlankCard
  Keys <- MCKeys
  Texts <- MCTexts
  Times <- MCTimes
  Cards <- MCCards
  Snapshots <- MCSnapshots
  Words = {torta, costela, rabada, ratatouille}
  Photos <- MCPhotos
  BadPhotos = {bad}
  Setup <- MCSetup
  Highlight = {torta}
CHECK_DEADLOCK FALSE
INVARIANTS
  BookIsTheAnswer
  ScreensShowTheBook
PROPERTIES
  OnlyPhotosTrap
  StartUpEnds
