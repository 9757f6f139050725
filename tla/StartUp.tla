------------------------------ MODULE StartUp -------------------------------
(***************************************************************************)
(* The start of the phone app: the catalogue (Catalog) asks the database   *)
(* service for the recipe book, which parses the answer child by child     *)
(* (ParseManager) and calls the completion with it.  All of it runs on the *)
(* main thread, so that no screen moves while a book is parsed; only the   *)
(* network changes at any time.                                            *)
(*                                                                         *)
(* A card, the four strings of a recipe, is here what the catalogue sees   *)
(* of it: [name, photo].                                                   *)
(***************************************************************************)
EXTENDS ParseManager, SequencesExt

CONSTANTS Words, Photos, BadPhotos, Setup, Highlight, NoRecipe      (* of Catalog *)

VARIABLES online, trapped, interactive, loading, recipes, categories, categoryList, highlightRecipe,
          cells, rec, details, tapped                               (* of Catalog *)

(* What the catalogue knows of the call of createRecipeObject.              *)
CallSeen == IF fetch = "idle" THEN "none" ELSE IF fetch \in {"done", "cancelled"} THEN fetch ELSE "waiting"

Screens == INSTANCE Catalog WITH fetch <- CallSeen

ASSUME CatalogAssumptions ==
  /\ Screens!BadPhotosAssumption /\ Screens!NoRecipeAssumption
  /\ Screens!HighlightAssumption /\ Screens!SetupAssumption

(* The catalogue sees a card as a recipe, also the blank one, whose empty   *)
(* string is an address like another.                                       *)
ASSUME CardsAssumption == Cards \union {BlankCard} \subseteq Screens!Recipe

screenVars == <<interactive, loading, recipes, categories, categoryList, highlightRecipe, cells, rec, details, tapped>>
startUpVars == <<vars, online, trapped, screenVars>>

StartUpInit == Init /\ Screens!Init

-----------------------------------------------------------------------------
(* viewDidLoad: with a connection it calls createRecipeObject.              *)
LoadScreen == (CreateRecipeObject \/ UNCHANGED vars) /\ Screens!ViewDidLoad

Answers == ~trapped /\ Answered /\ UNCHANGED <<online, trapped, screenVars>>
Refuses == Cancelled /\ Screens!Cancelled

(* One child of the answer; a force unwrap of nil ends the app.             *)
Parses ==
  /\ ~trapped
  /\ PassOver \/ BlankOnShape \/ ReadRecipe \/ TrapOnIngredients
  /\ trapped' = (fetch' = "trapped")
  /\ UNCHANGED <<online, screenVars>>

(* The completion is called with the book parsed.                           *)
Book == [i \in DOMAIN response |-> response[i].card]
Delivers == Complete /\ Screens!Received(Book)
DeliveryTraps == Complete /\ Screens!ReceivedTraps(Book)

(* The screens, when the main thread is free.                               *)
Fills(s) == fetch # "parsing" /\ UNCHANGED vars /\ Screens!FillCell(s)
Touched ==
  /\ fetch # "parsing" /\ UNCHANGED vars
  /\ Screens!HighlightPressed \/ Screens!SelectAnItem \/ Screens!Back
Network == UNCHANGED vars /\ Screens!NetworkChanges

StartUpNext ==
  \/ LoadScreen
  \/ Answers \/ Refuses
  \/ Parses \/ Delivers \/ DeliveryTraps
  \/ \E s \in 1..Len(Setup) : Fills(s)
  \/ Touched
  \/ Network

(* The main thread starts the screen, parses what arrives and fills its     *)
(* views; the database answers or refuses a call.  Nobody owes a touch.     *)
StartUpSpec ==
  /\ StartUpInit /\ [][StartUpNext]_startUpVars
  /\ WF_startUpVars(LoadScreen)
  /\ WF_startUpVars(Answers \/ Refuses)
  /\ WF_startUpVars(Parses \/ Delivers \/ DeliveryTraps)
  /\ \A s \in 1..Len(Setup) : WF_startUpVars(Fills(s))

-----------------------------------------------------------------------------
(* The book that the screens get is the answer of the database: the         *)
(* completion comes once, with a recipe for every child, in its order, and  *)
(* each recipe holds what its own child holds and nothing of another one.   *)
BookIsTheAnswer == FromItsChild /\ CompletesOnceWithAll

(* What is offered is what was received, and what is opened is what was     *)
(* touched: categories keep to their elements, cells to their categories,   *)
(* touches wait for all of it, and the details are of the recipe tapped.    *)
ScreensShowTheBook ==
  /\ Screens!CategoriesHoldTheirElements
  /\ Screens!CellsAreCurrent
  /\ Screens!TouchableWhenReady
  /\ Screens!DetailsAsTapped

(* Once a book is received, refused or given up, only a photo that does not *)
(* load ends the app, also with recipes that parseRecipe left blank.        *)
OnlyPhotosTrap == Screens!OnlyPhotosTrap

(* The start comes to an end: the catalogue whole on the screen, the        *)
(* message that there is no connection, a trap, or a spinner left turning   *)
(* by a read that was refused.                                              *)
StartUpEnds == Screens!StartUpEnds
=============================================================================
