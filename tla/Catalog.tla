------------------------------- MODULE Catalog -------------------------------
(***************************************************************************)
(* The first two screens of the phone: the catalogue, which loads the      *)
(* recipe book once and offers a highlight and categories of recipes       *)
(* (ViewController, ObjectsManager, CategoryCell), and the details of the  *)
(* recipe tapped (RecipesDetailsViewController).                           *)
(*                                                                         *)
(* Every photo is loaded synchronously on the main thread when its view is *)
(* filled, and a force unwrap that fails ends the app: such a step sets    *)
(* trapped.                                                                *)
(*                                                                         *)
(* A name is a set of words, and contains(_:) is inclusion.                *)
(***************************************************************************)
EXTENDS Integers, Sequences, SequencesExt

CONSTANTS
  Words,       (* the words of recipe names                                *)
  Photos,      (* the photo addresses                                      *)
  BadPhotos,   (* those of them that never give an image                   *)
  Setup,       (* the categories set up in viewDidLoad, and their elements *)
  Highlight,   (* the name looked for by setupHighlightRecipe              *)
  NoRecipe     (* nil                                                      *)

Recipe == [name : SUBSET Words, photo : Photos]

BadPhotosAssumption == BadPhotos \subseteq Photos
NoRecipeAssumption == NoRecipe \notin Recipe
HighlightAssumption == Highlight \in (SUBSET Words) \ {{}}
SetupAssumption ==
  Setup \in Seq([elements : Seq((SUBSET Words) \ {{}}) \ {<< >>}]) \ {<< >>}

VARIABLES
  online,          (* the network                                          *)
  trapped,         (* the app was ended by a trap                          *)
  fetch,           (* the call of createRecipeObject                       *)
  interactive,     (* view.isUserInteractionEnabled                        *)
  loading,         (* what loadingView shows                               *)
  recipes,         (* ViewController.recipes                               *)
  categories,      (* ViewController.categories                            *)
  categoryList,    (* ObjectsManager.categoryList                          *)
  highlightRecipe, (* ViewController.highlightRecipe                       *)
  cells,           (* cells[s]: the category in the cell of section s, or  *)
                   (* << >> when the table has to ask for it              *)
  rec,             (* ViewController.rec                                   *)
  details,         (* RecipesDetailsViewController.recipe, when on screen  *)
  tapped           (* history: the recipe last tapped                      *)

look    == <<interactive, loading>>
book    == <<recipes, categories, categoryList, highlightRecipe>>
path    == <<rec, details, tapped>>
screens == <<look, book, cells, path>>
vars    == <<online, trapped, fetch, screens>>

-----------------------------------------------------------------------------
(* The recipes of a book whose name contains a name, by position.           *)
Found(name, answer) == {i \in 1..Len(answer) : name \subseteq answer[i].name}

(* result[0], when there is one.                                            *)
First(name, answer) == answer[CHOOSE i \in Found(name, answer) :
                            \A j \in Found(name, answer) : i <= j]

(* Slip: recipeList is not emptied when getElements starts.                 *)
ElementsOfAll(n, answer) ==
  FlattenSeq([c \in 1..n |-> [e \in 1..Len(categories[c].elements) |->
                                First(categories[c].elements[e], answer)]])

(* getElements(_:_:) of the n-th category: the first match of each element. *)
ElementsOf(n, answer) ==
  [e \in 1..Len(categories[n].elements) |-> First(categories[n].elements[e], answer)]

(* createCategories(_:_:): categoryList grows by the filled categories.     *)
Filled(answer) ==
  categoryList \o [n \in 1..Len(categories) |->
                     [elements |-> categories[n].elements,
                      recipes  |-> ElementsOf(n, answer)]]

(* A search of a book that finds nothing traps on result[0].                *)
Missing(answer) ==
  \/ Found(Highlight, answer) = {}
  \/ \E n \in 1..Len(categories) : \E e \in 1..Len(categories[n].elements) :
       Found(categories[n].elements[e], answer) = {}

(* Data(contentsOf:) and UIImage(data:) give an image.                      *)
Loads(photo) == online /\ photo \notin BadPhotos

(* The table asks again for every cell.                                     *)
NoCells == [s \in 1..Len(Setup) |-> << >>]

Trap ==
  /\ trapped' = TRUE
  /\ UNCHANGED <<online, fetch, screens>>

Init ==
  /\ online \in BOOLEAN
  /\ trapped = FALSE
  /\ fetch = "none"
  /\ interactive = TRUE
  /\ loading = "spinner"
  /\ recipes = << >>
  /\ categories = << >>
  /\ categoryList = << >>
  /\ highlightRecipe = NoRecipe
  /\ cells = NoCells
  /\ rec = NoRecipe
  /\ details = NoRecipe
  /\ tapped = NoRecipe

-----------------------------------------------------------------------------
(* The two calls of setupCategories(name:elements:): no recipes yet.        *)
SetUpCategories ==
  [n \in 1..Len(Setup) |-> [elements |-> Setup[n].elements, recipes |-> << >>]]

(* InternetConnection.checkCconnection(): the network is reachable and asks *)
(* for no dialling.                                                         *)
checkCconnection == online

(* viewDidLoad(), before which no view takes a touch: the categories are    *)
(* still empty.  Without a connection it fetches nothing.                   *)
StartUp ==
  /\ ~trapped
  /\ categories = << >>
  /\ categories' = SetUpCategories
  /\ \/ checkCconnection /\ fetch' = "waiting" /\ UNCHANGED loading
     \/ ~checkCconnection /\ loading' = "noConnection" /\ UNCHANGED fetch
  /\ UNCHANGED <<online, trapped, recipes, categoryList, highlightRecipe,
                 cells, path>>

(* Slip: viewDidLoad leaves touches on.                                     *)
ViewDidLoadTouchable == StartUp /\ UNCHANGED interactive

(* It turns touches off.                                                    *)
ViewDidLoad == StartUp /\ interactive' = FALSE

(* The completion of createRecipeObject, on the main queue, but for the     *)
(* reload of the table.                                                     *)
LoadBook(answer) ==
  /\ ~trapped
  /\ fetch = "waiting"
  /\ ~Missing(answer)
  /\ Loads(First(Highlight, answer).photo)
  /\ fetch' = "done"
  /\ recipes' = answer
  /\ interactive' = TRUE
  /\ loading' = "hidden"
  /\ categoryList' = Filled(answer)
  /\ categories' = categoryList'
  /\ highlightRecipe' = First(Highlight, answer)
  /\ UNCHANGED <<online, trapped, path>>

(* Slip: the table is not reloaded.                                         *)
ReceivedNoReload(answer) == LoadBook(answer) /\ UNCHANGED cells

Received(answer) == LoadBook(answer) /\ cells' = NoCells

(* The same, when a recipe is missing or the photo of the highlight does    *)
(* not load.                                                                *)
ReceivedTraps(answer) ==
  /\ ~trapped
  /\ fetch = "waiting"
  /\ ~Missing(answer) => ~Loads(First(Highlight, answer).photo)
  /\ fetch' = "done"
  /\ trapped' = TRUE
  /\ UNCHANGED <<online, screens>>

(* The database refuses the read, and no completion is called.              *)
Cancelled ==
  /\ ~trapped
  /\ fetch = "waiting"
  /\ fetch' = "cancelled"
  /\ UNCHANGED <<online, trapped, screens>>

(* tableView(_:cellForRowAt:) and the collection view of the cell, which    *)
(* loads a photo for each recipe.                                           *)
FillCell(s) ==
  /\ ~trapped
  /\ s \in 1..Len(categories)
  /\ cells[s] = << >>
  /\ LET shown == categories[s].recipes
     IN  \/ /\ \A i \in 1..Len(shown) : Loads(shown[i].photo)
            /\ cells' = [cells EXCEPT ![s] = <<categories[s]>>]
            /\ UNCHANGED <<online, trapped, fetch, look, book, path>>
         \/ /\ \E i \in 1..Len(shown) : ~Loads(shown[i].photo)
            /\ Trap

(* viewDidLoad of the details: the recipe is shown when its photo loads.    *)
ShowDetails(recipe) ==
  /\ recipe # NoRecipe
  /\ Loads(recipe.photo)
  /\ details' = recipe

(* Slip: rec is only set the first time.                                    *)
GoToDetailsOfFirst(recipe) ==
  /\ rec' = IF rec = NoRecipe THEN recipe ELSE rec
  /\ ShowDetails(rec')
  /\ tapped' = recipe
  /\ UNCHANGED <<online, trapped, fetch, look, book, cells>>

(* goToDetails(recipe:) and prepare(for:sender:), in one touch.             *)
GoToDetails(recipe) ==
  \/ /\ rec' = recipe
     /\ ShowDetails(rec')
     /\ tapped' = recipe
     /\ UNCHANGED <<online, trapped, fetch, look, book, cells>>
  \/ /\ recipe # NoRecipe => ~Loads(recipe.photo)
     /\ Trap

Touchable == ~trapped /\ interactive /\ categories # << >> /\ details = NoRecipe

HighlightPressed ==
  /\ Touchable
  /\ GoToDetails(highlightRecipe)

(* collectionView(_:didSelectItemAt:) on an item of a cell that is filled.  *)
DidSelectItem(s, i) ==
  /\ Touchable
  /\ cells[s] # << >>
  /\ i \in 1..Len(cells[s][1].recipes)
  /\ GoToDetails(cells[s][1].recipes[i])

Back ==
  /\ ~trapped
  /\ details # NoRecipe
  /\ details' = NoRecipe
  /\ UNCHANGED <<online, trapped, fetch, look, book, cells, rec, tapped>>

NetworkChanges ==
  /\ ~trapped
  /\ online' = ~online
  /\ UNCHANGED <<trapped, fetch, screens>>

SelectAnItem ==
  \E s \in 1..Len(Setup) :
    cells[s] # << >> /\ \E i \in 1..Len(cells[s][1].recipes) : DidSelectItem(s, i)

-----------------------------------------------------------------------------
(* Once the book is received, every category set up is there once, in its   *)
(* place, and holds for each of its elements, in order, one recipe of the   *)
(* book named after it: the lists that createCategories and getElements     *)
(* keep in instance variables do not run into each other, and the blank     *)
(* recipe that parseRecipe makes of a malformed one is never offered.       *)
CategoriesHoldTheirElements ==
  fetch = "done" /\ ~trapped =>
    /\ Len(categories) = Len(Setup)
    /\ \A s \in 1..Len(Setup) :
         LET shelf == categories[s].recipes
         IN  /\ Len(shelf) = Len(Setup[s].elements)
             /\ \A e \in 1..Len(shelf) :
                  /\ Setup[s].elements[e] \subseteq shelf[e].name
                  /\ \E i \in 1..Len(recipes) : recipes[i] = shelf[e]

(* What a cell shows, and hands over when it is tapped, is the category its *)
(* section has now, not the one it was filled with earlier: the table is    *)
(* reloaded after the categories change.                                    *)
CellsAreCurrent ==
  \A s \in 1..Len(Setup) : cells[s] = << >> \/ cells[s] = <<categories[s]>>

(* Touches reach the catalogue only when the highlight is there to be       *)
(* opened and every category is filled: the completion turns touches on     *)
(* before it creates the categories, and viewDidLoad turned them off.       *)
TouchableWhenReady ==
  Touchable =>
    /\ highlightRecipe # NoRecipe
    /\ Highlight \subseteq highlightRecipe.name
    /\ \A s \in 1..Len(Setup) : categories[s].recipes # << >>

(* The details are those of the recipe that was tapped last, which has a    *)
(* name: rec is set before the segue reads it.                              *)
DetailsAsTapped ==
  details # NoRecipe => details = tapped /\ details.name # {}

(* Once a book is received, refused or given up, only a photo that does not *)
(* load ends the app: no tap and no cell unwraps a recipe that is not there.*)
OnlyPhotosTrap ==
  [][trapped' /\ fetch # "waiting" =>
       ~online \/ \E i \in 1..Len(recipes) : recipes[i].photo \in BadPhotos]_vars

Ready ==
  /\ interactive
  /\ loading = "hidden"
  /\ \A s \in 1..Len(Setup) : cells[s] # << >> /\ cells[s][1].recipes # << >>

(* The start of the app comes to an end: the whole catalogue is on screen,  *)
(* or the message that there is no connection, or the app was ended by a    *)
(* trap, or the database refused the read and left the spinner turning.     *)
StartUpEnds ==
  <>(Ready \/ loading = "noConnection" \/ trapped \/ fetch = "cancelled")
=============================================================================
