---------------------------- MODULE StartUpProofs ----------------------------
(* What the catalogue gets of the database at its start, for any answer and *)
(* whatever the screens do meanwhile: one call of its completion, with one  *)
(* recipe for each child that is a dictionary (createRecipeObject), which   *)
(* holds what that child holds (parseRecipe).                               *)
EXTENDS StartUp, FiniteSetTheorems, WellFoundedInduction, TLAPS

(* The recipes of the response come from the children the loop has passed:  *)
(* each that is a dictionary, in their order.                               *)
OriginSoFar ==
  /\ next \in 1..(Len(snapshot) + 1)
  /\ origin \in Seq(1..(next - 1))
  /\ \A n \in 1..(next - 1) : snapshot[n] # Other <=> \E i \in DOMAIN origin : origin[i] = n
  /\ \A i, j \in DOMAIN origin : i < j => origin[i] < origin[j]

CompletedOnce ==
  IF fetch = "done" THEN completions = << response >> /\ next > Len(snapshot)
                    ELSE completions = << >>

IInv == Len(snapshot) \in Nat /\ OriginSoFar /\ CompletedOnce

-----------------------------------------------------------------------------
(* A child whose recipe is appended is the last the loop has passed.        *)
LEMMA AppendKeeps ==
  ASSUME IInv, AtDictionary, NEW recipe, AppendRecipe(recipe)
  PROVE  IInv'
<1>1. /\ next' = next + 1 /\ next \in 1..Len(snapshot) /\ snapshot[next] # Other
      /\ origin' = Append(origin, next)
      /\ UNCHANGED <<snapshot, fetch, completions>> /\ fetch = "parsing"
  BY DEF AppendRecipe, AtDictionary, AtChild, IInv, OriginSoFar
<1>2. /\ Len(origin) \in Nat /\ Len(origin') = Len(origin) + 1
      /\ DOMAIN origin = 1..Len(origin) /\ DOMAIN origin' = 1..(Len(origin) + 1)
      /\ \A i \in DOMAIN origin : origin'[i] = origin[i] /\ origin[i] \in 1..(next - 1)
      /\ origin'[Len(origin) + 1] = next
      /\ origin' \in Seq(1..(next' - 1))
  BY <1>1 DEF IInv, OriginSoFar
<1>3. ASSUME NEW n \in 1..(next' - 1)
      PROVE  snapshot[n] # Other <=> \E i \in DOMAIN origin' : origin'[i] = n
  <2>1. CASE n = next
    BY <1>1, <1>2, <2>1
  <2>2. CASE n # next
    <3>1. n \in 1..(next - 1)
      BY <1>1, <2>2
    <3>2. snapshot[n] # Other <=> \E i \in DOMAIN origin : origin[i] = n
      BY <3>1 DEF IInv, OriginSoFar
    <3>3. (\E i \in DOMAIN origin : origin[i] = n) <=> (\E i \in DOMAIN origin' : origin'[i] = n)
      BY <1>2, <2>2
    <3>4. QED
      BY <3>2, <3>3
  <2>3. QED
    BY <2>1, <2>2
<1>4. \A i, j \in DOMAIN origin' : i < j => origin'[i] < origin'[j]
  BY <1>1, <1>2 DEF IInv, OriginSoFar
<1>5. OriginSoFar'
  BY <1>1, <1>2, <1>3, <1>4 DEF OriginSoFar
<1>6. CompletedOnce'
  BY <1>1 DEF IInv, CompletedOnce
<1>7. QED
  BY <1>1, <1>5, <1>6 DEF IInv

(* A child that is no dictionary is passed without a recipe.                *)
LEMMA PassOverKeeps ==
  ASSUME IInv, PassOver
  PROVE  IInv'
<1>1. /\ next' = next + 1 /\ next \in 1..Len(snapshot) /\ snapshot[next] = Other
      /\ UNCHANGED <<snapshot, fetch, completions, origin, response>> /\ fetch = "parsing"
  BY DEF PassOver, AtChild, IInv, OriginSoFar, result
<1>2. origin \in Seq(1..next) /\ \A i \in DOMAIN origin : origin[i] \in 1..(next - 1)
  BY <1>1 DEF IInv, OriginSoFar
<1>3. OriginSoFar'
  BY <1>1, <1>2 DEF IInv, OriginSoFar
<1>4. QED
  BY <1>1, <1>3 DEF IInv, CompletedOnce

(* A move of the call that parses nothing.                                  *)
LEMMA FetchKeeps ==
  ASSUME IInv, NEW from, NEW to, Fetch(from, to), from # "done", to # "done"
  PROVE  IInv'
BY DEF Fetch, result, IInv, OriginSoFar, CompletedOnce

LEMMA CompleteKeeps ==
  ASSUME IInv, Complete
  PROVE  IInv'
BY DEF Complete, result, IInv, OriginSoFar, CompletedOnce

(* The screens leave the call of createRecipeObject alone.                  *)
LEMMA ScreensKeep ==
  ASSUME IInv, UNCHANGED vars
  PROVE  IInv'
BY DEF vars, result, IInv, OriginSoFar, CompletedOnce

LEMMA ParsesKeep ==
  ASSUME IInv, Parses
  PROVE  IInv'
<1>1. CASE PassOver
  BY <1>1, PassOverKeeps
<1>2. CASE BlankOnShape
  BY <1>2, AppendKeeps DEF BlankOnShape
<1>3. CASE ReadRecipe
  <2>1. AtDictionary
    BY <1>3 DEF ReadRecipe
  <2>2. CASE Trap
    BY <2>2, FetchKeeps DEF Trap
  <2>3. CASE \E recipe : AppendRecipe(recipe)
    BY <2>1, <2>3, AppendKeeps
  <2>4. QED
    BY <1>3, <2>2, <2>3 DEF ReadRecipe
<1>4. CASE TrapOnIngredients
  BY <1>4, FetchKeeps DEF TrapOnIngredients, Trap
<1>5. QED
  BY <1>1, <1>2, <1>3, <1>4 DEF Parses

LEMMA ParserStep ==
  ASSUME IInv, [StartUpNext]_startUpVars
  PROVE  IInv'
<1>1. CASE LoadScreen
  BY <1>1, FetchKeeps, ScreensKeep DEF LoadScreen, CreateRecipeObject
<1>2. CASE Answers \/ Refuses
  BY <1>2, FetchKeeps DEF Answers, Refuses, Answered, Cancelled
<1>3. CASE Parses
  BY <1>3, ParsesKeep
<1>4. CASE Delivers \/ DeliveryTraps
  BY <1>4, CompleteKeeps DEF Delivers, DeliveryTraps
<1>5. CASE (\E s \in 1..Len(Setup) : Fills(s)) \/ Touched \/ Network \/ UNCHANGED startUpVars
  BY <1>5, ScreensKeep DEF Fills, Touched, Network, startUpVars
<1>6. QED
  BY <1>1, <1>2, <1>3, <1>4, <1>5 DEF StartUpNext

-----------------------------------------------------------------------------
(* "Guarantees it returns a value when it finishes retriving all data"      *)
(* (DatabaseService.createRecipeObject): the completion is called once,     *)
(* with one recipe for every child that is a dictionary and in the order of *)
(* the answer, whatever the answer holds.                                   *)
THEOREM BookIsComplete == StartUpSpec => []CompletesOnceWithAll
<1>1. StartUpInit => IInv
  BY SnapshotsAssumption DEF StartUpInit, Init, IInv, OriginSoFar, CompletedOnce
<1>2. ASSUME IInv, [StartUpNext]_startUpVars PROVE IInv'
  BY <1>2, ParserStep
<1>3. IInv => CompletesOnceWithAll
  BY DEF IInv, OriginSoFar, CompletedOnce, CompletesOnceWithAll
<1>4. QED
  BY <1>1, <1>2, <1>3, PTL DEF StartUpSpec

-----------------------------------------------------------------------------
(* What the screens hold, for the second invariant.                         *)

(* The recipes parsed so far have cards, blank ones included.               *)
ResponseHasCards ==
  /\ response \in Seq({response[i] : i \in DOMAIN response})
  /\ \A i \in DOMAIN response : response[i].card \in Cards \union {BlankCard}

(* A recipe of a book, found by a name.                                     *)
FoundIn(name, recipe, answer) ==
  /\ recipe \in Screens!Recipe
  /\ name \subseteq recipe.name
  /\ \E i \in 1..Len(answer) : answer[i] = recipe

(* Before viewDidLoad, no cell is asked for; until the book is there, every *)
(* touch is turned off; then the highlight and the shelves are full.        *)
NotLoaded == categories = << >> /\ CallSeen = "none" /\ cells = Screens!NoCells

SetUp ==
  /\ categories = Screens!SetUpCategories
  /\ interactive = FALSE
  /\ CallSeen = "done" => trapped

Offered ==
  /\ CallSeen = "done"
  /\ FoundIn(Highlight, highlightRecipe, recipes)
  /\ Len(categories) = Len(Setup)
  /\ \A s \in 1..Len(Setup) :
       /\ Len(categories[s].recipes) = Len(Setup[s].elements)
       /\ \A e \in 1..Len(Setup[s].elements) :
            FoundIn(Setup[s].elements[e], categories[s].recipes[e], recipes)

ScreensInv ==
  /\ snapshot \in Snapshots
  /\ ResponseHasCards
  /\ \/ NotLoaded /\ categoryList = << >>
     \/ SetUp /\ categoryList = << >>
     \/ Offered
  /\ cells = [s \in 1..Len(Setup) |-> cells[s]]
  /\ Screens!CellsAreCurrent
  /\ Screens!DetailsAsTapped

(* A set of naturals has a least one.  (The library's relation < is an      *)
(* operator; its set of pairs can be cited.)                                *)
NatBefore == {pair \in Nat \X Nat : pair[1] < pair[2]}

LEMMA LeastNumber ==
  ASSUME NEW T, T \subseteq Nat, T # {}
  PROVE  \E m \in T : \A n \in T : m <= n
<1>1. IsWellFoundedOn(NatBefore, Nat)
  BY NatLessThanWellFounded DEF OpToRel, NatBefore
<1>2. PICK m \in T : \A n \in T : <<n, m>> \notin NatBefore
  BY <1>1, WFMin
<1>3. ASSUME NEW n \in T PROVE m <= n
  <2>1. <<n, m>> \in Nat \X Nat /\ <<n, m>>[1] = n /\ <<n, m>>[2] = m
    OBVIOUS
  <2>2. ~(n < m)
    BY <1>2, <2>1 DEF NatBefore
  <2>3. QED
    BY <2>2
<1>4. QED
  BY <1>3

(* result[0] of a search that finds something is one of the book.           *)
LEMMA FirstIsFound ==
  ASSUME NEW name, NEW answer, Screens!Found(name, answer) # {}
  PROVE  \E i \in 1..Len(answer) : answer[i] = Screens!First(name, answer) /\ name \subseteq answer[i].name
<1>1. Screens!Found(name, answer) \subseteq Nat
  BY DEF Screens!Found
<1>2. \E i \in Screens!Found(name, answer) : \A j \in Screens!Found(name, answer) : i <= j
  BY <1>1, LeastNumber
<1>3. QED
  BY <1>2 DEF Screens!First, Screens!Found

(* What the completion gets is recipes, as the catalogue sees them.         *)
LEMMA BookOfRecipes ==
  ASSUME ResponseHasCards
  PROVE  \A i \in 1..Len(Book) : Book[i] \in Screens!Recipe
<1>1. DOMAIN response = 1..Len(response) /\ Len(response) \in Nat
  BY DEF ResponseHasCards
<1>2. Book \in Seq({Book[i] : i \in DOMAIN response}) /\ Len(Book) = Len(response)
  BY <1>1 DEF Book
<1>3. \A i \in DOMAIN response : Book[i] = response[i].card
  BY DEF Book
<1>4. QED
  BY <1>1, <1>2, <1>3, CardsAssumption DEF ResponseHasCards

LEMMA AppendHasCards ==
  ASSUME ResponseHasCards, NEW recipe, recipe.card \in Cards \union {BlankCard}, AppendRecipe(recipe)
  PROVE  ResponseHasCards'
<1>. DEFINE S == {response[i] : i \in DOMAIN response} \union {recipe}
<1>1. response \in Seq(S) /\ Len(response) \in Nat /\ DOMAIN response = 1..Len(response)
  BY DEF ResponseHasCards
<1>2. /\ response' \in Seq(S) /\ Len(response') = Len(response) + 1
      /\ DOMAIN response' = 1..(Len(response) + 1)
      /\ \A i \in DOMAIN response : response'[i] = response[i]
      /\ response'[Len(response) + 1] = recipe
  BY <1>1 DEF AppendRecipe
<1>3. \A i \in DOMAIN response' : response'[i].card \in Cards \union {BlankCard}
  BY <1>1, <1>2 DEF ResponseHasCards
<1>4. response' \in Seq({response'[i] : i \in DOMAIN response'})
  BY <1>1, <1>2
<1>5. QED
  BY <1>3, <1>4 DEF ResponseHasCards


(* The parser appends the card of its child, or the blank one.              *)
LEMMA ParserHasCards ==
  ASSUME IInv, ScreensInv, Parses
  PROVE  ResponseHasCards' /\ snapshot' = snapshot
<1>1. CASE PassOver
  BY <1>1 DEF PassOver, result, ScreensInv, ResponseHasCards
<1>2. CASE BlankOnShape
  BY <1>2, AppendHasCards DEF BlankOnShape, AppendRecipe, BlankRecipe, ScreensInv
<1>3. CASE ReadRecipe
  <2>1. snapshot[next] \in Child
    BY <1>3, SnapshotsAssumption
    DEF ReadRecipe, AtDictionary, AtChild, IInv, OriginSoFar, ScreensInv
  <2>2. snapshot[next].card # Other => snapshot[next].card \in Cards
    BY <2>1 DEF Child
  <2>3. CASE Trap
    BY <2>3 DEF Trap, Fetch, result, ScreensInv, ResponseHasCards
  <2>4. CASE AppendRecipe(BlankRecipe)
    BY <2>4, AppendHasCards DEF AppendRecipe, BlankRecipe, ScreensInv
  <2>5. CASE /\ snapshot[next].card # Other
             /\ AppendRecipe([card |-> snapshot[next].card, ingredients |-> ingredients', steps |-> steps'])
    BY <2>2, <2>5, AppendHasCards DEF AppendRecipe, ScreensInv
  <2>6. QED
    BY <1>3, <2>3, <2>4, <2>5 DEF ReadRecipe
<1>4. CASE TrapOnIngredients
  BY <1>4 DEF TrapOnIngredients, Trap, Fetch, result, ScreensInv, ResponseHasCards
<1>5. QED
  BY <1>1, <1>2, <1>3, <1>4 DEF Parses

(* While a book is waited for, the catalogue is as viewDidLoad left it.     *)
LEMMA WaitsInSetUp ==
  ASSUME ScreensInv, CallSeen = "waiting"
  PROVE  categories = Screens!SetUpCategories /\ categoryList = << >>
BY DEF ScreensInv, NotLoaded, Offered, SetUp

LEMMA ListOf ==
  ASSUME NEW n \in Nat, NEW S, NEW list \in [1..n -> S]
  PROVE  list \in Seq(S) /\ Len(list) = n /\ << >> \o list = list
OBVIOUS

(* The categories set up, and their names.                                  *)
LEMMA SetupLists ==
  /\ Len(Setup) \in Nat \ {0}
  /\ \A n \in 1..Len(Setup) :
       /\ Len(Setup[n].elements) \in Nat \ {0}
       /\ \A e \in 1..Len(Setup[n].elements) : Setup[n].elements[e] \in SUBSET Words /\ Setup[n].elements[e] # {}
<1>. DEFINE Names == Seq((SUBSET Words) \ {{}})
            Shelf == [elements : Names \ {<< >>}]
<1>1. Setup \in Seq(Shelf) /\ Setup # << >>
  BY CatalogAssumptions DEF Screens!SetupAssumption
<1>2. ASSUME NEW n \in 1..Len(Setup)
      PROVE  Setup[n].elements \in Names /\ Setup[n].elements # << >>
  <2>1. Setup[n] \in Shelf
    <3>. HIDE DEF Shelf
    <3>. QED
      BY <1>1
  <2>2. QED
    BY <2>1
<1>3. Len(Setup) \in Nat \ {0}
  <2>. HIDE DEF Shelf
  <2>. QED
    BY <1>1
<1>4. QED
  BY <1>2, <1>3

(* createCategories keeps the categories and their elements in place, and   *)
(* fills each with a recipe found by its element.                           *)
LEMMA ReceivedOffers ==
  ASSUME ScreensInv, Screens!Received(Book), CallSeen' = "done"
  PROVE  Offered'
<1>1. /\ categories = Screens!SetUpCategories /\ categoryList = << >>
      /\ recipes' = Book /\ ~Screens!Missing(Book)
      /\ highlightRecipe' = Screens!First(Highlight, Book)
      /\ categories' = Screens!Filled(Book)
  BY WaitsInSetUp DEF Screens!Received, Screens!LoadBook
<1>2. Len(Setup) \in Nat /\ DOMAIN Setup = 1..Len(Setup)
  BY CatalogAssumptions DEF Screens!SetupAssumption
<1>3. /\ Len(categories) = Len(Setup)
      /\ \A n \in 1..Len(Setup) : categories[n].elements = Setup[n].elements
  BY <1>1, <1>2 DEF Screens!SetUpCategories
<1>. DEFINE Shelf(n) == [elements |-> categories[n].elements, recipes |-> Screens!ElementsOf(n, Book)]
            Shelves == [n \in 1..Len(categories) |-> Shelf(n)]
<1>4. Len(Shelves) = Len(Setup) /\ << >> \o Shelves = Shelves
  <2>1. Shelves \in [1..Len(Setup) -> {Shelf(n) : n \in 1..Len(Setup)}]
    BY <1>3
  <2>2. QED
    BY <1>2, <2>1, ListOf
<1>5. categories' = Shelves
  BY <1>1, <1>4 DEF Screens!Filled
<1>6. ASSUME NEW name, Screens!Found(name, Book) # {}
      PROVE  FoundIn(name, Screens!First(name, Book), Book)
  BY <1>1, <1>6, FirstIsFound, BookOfRecipes DEF FoundIn, ScreensInv
<1>7. FoundIn(Highlight, highlightRecipe', Book)
  BY <1>1, <1>6 DEF Screens!Missing
<1>8. ASSUME NEW n \in 1..Len(Setup)
      PROVE  /\ Len(categories'[n].recipes) = Len(Setup[n].elements)
             /\ \A e \in 1..Len(Setup[n].elements) :
                  FoundIn(Setup[n].elements[e], categories'[n].recipes[e], Book)
  <2>1. Len(Setup[n].elements) \in Nat
    BY SetupLists
  <2>2. categories'[n].recipes
          = [e \in 1..Len(Setup[n].elements) |-> Screens!First(Setup[n].elements[e], Book)]
    BY <1>3, <1>5 DEF Screens!ElementsOf
  <2>3. \A e \in 1..Len(Setup[n].elements) : Screens!Found(Setup[n].elements[e], Book) # {}
    BY <1>1, <1>3 DEF Screens!Missing
  <2>4. Len(categories'[n].recipes) = Len(Setup[n].elements)
    BY <2>1, <2>2
  <2>5. ASSUME NEW e \in 1..Len(Setup[n].elements)
        PROVE  FoundIn(Setup[n].elements[e], categories'[n].recipes[e], Book)
    BY <1>6, <2>2, <2>3
  <2>6. QED
    BY <2>4, <2>5
<1>9. Len(categories') = Len(Setup)
  BY <1>4, <1>5
<1>10. QED
  BY <1>1, <1>7, <1>8, <1>9 DEF Offered, FoundIn, Screens!Recipe

-----------------------------------------------------------------------------
(* A step that leaves the screens alone: only a call that waited moves, and *)
(* what it comes to without a book ends the app or never gets one.          *)
LEMMA QuietKeeps ==
  ASSUME ScreensInv, UNCHANGED screenVars, ResponseHasCards', UNCHANGED snapshot,
         CallSeen' # CallSeen => CallSeen = "waiting",
         CallSeen' = "done" /\ CallSeen = "waiting" => trapped',
         trapped => trapped'
  PROVE  ScreensInv'
<1>1. (NotLoaded /\ categoryList = << >>) => (NotLoaded /\ categoryList = << >>)'
  BY DEF NotLoaded, screenVars, Screens!NoCells
<1>2. (SetUp /\ categoryList = << >>) => (SetUp /\ categoryList = << >>)'
  BY DEF SetUp, screenVars, Screens!SetUpCategories
<1>3. Offered => Offered'
  BY DEF Offered, screenVars, FoundIn, Screens!Recipe
<1>4. (cells = [s \in 1..Len(Setup) |-> cells[s]] /\ Screens!CellsAreCurrent /\ Screens!DetailsAsTapped)'
  BY DEF ScreensInv, screenVars, Screens!CellsAreCurrent, Screens!DetailsAsTapped
<1>5. QED
  BY <1>1, <1>2, <1>3, <1>4 DEF ScreensInv

LEMMA LoadScreenKeeps ==
  ASSUME ScreensInv, LoadScreen
  PROVE  ScreensInv'
<1>1. /\ categories = << >> /\ categories' = Screens!SetUpCategories /\ interactive' = FALSE
      /\ UNCHANGED <<trapped, recipes, categoryList, highlightRecipe, cells, rec, details, tapped>>
      /\ UNCHANGED <<response, snapshot>>
      /\ CallSeen' # "done" \/ CallSeen' = CallSeen
  BY DEF LoadScreen, CreateRecipeObject, Fetch, vars, result, Screens!ViewDidLoad, Screens!StartUp,
         Screens!path, CallSeen
<1>2. NotLoaded /\ categoryList = << >>
  <2>1. categories # Screens!SetUpCategories
    BY <1>1, SetupLists DEF Screens!SetUpCategories
  <2>2. QED
    BY <1>1, <2>1, SetupLists DEF ScreensInv, SetUp, Offered
<1>3. (SetUp /\ categoryList = << >>)'
  BY <1>1, <1>2 DEF SetUp, NotLoaded, Screens!SetUpCategories
<1>4. (cells = [s \in 1..Len(Setup) |-> cells[s]] /\ Screens!CellsAreCurrent)'
  BY <1>1, <1>2 DEF NotLoaded, Screens!NoCells, Screens!CellsAreCurrent
<1>5. ResponseHasCards' /\ Screens!DetailsAsTapped' /\ snapshot' \in Snapshots
  BY <1>1 DEF ScreensInv, ResponseHasCards, Screens!DetailsAsTapped
<1>6. QED
  BY <1>3, <1>4, <1>5 DEF ScreensInv

(* The table is reloaded with the new categories.                           *)
LEMMA DeliversKeep ==
  ASSUME ScreensInv, Delivers
  PROVE  ScreensInv'
<1>1. /\ UNCHANGED <<snapshot, response, details, tapped>> /\ CallSeen' = "done"
      /\ cells' = Screens!NoCells
  BY DEF Delivers, Complete, result, CallSeen, Screens!Received, Screens!LoadBook, Screens!path
<1>2. Offered'
  BY <1>1, ReceivedOffers DEF Delivers
<1>3. (cells = [s \in 1..Len(Setup) |-> cells[s]] /\ Screens!CellsAreCurrent)'
  BY <1>1 DEF Screens!NoCells, Screens!CellsAreCurrent
<1>4. ResponseHasCards' /\ Screens!DetailsAsTapped' /\ snapshot' \in Snapshots
  BY <1>1 DEF ScreensInv, ResponseHasCards, Screens!DetailsAsTapped
<1>5. QED
  BY <1>2, <1>3, <1>4 DEF ScreensInv

(* A view filled shows its category, or its photo ends the app.             *)
LEMMA FillsKeep ==
  ASSUME ScreensInv, NEW s \in 1..Len(Setup), Fills(s)
  PROVE  ScreensInv'
<1>1. UNCHANGED <<snapshot, response>> /\ CallSeen' = CallSeen
  BY DEF Fills, vars, result, CallSeen
<1>2. ResponseHasCards'
  BY <1>1 DEF ScreensInv, ResponseHasCards
<1>3. CASE Screens!Trap
  <2>1. UNCHANGED screenVars /\ trapped'
    BY <1>3 DEF Screens!Trap, Screens!screens, Screens!look, Screens!book, Screens!path, screenVars
  <2>2. QED
    BY <1>1, <1>2, <2>1, QuietKeeps
<1>4. CASE ~Screens!Trap
  <2>1. /\ cells' = [cells EXCEPT ![s] = <<categories[s]>>]
        /\ UNCHANGED <<trapped, interactive, recipes, categories, categoryList, highlightRecipe, details, tapped>>
        /\ s \in 1..Len(categories)
    BY <1>4 DEF Fills, Screens!FillCell, Screens!look, Screens!book, Screens!path
  <2>2. ~(NotLoaded /\ categoryList = << >>)
    BY <2>1 DEF NotLoaded
  <2>3. (SetUp /\ categoryList = << >>) => (SetUp /\ categoryList = << >>)'
    BY <1>1, <2>1 DEF SetUp, Screens!SetUpCategories
  <2>4. Offered => Offered'
    BY <1>1, <2>1 DEF Offered, FoundIn, Screens!Recipe
  <2>5. (cells = [k \in 1..Len(Setup) |-> cells[k]] /\ Screens!CellsAreCurrent)'
    BY <2>1 DEF ScreensInv, Screens!CellsAreCurrent
  <2>6. Screens!DetailsAsTapped' /\ snapshot' \in Snapshots
    BY <1>1, <2>1 DEF ScreensInv, Screens!DetailsAsTapped
  <2>7. QED
    BY <1>2, <2>2, <2>3, <2>4, <2>5, <2>6 DEF ScreensInv
<1>5. QED
  BY <1>3, <1>4

(* A name of viewDidLoad is not empty, nor is that of a recipe found by it. *)
LEMMA FoundHasName ==
  ASSUME NEW name, name # {}, NEW recipe, FoundIn(name, recipe, recipes)
  PROVE  recipe # NoRecipe /\ recipe.name # {}
BY CatalogAssumptions DEF FoundIn, Screens!NoRecipeAssumption

(* What can be tapped is a recipe of the book.                              *)
LEMMA TappedIsFound ==
  ASSUME ScreensInv, Screens!Touchable
  PROVE  /\ \E name : name # {} /\ FoundIn(name, highlightRecipe, recipes)
         /\ \A s \in 1..Len(Setup) : cells[s] # << >> =>
              \A i \in 1..Len(cells[s][1].recipes) :
                \E name : name # {} /\ FoundIn(name, cells[s][1].recipes[i], recipes)
<1>1. Offered
  <2>1. interactive /\ categories # << >>
    BY DEF Screens!Touchable
  <2>2. QED
    BY <2>1 DEF ScreensInv, NotLoaded, SetUp
<1>2. \E name : name # {} /\ FoundIn(name, highlightRecipe, recipes)
  BY <1>1, CatalogAssumptions DEF Offered, Screens!HighlightAssumption
<1>3. ASSUME NEW s \in 1..Len(Setup), cells[s] # << >>, NEW i \in 1..Len(cells[s][1].recipes)
      PROVE  \E name : name # {} /\ FoundIn(name, cells[s][1].recipes[i], recipes)
  <2>1. cells[s][1] = categories[s]
    BY <1>3 DEF ScreensInv, Screens!CellsAreCurrent
  <2>2. i \in 1..Len(Setup[s].elements) /\ Setup[s].elements[i] # {}
    BY <1>1, <1>3, <2>1, SetupLists DEF Offered
  <2>3. FoundIn(Setup[s].elements[i], cells[s][1].recipes[i], recipes)
    BY <1>1, <2>1, <2>2 DEF Offered
  <2>4. QED
    BY <2>2, <2>3
<1>4. QED
  BY <1>2, <1>3

(* A tap on a recipe of the book shows it, or its photo ends the app.       *)
LEMMA TapKeeps ==
  ASSUME ScreensInv, UNCHANGED vars, NEW name, name # {}, NEW recipe, FoundIn(name, recipe, recipes),
         Screens!GoToDetails(recipe)
  PROVE  /\ ScreensInv'
         /\ trapped' /\ ~trapped => ~Screens!Loads(recipe.photo)
<1>1. recipe # NoRecipe /\ recipe.name # {}
  BY FoundHasName
<1>2. UNCHANGED <<snapshot, response>> /\ CallSeen' = CallSeen
  BY DEF vars, result, CallSeen
<1>3. ResponseHasCards'
  BY <1>2 DEF ScreensInv, ResponseHasCards
<1>4. CASE Screens!Trap /\ ~Screens!Loads(recipe.photo)
  <2>1. UNCHANGED screenVars /\ trapped'
    BY <1>4 DEF Screens!Trap, Screens!screens, Screens!look, Screens!book, Screens!path, screenVars
  <2>2. QED
    BY <1>2, <1>3, <1>4, <2>1, QuietKeeps
<1>5. CASE /\ details' = recipe /\ tapped' = recipe
           /\ UNCHANGED <<online, trapped, Screens!look, Screens!book, cells>>
  <2>1. UNCHANGED <<trapped, interactive, recipes, categories, categoryList, highlightRecipe, cells>>
    BY <1>5 DEF Screens!look, Screens!book
  <2>2. (NotLoaded /\ categoryList = << >>) => (NotLoaded /\ categoryList = << >>)'
    BY <1>2, <2>1 DEF NotLoaded, Screens!NoCells
  <2>3. (SetUp /\ categoryList = << >>) => (SetUp /\ categoryList = << >>)'
    BY <1>2, <2>1 DEF SetUp, Screens!SetUpCategories
  <2>4. Offered => Offered'
    BY <1>2, <2>1 DEF Offered, FoundIn, Screens!Recipe
  <2>5. (cells = [k \in 1..Len(Setup) |-> cells[k]] /\ Screens!CellsAreCurrent /\ Screens!DetailsAsTapped)'
    BY <1>1, <1>5, <2>1 DEF ScreensInv, Screens!CellsAreCurrent, Screens!DetailsAsTapped
  <2>6. QED
    BY <1>2, <1>3, <2>1, <2>2, <2>3, <2>4, <2>5 DEF ScreensInv
<1>6. QED
  BY <1>1, <1>4, <1>5 DEF Screens!GoToDetails, Screens!ShowDetails

LEMMA TouchedKeeps ==
  ASSUME ScreensInv, Touched
  PROVE  /\ ScreensInv'
         /\ trapped' /\ ~trapped => ~online \/ \E i \in 1..Len(recipes) : recipes[i].photo \in BadPhotos
<1>1. UNCHANGED vars
  BY DEF Touched
<1>2. ASSUME NEW recipe, Screens!GoToDetails(recipe),
             \E name : name # {} /\ FoundIn(name, recipe, recipes)
      PROVE  /\ ScreensInv'
             /\ trapped' /\ ~trapped => ~online \/ \E i \in 1..Len(recipes) : recipes[i].photo \in BadPhotos
  <2>1. PICK name : name # {} /\ FoundIn(name, recipe, recipes)
    BY <1>2
  <2>2. /\ ScreensInv'
        /\ trapped' /\ ~trapped => ~Screens!Loads(recipe.photo)
    BY <1>1, <1>2, <2>1, TapKeeps
  <2>3. QED
    BY <2>1, <2>2 DEF FoundIn, Screens!Loads
<1>3. CASE Screens!HighlightPressed
  BY <1>2, <1>3, TappedIsFound DEF Screens!HighlightPressed
<1>4. CASE Screens!SelectAnItem
  <2>1. PICK s \in 1..Len(Setup) :
          cells[s] # << >> /\ \E i \in 1..Len(cells[s][1].recipes) : Screens!DidSelectItem(s, i)
    BY <1>4 DEF Screens!SelectAnItem
  <2>2. QED
    BY <1>2, <2>1, TappedIsFound DEF Screens!DidSelectItem
<1>5. CASE Screens!Back
  <2>1. /\ details' = NoRecipe
        /\ UNCHANGED <<trapped, interactive, recipes, categories, categoryList, highlightRecipe, cells, tapped>>
        /\ UNCHANGED <<snapshot, response>> /\ CallSeen' = CallSeen
    BY <1>1, <1>5 DEF Screens!Back, Screens!look, Screens!book, vars, result, CallSeen
  <2>2. (NotLoaded /\ categoryList = << >>) => (NotLoaded /\ categoryList = << >>)'
    BY <2>1 DEF NotLoaded, Screens!NoCells
  <2>3. (SetUp /\ categoryList = << >>) => (SetUp /\ categoryList = << >>)'
    BY <2>1 DEF SetUp, Screens!SetUpCategories
  <2>4. Offered => Offered'
    BY <2>1 DEF Offered, FoundIn, Screens!Recipe
  <2>5. (cells = [k \in 1..Len(Setup) |-> cells[k]] /\ Screens!CellsAreCurrent /\ Screens!DetailsAsTapped)'
    BY <2>1 DEF ScreensInv, Screens!CellsAreCurrent, Screens!DetailsAsTapped
  <2>6. ResponseHasCards'
    BY <2>1 DEF ScreensInv, ResponseHasCards
  <2>7. QED
    BY <2>1, <2>2, <2>3, <2>4, <2>5, <2>6 DEF ScreensInv
<1>6. QED
  BY <1>3, <1>4, <1>5 DEF Touched

LEMMA ScreensStep ==
  ASSUME IInv, ScreensInv, [StartUpNext]_startUpVars
  PROVE  ScreensInv'
<1>1. CASE LoadScreen
  BY <1>1, LoadScreenKeeps
<1>2. CASE Answers \/ Refuses
  <2>1. /\ UNCHANGED <<screenVars, trapped, snapshot, response>> /\ ResponseHasCards'
        /\ CallSeen = "waiting" /\ CallSeen' # "done"
    BY <1>2 DEF Answers, Refuses, Answered, Cancelled, Fetch, result, CallSeen, ScreensInv, ResponseHasCards,
                Screens!Cancelled, Screens!screens, Screens!look, Screens!book, Screens!path, screenVars
  <2>2. QED
    BY <2>1, QuietKeeps
<1>3. CASE Parses
  <2>1. UNCHANGED screenVars /\ ~trapped /\ ResponseHasCards' /\ UNCHANGED snapshot
    BY <1>3, ParserHasCards DEF Parses
  <2>2. fetch = "parsing" /\ fetch' \in {"parsing", "trapped"}
    BY <1>3 DEF Parses, PassOver, BlankOnShape, ReadRecipe, TrapOnIngredients, AtDictionary, AtChild,
                AppendRecipe, Trap, Fetch
  <2>3. QED
    BY <2>1, <2>2, QuietKeeps DEF CallSeen
<1>4. CASE Delivers
  BY <1>4, DeliversKeep
<1>5. CASE DeliveryTraps
  <2>1. /\ UNCHANGED <<screenVars, snapshot, response>> /\ trapped' /\ ResponseHasCards'
        /\ CallSeen = "waiting"
    BY <1>5 DEF DeliveryTraps, Complete, result, CallSeen, ScreensInv, ResponseHasCards,
                Screens!ReceivedTraps, Screens!screens, Screens!look, Screens!book, Screens!path, screenVars
  <2>2. QED
    BY <2>1, QuietKeeps
<1>6. CASE \E s \in 1..Len(Setup) : Fills(s)
  BY <1>6, FillsKeep
<1>7. CASE Touched
  BY <1>7, TouchedKeeps
<1>8. CASE Network \/ UNCHANGED startUpVars
  <2>1. UNCHANGED <<screenVars, trapped, snapshot, response>> /\ ResponseHasCards' /\ CallSeen' = CallSeen
    BY <1>8 DEF Network, startUpVars, vars, result, CallSeen, ScreensInv, ResponseHasCards,
                Screens!NetworkChanges, Screens!screens, Screens!look, Screens!book, Screens!path, screenVars
  <2>2. QED
    BY <2>1, QuietKeeps
<1>9. QED
  BY <1>1, <1>2, <1>3, <1>4, <1>5, <1>6, <1>7, <1>8 DEF StartUpNext

LEMMA ScreensAlways == StartUpSpec => [](IInv /\ ScreensInv)
<1>1. StartUpInit => IInv /\ ScreensInv
  <2>1. ASSUME StartUpInit PROVE ScreensInv
    BY <2>1 DEF StartUpInit, Init, Screens!Init, ScreensInv, ResponseHasCards, NotLoaded, CallSeen,
                Screens!NoCells, Screens!CellsAreCurrent, Screens!DetailsAsTapped
  <2>2. QED
    BY <2>1, SnapshotsAssumption DEF StartUpInit, Init, IInv, OriginSoFar, CompletedOnce
<1>2. IInv /\ ScreensInv /\ [StartUpNext]_startUpVars => (IInv /\ ScreensInv)'
  BY ParserStep, ScreensStep
<1>3. QED
  BY <1>1, <1>2, PTL DEF StartUpSpec

(* What is offered is what was received, and what is opened is what was     *)
(* touched, for every book the database may answer, every set of categories *)
(* and every order of touches, fills and changes of the network             *)
(* (ViewController, ObjectsManager, CategoryCell,                           *)
(* RecipesDetailsViewController).                                           *)
THEOREM CatalogueShowsTheBook == StartUpSpec => []ScreensShowTheBook
<1>1. ScreensInv => Screens!CategoriesHoldTheirElements
  BY SetupLists DEF ScreensInv, NotLoaded, SetUp, Offered, FoundIn, Screens!CategoriesHoldTheirElements
<1>2. ASSUME ScreensInv PROVE Screens!TouchableWhenReady
  <2>1. ASSUME Screens!Touchable PROVE Offered
    BY <1>2, <2>1 DEF ScreensInv, NotLoaded, SetUp, Screens!Touchable
  <2>2. ASSUME Offered
        PROVE  highlightRecipe # NoRecipe /\ Highlight \subseteq highlightRecipe.name
    BY <2>2, CatalogAssumptions DEF Offered, FoundIn, Screens!NoRecipeAssumption
  <2>3. ASSUME Offered, NEW s \in 1..Len(Setup) PROVE categories[s].recipes # << >>
    BY <2>3, SetupLists DEF Offered
  <2>4. QED
    BY <2>1, <2>2, <2>3 DEF Screens!TouchableWhenReady
<1>3. ScreensInv => ScreensShowTheBook
  BY <1>1, <1>2 DEF ScreensInv, ScreensShowTheBook
<1>4. QED
  BY <1>3, ScreensAlways, PTL

(* No tap and no cell unwraps a recipe that is not there: once the book is  *)
(* received, refused or given up, only a photo that does not load ends the  *)
(* app.                                                                     *)
THEOREM CatalogueOnlyPhotosTrap == StartUpSpec => OnlyPhotosTrap
<1>. DEFINE PhotoLost == ~online \/ \E i \in 1..Len(recipes) : recipes[i].photo \in BadPhotos
<1>1. ASSUME IInv, ScreensInv, [StartUpNext]_startUpVars, trapped', CallSeen # "waiting"
      PROVE  PhotoLost \/ UNCHANGED Screens!vars
  <2>1. CASE LoadScreen
    BY <1>1, <2>1 DEF LoadScreen, Screens!ViewDidLoad, Screens!StartUp
  <2>2. CASE Answers \/ Refuses \/ Parses \/ Delivers \/ DeliveryTraps
    <3>1. CallSeen = "waiting"
      BY <2>2 DEF Answers, Answered, Refuses, Cancelled, Parses, PassOver, BlankOnShape, ReadRecipe,
                  TrapOnIngredients, AtDictionary, AtChild, Fetch, Delivers, DeliveryTraps, Complete, CallSeen
    <3>2. QED
      BY <1>1, <3>1
  <2>3. CASE \E s \in 1..Len(Setup) : Fills(s)
    <3>1. PICK s \in 1..Len(Setup) : Fills(s)
      BY <2>3
    <3>2. ~trapped /\ s \in 1..Len(categories)
          /\ \E i \in 1..Len(categories[s].recipes) : ~Screens!Loads(categories[s].recipes[i].photo)
      BY <1>1, <3>1 DEF Fills, Screens!FillCell
    <3>3. Offered
      BY <1>1, <3>2, SetupLists DEF ScreensInv, NotLoaded, SetUp, Screens!SetUpCategories
    <3>4. PICK i \in 1..Len(categories[s].recipes) : ~Screens!Loads(categories[s].recipes[i].photo)
      BY <3>2
    <3>5. \E k \in 1..Len(recipes) : recipes[k] = categories[s].recipes[i]
      BY <3>3, <3>4 DEF Offered, FoundIn
    <3>6. QED
      BY <3>4, <3>5 DEF Screens!Loads
  <2>4. CASE Touched
    BY <1>1, <2>4, TouchedKeeps
    DEF Touched, Screens!HighlightPressed, Screens!SelectAnItem, Screens!DidSelectItem, Screens!Back, Screens!Touchable
  <2>5. CASE Network
    BY <1>1, <2>5 DEF Network, Screens!NetworkChanges
  <2>6. CASE UNCHANGED startUpVars
    BY <2>6 DEF startUpVars, screenVars, vars, CallSeen, Screens!vars, Screens!screens, Screens!look, Screens!book,
                Screens!path
  <2>7. QED
    BY <1>1, <2>1, <2>2, <2>3, <2>4, <2>5, <2>6 DEF StartUpNext
<1>2. IInv /\ ScreensInv /\ [StartUpNext]_startUpVars =>
        [trapped' /\ CallSeen # "waiting" => PhotoLost]_(Screens!vars)
  BY <1>1
<1>3. QED
  BY <1>2, ScreensAlways, PTL DEF StartUpSpec, OnlyPhotosTrap, Screens!OnlyPhotosTrap

-----------------------------------------------------------------------------
(* The keys of a dictionary in the order of the strings: a total order,     *)
(* although the numbers of the keys are compared digit by digit.            *)
Powers(p, n) ==
  /\ DOMAIN p = 0..n
  /\ \A i \in 0..n : p[i] = IF i = 0 THEN 1 ELSE 10 * p[i - 1]
  /\ \A i \in 0..n : p[i] \in Nat /\ p[i] > i

LEMMA PowersExist ==
  ASSUME NEW n \in Nat
  PROVE  \E p : Powers(p, n)
<1> DEFINE open == {k \in Nat : ~\E p : Powers(p, k)}
<1>1. SUFFICES ASSUME open # {} PROVE FALSE
  OBVIOUS
<1>2. PICK m \in open : \A k \in open : m <= k
  <2>1. open \subseteq Nat
    OBVIOUS
  <2> HIDE DEF open
  <2>2. QED
    BY <1>1, <2>1, LeastNumber
<1>3. m \in Nat /\ ~\E p : Powers(p, m)
  BY <1>2
<1>4. CASE m = 0
  <2>1. Powers([i \in 0..0 |-> 1], 0)
    BY DEF Powers
  <2>2. QED
    BY <1>3, <1>4, <2>1
<1>5. CASE m # 0
  <2>1. m - 1 \in Nat /\ m - 1 \notin open /\ m - 1 < m
    BY <1>2, <1>3, <1>5
  <2>2. PICK p : Powers(p, m - 1)
    BY <2>1
  <2> DEFINE q == [i \in 0..m |-> IF i = m THEN 10 * p[m - 1] ELSE p[i]]
  <2>3. p[m - 1] \in Nat /\ p[m - 1] > m - 1
    BY <2>1, <2>2 DEF Powers
  <2>4. 10 * p[m - 1] \in Nat /\ 10 * p[m - 1] > m
    <3>1. \A i, k \in Nat : i > k - 1 => 10 * i \in Nat /\ (k # 0 => 10 * i > k)
      OBVIOUS
    <3>2. QED
      BY <1>3, <1>5, <2>3, <3>1
  <2>5. /\ DOMAIN q = 0..m /\ q[m] = 10 * p[m - 1]
        /\ \A i \in 0..(m - 1) : q[i] = p[i]
    BY <1>3, <1>5
  <2> HIDE DEF q, open
  <2>6. ASSUME NEW i \in 0..m
        PROVE  q[i] = (IF i = 0 THEN 1 ELSE 10 * q[i - 1]) /\ q[i] \in Nat /\ q[i] > i
    <3>1. CASE i = m
      <4>1. m - 1 \in 0..(m - 1)
        BY <1>3, <1>5
      <4>2. q[m - 1] = p[m - 1]
        BY <2>5, <4>1
      <4>3. QED
        BY <1>5, <2>4, <2>5, <3>1, <4>2
    <3>2. CASE i # m
      <4>1. i \in 0..(m - 1) /\ (i # 0 => i - 1 \in 0..(m - 1))
        BY <1>3, <3>2
      <4>2. q[i] = p[i] /\ (i # 0 => q[i - 1] = p[i - 1])
        BY <2>5, <4>1
      <4>3. p[i] = (IF i = 0 THEN 1 ELSE 10 * p[i - 1]) /\ p[i] \in Nat /\ p[i] > i
        BY <2>2, <4>1 DEF Powers
      <4>4. QED
        BY <4>2, <4>3
    <3>3. QED
      BY <3>1, <3>2
  <2>7. Powers(q, m)
    BY <2>5, <2>6 DEF Powers
  <2>8. QED
    BY <1>3, <2>7
<1>6. QED
  BY <1>4, <1>5

LEMMA TenToIsBig ==
  ASSUME NEW n \in Nat
  PROVE  TenTo(n) \in Nat /\ TenTo(n) > n
<1> DEFINE IsPower(p) == p = [i \in 0..n |-> IF i = 0 THEN 1 ELSE 10 * p[i - 1]]
           power == CHOOSE p : IsPower(p)
<1>1. PICK p : Powers(p, n)
  BY PowersExist
<1>2. \E q : IsPower(q)
  <2>1. IsPower([i \in 0..n |-> p[i]])
    BY <1>1 DEF Powers
  <2>2. QED
    BY <2>1
<1>3. IsPower(power)
  BY <1>2
<1>4. TenTo(n) = power[n]
  BY DEF TenTo
<1> HIDE DEF power
<1>5. \A i \in 0..n : power[i] = p[i]
  <2> DEFINE open == {i \in 0..n : power[i] # p[i]}
  <2>1. SUFFICES ASSUME open # {} PROVE FALSE
    OBVIOUS
  <2>2. PICK m \in open : \A i \in open : m <= i
    <3>1. open \subseteq Nat
      OBVIOUS
    <3> HIDE DEF open
    <3>2. QED
      BY <2>1, <3>1, LeastNumber
  <2>3. CASE m = 0
    BY <1>1, <1>3, <2>2, <2>3 DEF Powers
  <2>4. CASE m # 0
    <3>1. m - 1 \in 0..n /\ m \in 0..n /\ m - 1 \notin open
      BY <2>2, <2>4
    <3>2. power[m] = 10 * power[m - 1] /\ p[m] = 10 * p[m - 1]
      BY <1>1, <1>3, <2>4, <3>1 DEF Powers
    <3>3. QED
      BY <2>2, <3>1, <3>2
  <2>5. QED
    BY <2>3, <2>4
<1>6. n \in 0..n
  OBVIOUS
<1>7. QED
  BY <1>1, <1>4, <1>5, <1>6 DEF Powers

LEMMA DigitsAreCounted ==
  ASSUME NEW n \in Nat
  PROVE  NumDigits(n) \in Nat \ {0} /\ TenTo(NumDigits(n)) \in Nat \ {0}
<1> DEFINE wide == {d \in Nat \ {0} : n < TenTo(d)}
<1>1. PICK d \in wide : \A e \in wide : d <= e
  <2>1. n + 1 \in Nat \ {0} /\ TenTo(n + 1) \in Nat /\ TenTo(n + 1) > n + 1
    BY TenToIsBig
  <2>2. n < TenTo(n + 1)
    BY <2>1
  <2>3. wide \subseteq Nat /\ wide # {}
    BY <2>1, <2>2
  <2> HIDE DEF wide
  <2>4. QED
    BY <2>3, LeastNumber
<1>2. d \in 1..(n + 1)
  <2>1. n + 1 \in wide
    <3>1. n + 1 \in Nat \ {0} /\ TenTo(n + 1) \in Nat /\ TenTo(n + 1) > n + 1
      BY TenToIsBig
    <3>2. QED
      BY <3>1
  <2>2. d <= n + 1 /\ d \in Nat \ {0}
    BY <1>1, <2>1
  <2>3. QED
    BY <2>2
<1>3. d = 1 \/ TenTo(d - 1) <= n
  <2>1. SUFFICES ASSUME d # 1 PROVE TenTo(d - 1) <= n
    OBVIOUS
  <2>2. d - 1 \in Nat \ {0} /\ d - 1 \notin wide /\ TenTo(d - 1) \in Nat
    <3>1. d - 1 \in Nat \ {0} /\ ~(d <= d - 1)
      BY <1>2, <2>1
    <3>2. QED
      BY <1>1, <3>1, TenToIsBig
  <2>3. QED
    BY <2>2
<1>4. n < TenTo(d)
  BY <1>1
<1>5. NumDigits(n) \in 1..(n + 1)
  <2> HIDE DEF wide
  <2>1. QED
    BY <1>2, <1>3, <1>4 DEF NumDigits
<1>6. TenTo(NumDigits(n)) \in Nat /\ TenTo(NumDigits(n)) > NumDigits(n) /\ NumDigits(n) \in Nat \ {0}
  BY <1>5, TenToIsBig
<1>7. QED
  BY <1>6

LEMMA TimesKeepsOrder ==
  ASSUME NEW x \in Nat, NEW y \in Nat, NEW p \in Nat \ {0}
  PROVE  /\ x < y <=> x * p < y * p
         /\ x <= y <=> x * p <= y * p
         /\ x * p = y * p => x = y
<1>1. x < y => x * p < y * p
  OBVIOUS
<1>2. y < x => y * p < x * p
  OBVIOUS
<1>3. x * p \in Nat /\ y * p \in Nat
  OBVIOUS
<1>4. QED
  BY <1>1, <1>2, <1>3

LEMMA FractionsAreOrdered ==
  ASSUME NEW x \in Nat, NEW y \in Nat, NEW z \in Nat, NEW p \in Nat \ {0}, NEW q \in Nat \ {0}, NEW r \in Nat \ {0},
         x * q <= y * p, y * r <= z * q
  PROVE  x * r <= z * p /\ (x * q < y * p \/ y * r < z * q => x * r < z * p)
<1> DEFINE a == x * q
           b == y * p
           c == y * r
           d == z * q
           e == x * r
           f == z * p
<1>1. a \in Nat /\ b \in Nat /\ c \in Nat /\ d \in Nat /\ e \in Nat /\ f \in Nat
  OBVIOUS
<1>2. a * r = e * q /\ b * r = c * p /\ d * p = f * q
  BY Z3
<1>3. a <= b /\ c <= d
  OBVIOUS
<1> HIDE DEF a, b, c, d, e, f
<1>4. a * r <= b * r /\ c * p <= d * p /\ (a < b => a * r < b * r) /\ (c < d => c * p < d * p)
  BY <1>1, <1>3, TimesKeepsOrder
<1>5. e * q \in Nat /\ c * p \in Nat /\ f * q \in Nat
  BY <1>1
<1>6. e * q <= f * q /\ (a < b \/ c < d => e * q < f * q)
  BY <1>2, <1>4, <1>5
<1>7. e <= f /\ (a < b \/ c < d => e < f)
  BY <1>1, <1>6, TimesKeepsOrder
<1>8. QED
  BY <1>7 DEF a, b, c, d, e, f

LEMMA KeysAreOrdered ==
  /\ \A a \in Nat : ~KeyLess(a, a)
  /\ \A a, b, c \in Nat : KeyLess(a, b) /\ KeyLess(b, c) => KeyLess(a, c)
  /\ \A a, b \in Nat : a = b \/ KeyLess(a, b) \/ KeyLess(b, a)
<1> DEFINE D(n) == NumDigits(n)
           P(n) == TenTo(NumDigits(n))
<1>1. \A n \in Nat : D(n) \in Nat /\ P(n) \in Nat \ {0}
  BY DigitsAreCounted
<1>2. \A a, b \in Nat : KeyLess(a, b) <=> a * P(b) < b * P(a) \/ (a * P(b) = b * P(a) /\ D(a) < D(b))
  BY DEF KeyLess
<1>3. \A a, b \in Nat : D(a) = D(b) => P(a) = P(b)
  OBVIOUS
<1> HIDE DEF D, P
<1>4. ASSUME NEW a \in Nat PROVE ~KeyLess(a, a)
  <2>1. a * P(a) \in Nat /\ D(a) \in Nat
    BY <1>1
  <2>2. QED
    BY <1>2, <2>1
<1>5. ASSUME NEW a \in Nat, NEW b \in Nat, NEW c \in Nat, KeyLess(a, b), KeyLess(b, c)
      PROVE  KeyLess(a, c)
  <2>1. /\ P(a) \in Nat \ {0} /\ P(b) \in Nat \ {0} /\ P(c) \in Nat \ {0} /\ D(a) \in Nat /\ D(b) \in Nat /\ D(c) \in Nat
    BY <1>1
  <2>2. a * P(b) \in Nat /\ b * P(a) \in Nat /\ b * P(c) \in Nat /\ c * P(b) \in Nat /\ a * P(c) \in Nat /\ c * P(a) \in Nat
    BY <2>1
  <2>3. a * P(b) <= b * P(a) /\ b * P(c) <= c * P(b)
    BY <1>2, <1>5, <2>2
  <2>4. /\ a * P(c) <= c * P(a)
        /\ a * P(b) < b * P(a) \/ b * P(c) < c * P(b) => a * P(c) < c * P(a)
    BY <2>1, <2>3, FractionsAreOrdered
  <2>5. CASE a * P(b) < b * P(a) \/ b * P(c) < c * P(b)
    BY <1>2, <2>4, <2>5
  <2>6. CASE ~(a * P(b) < b * P(a) \/ b * P(c) < c * P(b))
    <3>1. D(a) < D(b) /\ D(b) < D(c)
      BY <1>2, <1>5, <2>6
    <3>2. D(a) < D(c)
      BY <2>1, <3>1
    <3>3. a * P(c) < c * P(a) \/ a * P(c) = c * P(a)
      BY <2>2, <2>4
    <3>4. QED
      BY <1>2, <3>2, <3>3
  <2>7. QED
    BY <2>5, <2>6
<1>6. ASSUME NEW a \in Nat, NEW b \in Nat, ~KeyLess(a, b), ~KeyLess(b, a)
      PROVE  a = b
  <2>1. P(a) \in Nat \ {0} /\ P(b) \in Nat \ {0} /\ D(a) \in Nat /\ D(b) \in Nat
    BY <1>1
  <2>2. a * P(b) \in Nat /\ b * P(a) \in Nat
    BY <2>1
  <2>3. a * P(b) = b * P(a)
    BY <1>2, <1>6, <2>2
  <2>4. D(a) = D(b)
    <3>1. ~(D(a) < D(b)) /\ ~(D(b) < D(a))
      BY <1>2, <1>6, <2>3
    <3>2. QED
      BY <2>1, <3>1
  <2>5. a * P(a) = b * P(a)
    BY <1>3, <2>3, <2>4
  <2>6. QED
    BY <2>1, <2>5, TimesKeepsOrder
<1>7. QED
  BY <1>4, <1>5, <1>6

-----------------------------------------------------------------------------
(* A finite set of keys can be listed in its order: what sorted(by:) finds. *)
LEMMA LastKey ==
  ASSUME NEW T, T \subseteq Nat, IsFiniteSet(T), T # {}
  PROVE  \E n \in T : \A m \in T : m = n \/ KeyLess(m, n)
<1> DEFINE After(n) == {m \in T : KeyLess(n, m)}
           ranks == {Cardinality(After(n)) : n \in T}
<1>1. ASSUME NEW n \in T PROVE After(n) \in SUBSET T /\ IsFiniteSet(After(n)) /\ Cardinality(After(n)) \in Nat
  <2>1. After(n) \in SUBSET T
    OBVIOUS
  <2> HIDE DEF After
  <2>2. IsFiniteSet(After(n))
    BY <2>1, FS_Subset
  <2>3. QED
    BY <2>1, <2>2, FS_CardinalityType
<1>2. PICK n \in T : \A m \in T : Cardinality(After(n)) <= Cardinality(After(m))
  <2> HIDE DEF After
  <2>1. ranks \subseteq Nat /\ ranks # {}
    BY <1>1
  <2>2. PICK least \in ranks : \A k \in ranks : least <= k
    <3> HIDE DEF ranks
    <3>1. QED
      BY <2>1, LeastNumber
  <2>3. QED
    BY <2>2
<1>3. ASSUME NEW m \in T PROVE m = n \/ KeyLess(m, n)
  <2>1. SUFFICES ASSUME KeyLess(n, m) PROVE FALSE
    BY KeysAreOrdered
  <2>2. After(m) \in SUBSET After(n) /\ m \in After(n) /\ m \notin After(m)
    BY <2>1, KeysAreOrdered
  <2> HIDE DEF After
  <2>3. /\ Cardinality(After(m)) <= Cardinality(After(n))
        /\ Cardinality(After(n)) = Cardinality(After(m)) => After(n) = After(m)
    BY <1>1, <2>2, FS_Subset
  <2>4. Cardinality(After(n)) = Cardinality(After(m))
    BY <1>1, <1>2, <2>3
  <2>5. QED
    BY <2>2, <2>3, <2>4
<1>4. QED
  BY <1>3

Lists(order, K, n) ==
  /\ order \in [1..n -> K]
  /\ \A i, j \in 1..n : order[i] = order[j] => i = j
  /\ \A i, j \in 1..n : i < j => KeyLess(order[i], order[j])

LEMMA OneMoreKey ==
  ASSUME NEW K, NEW m \in K, NEW n \in Nat, NEW order, Lists(order, K \ {m}, n), \A k \in K : k = m \/ KeyLess(k, m)
  PROVE  \E longer : Lists(longer, K, n + 1)
<1> DEFINE longer == [i \in 1..(n + 1) |-> IF i = n + 1 THEN m ELSE order[i]]
<1>1. \A i \in 1..n : order[i] \in K /\ order[i] # m /\ KeyLess(order[i], m)
  BY DEF Lists
<1>2. \A i \in 1..(n + 1) : i = n + 1 \/ i \in 1..n
  OBVIOUS
<1>3. DOMAIN longer = 1..(n + 1) /\ longer[n + 1] = m /\ \A i \in 1..n : longer[i] = order[i]
  <2>1. n + 1 \in 1..(n + 1) /\ \A i \in 1..n : i \in 1..(n + 1) /\ i # n + 1
    OBVIOUS
  <2>2. QED
    BY <2>1
<1>4. longer \in [1..(n + 1) -> K]
  BY <1>1, <1>2
<1> HIDE DEF longer
<1>5. ASSUME NEW i \in 1..(n + 1), NEW j \in 1..(n + 1)
      PROVE  (longer[i] = longer[j] => i = j) /\ (i < j => KeyLess(longer[i], longer[j]))
  <2>1. CASE i \in 1..n /\ j \in 1..n
    BY <1>3, <2>1 DEF Lists
  <2>2. CASE i = n + 1
    <3>1. ~(i < j)
      BY <2>2
    <3>2. QED
      BY <1>1, <1>2, <1>3, <2>2, <3>1
  <2>3. CASE i \in 1..n /\ j = n + 1
    BY <1>1, <1>3, <2>3
  <2>4. QED
    BY <1>2, <2>1, <2>2, <2>3
<1>6. QED
  BY <1>4, <1>5 DEF Lists

LEMMA KeysAreListed ==
  ASSUME NEW K, K \subseteq Nat, IsFiniteSet(K)
  PROVE  \E order : Lists(order, K, Cardinality(K))
<1> DEFINE open == {T \in SUBSET K : ~\E order : Lists(order, T, Cardinality(T))}
           sizes == {Cardinality(T) : T \in open}
<1>1. SUFFICES ASSUME open # {} PROVE FALSE
  OBVIOUS
<1>2. \A T \in SUBSET K : IsFiniteSet(T) /\ Cardinality(T) \in Nat
  BY FS_Subset, FS_CardinalityType
<1>3. PICK S \in open : \A T \in open : Cardinality(S) <= Cardinality(T)
  <2>1. sizes \subseteq Nat /\ sizes # {}
    BY <1>1, <1>2
  <2>2. PICK least \in sizes : \A k \in sizes : least <= k
    <3> HIDE DEF sizes
    <3>1. QED
      BY <2>1, LeastNumber
  <2>3. QED
    BY <2>2
<1>4. S \in SUBSET K /\ IsFiniteSet(S) /\ Cardinality(S) \in Nat /\ ~\E order : Lists(order, S, Cardinality(S))
  BY <1>2, <1>3
<1>5. S # {}
  <2>1. SUFFICES ASSUME S = {} PROVE FALSE
    OBVIOUS
  <2>2. Cardinality(S) = 0
    BY <2>1, FS_EmptySet
  <2>3. Lists([i \in 1..0 |-> i], S, 0)
    BY DEF Lists
  <2>4. QED
    BY <1>4, <2>2, <2>3
<1>6. PICK m \in S : \A k \in S : k = m \/ KeyLess(k, m)
  BY <1>4, <1>5, LastKey
<1>7. S \ {m} \in SUBSET K /\ Cardinality(S \ {m}) = Cardinality(S) - 1
  BY <1>4, FS_RemoveElement
<1>8. S \ {m} \notin open /\ Cardinality(S \ {m}) \in Nat
  <2>1. Cardinality(S \ {m}) \in Nat
    BY <1>2, <1>7
  <2>2. ~(Cardinality(S) <= Cardinality(S \ {m}))
    BY <1>4, <1>7, <2>1
  <2>3. QED
    BY <1>3, <2>1, <2>2
<1>9. PICK order : Lists(order, S \ {m}, Cardinality(S \ {m}))
  BY <1>7, <1>8
<1>10. \E longer : Lists(longer, S, Cardinality(S \ {m}) + 1)
  BY <1>6, <1>8, <1>9, OneMoreKey
<1>11. Cardinality(S \ {m}) + 1 = Cardinality(S)
  BY <1>4, <1>7
<1>12. QED
  BY <1>4, <1>10, <1>11

LEMMA SortedIsListed ==
  ASSUME NEW dictionary, DOMAIN dictionary \subseteq Nat, IsFiniteSet(DOMAIN dictionary)
  PROVE  Lists(SortedKeys(dictionary), DOMAIN dictionary, Cardinality(DOMAIN dictionary))
<1> DEFINE K == DOMAIN dictionary
           n == Cardinality(K)
           orders == {order \in [1..n -> K] : \A i, j \in DOMAIN order : order[i] = order[j] => i = j}
           sorted(order) == \A i, j \in DOMAIN order : i < j => KeyLess(order[i], order[j])
<1>1. PICK order : Lists(order, K, n)
  BY KeysAreListed
<1>2. order \in orders /\ sorted(order)
  BY <1>1 DEF Lists
<1>3. SortedKeys(dictionary) = CHOOSE o \in orders : sorted(o)
  BY Zenon DEF SortedKeys, AnyOrder
<1>4. SortedKeys(dictionary) \in orders /\ sorted(SortedKeys(dictionary))
  <2> HIDE DEF orders, sorted
  <2>1. QED
    BY <1>2, <1>3
<1>5. QED
  BY <1>4 DEF Lists

(* An image has as many elements.                                           *)
LEMMA ImageCounts ==
  ASSUME NEW A, IsFiniteSet(A), NEW f, \A i, j \in A : f[i] = f[j] => i = j
  PROVE  Cardinality({f[i] : i \in A}) = Cardinality(A) /\ IsFiniteSet({f[i] : i \in A})
<1> DEFINE B == {f[i] : i \in A}
           g == [i \in A |-> f[i]]
<1>1. g \in [A -> B] /\ \A i \in A : g[i] = f[i]
  OBVIOUS
<1>2. \A b \in B : \E i \in A : g[i] = b
  OBVIOUS
<1>3. \A i, j \in A : g[i] = g[j] => i = j
  OBVIOUS
<1> HIDE DEF g, B
<1>4. g \in Bijection(A, B)
  BY <1>1, <1>2, <1>3 DEF Bijection, Injection, Surjection, IsInjective
<1>5. ExistsBijection(A, B)
  BY <1>4 DEF ExistsBijection
<1>6. QED
  BY <1>5, FS_Bijection DEF B

(* As many different elements of a finite set as it has are all of them.    *)
LEMMA FullImage ==
  ASSUME NEW K, IsFiniteSet(K), NEW A, IsFiniteSet(A), Cardinality(A) = Cardinality(K), NEW f,
         \A i \in A : f[i] \in K, \A i, j \in A : f[i] = f[j] => i = j
  PROVE  {f[i] : i \in A} = K
<1>1. Cardinality({f[i] : i \in A}) = Cardinality(A)
  BY ImageCounts
<1> DEFINE B == {f[i] : i \in A}
<1>2. B \in SUBSET K /\ Cardinality(B) = Cardinality(K)
  BY <1>1
<1> HIDE DEF B
<1>3. B = K
  BY <1>2, FS_Subset
<1>4. QED
  BY <1>3 DEF B

(* So an order of the keys has each of them.                                *)
LEMMA OrderHasAll ==
  ASSUME NEW K, IsFiniteSet(K), NEW order, \A i \in 1..Cardinality(K) : order[i] \in K,
         \A i, j \in 1..Cardinality(K) : order[i] = order[j] => i = j
  PROVE  \A key \in K : \E i \in 1..Cardinality(K) : order[i] = key
<1>1. Cardinality(K) \in Nat
  BY FS_CardinalityType
<1>2. IsFiniteSet(1..Cardinality(K)) /\ Cardinality(1..Cardinality(K)) = Cardinality(K)
  <2>1. IsFiniteSet(1..Cardinality(K)) /\ Cardinality(1..Cardinality(K)) = IF 1 > Cardinality(K) THEN 0 ELSE Cardinality(K) - 1 + 1
    BY <1>1, FS_Interval
  <2>2. QED
    BY <1>1, <2>1
<1> DEFINE A == 1..Cardinality(K)
<1>3. \A i \in A : order[i] \in K
  OBVIOUS
<1>4. IsFiniteSet(A) /\ Cardinality(A) = Cardinality(K) /\ \A i, j \in A : order[i] = order[j] => i = j
  BY <1>2
<1> HIDE DEF A
<1>5. {order[i] : i \in A} = K
  BY <1>3, <1>4, FullImage
<1>6. QED
  BY <1>5 DEF A


-----------------------------------------------------------------------------
(* The loops of parseRecipe.                                                *)
LEMMA LengthOf ==
  ASSUME NEW n \in Nat, NEW S, NEW list \in [1..n -> S]
  PROVE  Len(list) = n /\ SubSeq(list, 1, n) = list
OBVIOUS

(* The ingredients, in any order of their dictionary, are all of them.      *)
LEMMA AllIngredients ==
  ASSUME NEW dictionary, IsFiniteSet(DOMAIN dictionary), NEW order \in AnyOrder(dictionary)
  PROVE  SameIngredients([i \in DOMAIN order |-> dictionary[order[i]]], dictionary)
<1> DEFINE K == DOMAIN dictionary
           list == [i \in DOMAIN order |-> dictionary[order[i]]]
<1>1. /\ order \in [1..Cardinality(K) -> K] /\ DOMAIN order = 1..Cardinality(K)
      /\ \A i, j \in 1..Cardinality(K) : order[i] = order[j] => i = j
  BY DEF AnyOrder
<1>2. \A key \in K : \E i \in 1..Cardinality(K) : order[i] = key
  <2> HIDE DEF K
  <2>1. IsFiniteSet(K)
    BY DEF K
  <2>2. /\ \A i \in 1..Cardinality(K) : order[i] \in K
        /\ \A i, j \in 1..Cardinality(K) : order[i] = order[j] => i = j
    BY <1>1
  <2>3. QED
    BY <2>1, <2>2, OrderHasAll
<1>3. DOMAIN list = 1..Cardinality(K) /\ \A i \in 1..Cardinality(K) : list[i] = dictionary[order[i]]
  BY <1>1
<1>4. IsFiniteSet(1..Cardinality(K))
  <2>1. Cardinality(K) \in Nat
    BY FS_CardinalityType
  <2>2. QED
    BY <2>1, FS_Interval
<1> HIDE DEF K, list
<1>5. ASSUME NEW text \in Texts
      PROVE  Cardinality({i \in DOMAIN list : list[i] = text}) = Cardinality({key \in K : dictionary[key] = text})
  <2> DEFINE A == {i \in DOMAIN list : list[i] = text}
  <2>1. IsFiniteSet(A) /\ \A i, j \in A : order[i] = order[j] => i = j
    <3>1. A \in SUBSET (1..Cardinality(K))
      BY <1>3
    <3>2. QED
      BY <1>1, <1>4, <3>1, FS_Subset
  <2>2. {order[i] : i \in A} = {key \in K : dictionary[key] = text}
    BY <1>1, <1>2, <1>3
  <2> HIDE DEF A
  <2>3. Cardinality({order[i] : i \in A}) = Cardinality(A)
    BY <2>1, ImageCounts
  <2>4. QED
    BY <2>2, <2>3 DEF A
<1>6. QED
  BY <1>5 DEF SameIngredients, list, K

(* With every entry a dictionary, the loop over the steps goes through all. *)
LEMMA AllKeysAreRead ==
  ASSUME NEW dictionary, DOMAIN dictionary \subseteq Nat, IsFiniteSet(DOMAIN dictionary),
         \A key \in DOMAIN dictionary : dictionary[key] # Other
  PROVE  Lists(KeysRead(dictionary), DOMAIN dictionary, Cardinality(DOMAIN dictionary))
<1> DEFINE K == DOMAIN dictionary
           N == Cardinality(K)
           order == SortedKeys(dictionary)
           reads(n) == \A i \in 1..n : dictionary[order[i]] # Other
           last == CHOOSE n \in 0..Len(order) : reads(n) /\ (n = Len(order) \/ ~reads(n + 1))
<1>1. Lists(order, K, N)
  BY SortedIsListed
<1>2. N \in Nat
  BY FS_CardinalityType
<1>3. KeysRead(dictionary) = SubSeq(order, 1, last)
  BY DEF KeysRead
<1> HIDE DEF N, order
<1>4. order \in [1..N -> K]
  BY <1>1 DEF Lists
<1>5. Len(order) = N /\ SubSeq(order, 1, N) = order
  BY <1>2, <1>4, LengthOf
<1>6. ASSUME NEW n \in 0..N PROVE reads(n)
  <2>1. \A i \in 1..n : i \in 1..N
    BY <1>2, <1>6
  <2>2. \A i \in 1..n : order[i] \in K
    BY <1>4, <2>1
  <2>3. QED
    BY <2>2
<1>7. last \in 0..N /\ (last = N \/ ~reads(last + 1))
  <2>1. N \in 0..Len(order) /\ reads(N) /\ N = Len(order)
    BY <1>2, <1>5, <1>6
  <2> HIDE DEF reads
  <2>2. QED
    BY <1>5, <2>1
<1> HIDE DEF last
<1>8. last = N
  <2>1. SUFFICES ASSUME last # N PROVE FALSE
    OBVIOUS
  <2>2. last + 1 \in 0..N
    BY <1>2, <1>7, <2>1
  <2>3. QED
    BY <1>6, <1>7, <2>1, <2>2
<1>9. QED
  BY <1>1, <1>3, <1>5, <1>8 DEF N

(* The steps the loop has kept after some of its keys.                      *)
KeptOf(dictionary, keys, i) == {j \in 1..i : dictionary[keys[j]].text # Other}

LEMMA KeptAreCounted ==
  ASSUME NEW dictionary, NEW keys, NEW i \in Nat
  PROVE  /\ IsFiniteSet(KeptOf(dictionary, keys, i)) /\ Cardinality(KeptOf(dictionary, keys, i)) \in Nat
         /\ i = 0 => Cardinality(KeptOf(dictionary, keys, i)) = 0
         /\ \A j \in KeptOf(dictionary, keys, i) :
              /\ j \in KeptOf(dictionary, keys, j)
              /\ Cardinality(KeptOf(dictionary, keys, j)) \in 1..Cardinality(KeptOf(dictionary, keys, i))
<1> DEFINE Kept(k) == KeptOf(dictionary, keys, k)
<1>1. ASSUME NEW k \in Nat PROVE IsFiniteSet(Kept(k)) /\ Cardinality(Kept(k)) \in Nat
  <2>1. Kept(k) \in SUBSET (1..k) /\ IsFiniteSet(1..k)
    BY FS_Interval DEF KeptOf
  <2>2. QED
    BY <2>1, FS_Subset, FS_CardinalityType
<1>2. i = 0 => Cardinality(Kept(i)) = 0
  <2>1. i = 0 => Kept(i) = {}
    BY DEF KeptOf
  <2>2. QED
    BY <2>1, FS_EmptySet
<1>3. ASSUME NEW j \in Kept(i)
      PROVE  j \in Kept(j) /\ Cardinality(Kept(j)) \in 1..Cardinality(Kept(i))
  <2>1. j \in 1..i /\ j \in Nat
    BY DEF KeptOf
  <2>2. j \in Kept(j) /\ Kept(j) \in SUBSET Kept(i)
    BY <2>1 DEF KeptOf
  <2>3. IsFiniteSet(Kept(j)) /\ Cardinality(Kept(j)) \in Nat
    BY <1>1, <2>1
  <2>4. Cardinality(Kept(j)) # 0
    BY <2>2, <2>3, FS_EmptySet
  <2>5. Cardinality(Kept(j)) <= Cardinality(Kept(i))
    BY <1>1, <2>2, FS_Subset
  <2> HIDE DEF Kept
  <2>6. QED
    BY <1>1, <2>2, <2>3, <2>4, <2>5
<1>4. QED
  BY <1>1, <1>2, <1>3

LEMMA OneMoreIsKept ==
  ASSUME NEW dictionary, NEW keys, NEW i \in Nat \ {0}
  PROVE  IF dictionary[keys[i]].text # Other
           THEN /\ KeptOf(dictionary, keys, i) = KeptOf(dictionary, keys, i - 1) \union {i}
                /\ i \notin KeptOf(dictionary, keys, i - 1)
                /\ Cardinality(KeptOf(dictionary, keys, i)) = Cardinality(KeptOf(dictionary, keys, i - 1)) + 1
           ELSE KeptOf(dictionary, keys, i) = KeptOf(dictionary, keys, i - 1)
<1>1. 1..i = (1..(i - 1)) \union {i} /\ i \notin 1..(i - 1) /\ i - 1 \in Nat
  OBVIOUS
<1>2. CASE dictionary[keys[i]].text # Other
  <2>1. KeptOf(dictionary, keys, i) = KeptOf(dictionary, keys, i - 1) \union {i} /\ i \notin KeptOf(dictionary, keys, i - 1)
    BY <1>1, <1>2 DEF KeptOf
  <2>2. IsFiniteSet(KeptOf(dictionary, keys, i - 1))
    BY <1>1, KeptAreCounted
  <2>3. QED
    BY <1>2, <2>1, <2>2, FS_AddElement
<1>3. CASE ~(dictionary[keys[i]].text # Other)
  BY <1>1, <1>3 DEF KeptOf
<1>4. QED
  BY <1>2, <1>3

(* What the loop has appended after some of its keys.                       *)
Holds(list, dictionary, keys, i, S) ==
  /\ list \in Seq(S)
  /\ Len(list) = Cardinality(KeptOf(dictionary, keys, i))
  /\ \A j \in KeptOf(dictionary, keys, i) : list[Cardinality(KeptOf(dictionary, keys, j))] = dictionary[keys[j]]

NextRead(before, dictionary, key) ==
  IF dictionary[key].text # Other THEN Append(before, dictionary[key]) ELSE before

LEMMA NextHolds ==
  ASSUME NEW dictionary, NEW keys, NEW i \in Nat \ {0}, NEW S, dictionary[keys[i]] \in S,
         NEW before, Holds(before, dictionary, keys, i - 1, S)
  PROVE  Holds(NextRead(before, dictionary, keys[i]), dictionary, keys, i, S)
<1>1. CASE dictionary[keys[i]].text # Other
  <2> DEFINE step == dictionary[keys[i]]
             after == Append(before, step)
             Kept(k) == KeptOf(dictionary, keys, k)
             size == Cardinality(Kept(i - 1))
  <2>1. i - 1 \in Nat
    OBVIOUS
  <2>2. before \in Seq(S) /\ Len(before) = size /\ step \in S
    BY DEF Holds
  <2>3. size \in Nat /\ \A j \in Kept(i - 1) : Cardinality(Kept(j)) \in 1..size
    BY <2>1, KeptAreCounted
  <2>4. Kept(i) = Kept(i - 1) \union {i} /\ Cardinality(Kept(i)) = size + 1
    BY <1>1, OneMoreIsKept
  <2>5. \A j \in Kept(i - 1) : before[Cardinality(Kept(j))] = dictionary[keys[j]]
    BY DEF Holds
  <2>6. NextRead(before, dictionary, keys[i]) = after
    BY <1>1 DEF NextRead
  <2> HIDE DEF step, Kept, size
  <2>7. /\ after \in Seq(S) /\ Len(after) = size + 1 /\ after[size + 1] = step
        /\ \A k \in 1..size : after[k] = before[k]
    BY <2>2, <2>3
  <2> HIDE DEF after
  <2>8. ASSUME NEW j \in Kept(i) PROVE after[Cardinality(Kept(j))] = dictionary[keys[j]]
    <3>1. CASE j = i
      BY <2>4, <2>7, <3>1 DEF step
    <3>2. CASE j \in Kept(i - 1)
      BY <2>3, <2>5, <2>7, <3>2
    <3>3. QED
      BY <2>4, <3>1, <3>2
  <2>9. QED
    BY <2>4, <2>6, <2>7, <2>8 DEF Holds, Kept
<1>2. CASE ~(dictionary[keys[i]].text # Other)
  <2>1. KeptOf(dictionary, keys, i) = KeptOf(dictionary, keys, i - 1)
    BY <1>2, OneMoreIsKept
  <2>2. NextRead(before, dictionary, keys[i]) = before
    BY <1>2 DEF NextRead
  <2>3. QED
    BY <2>1, <2>2 DEF Holds
<1>3. QED
  BY <1>1, <1>2


(* The loop as a recursive function: there is one, and it holds that.       *)
Reads(read, dictionary, keys, n, S) ==
  /\ DOMAIN read = 0..n
  /\ \A i \in 0..n : read[i] = IF i = 0 THEN << >> ELSE NextRead(read[i - 1], dictionary, keys[i])
  /\ \A i \in 0..n : Holds(read[i], dictionary, keys, i, S)

LEMMA ReadsExist ==
  ASSUME NEW dictionary, NEW keys, NEW S, NEW n \in Nat, \A i \in 1..n : dictionary[keys[i]] \in S
  PROVE  \E read : Reads(read, dictionary, keys, n, S)
<1> DEFINE open == {k \in 0..n : ~\E read : Reads(read, dictionary, keys, k, S)}
<1>1. SUFFICES ASSUME open # {} PROVE FALSE
  <2>1. n \in 0..n
    OBVIOUS
  <2>2. QED
    BY <2>1
<1>2. PICK m \in open : \A k \in open : m <= k
  <2>1. open \subseteq Nat
    OBVIOUS
  <2> HIDE DEF open
  <2>2. QED
    BY <1>1, <2>1, LeastNumber
<1>3. m \in 0..n /\ ~\E read : Reads(read, dictionary, keys, m, S)
  BY <1>2
<1>4. CASE m = 0
  <2>1. Holds(<< >>, dictionary, keys, 0, S)
    <3>1. KeptOf(dictionary, keys, 0) = {} /\ Cardinality(KeptOf(dictionary, keys, 0)) = 0
      <4>1. KeptOf(dictionary, keys, 0) = {}
        BY DEF KeptOf
      <4>2. QED
        BY <4>1, FS_EmptySet
    <3>2. << >> \in Seq(S) /\ Len(<< >>) = 0
      OBVIOUS
    <3>3. QED
      BY <3>1, <3>2 DEF Holds
  <2> DEFINE read == [i \in 0..0 |-> << >>]
  <2>2. DOMAIN read = 0..0 /\ \A i \in 0..0 : i = 0 /\ read[i] = << >>
    OBVIOUS
  <2> HIDE DEF read
  <2>3. Reads(read, dictionary, keys, 0, S)
    BY <2>1, <2>2 DEF Reads
  <2>4. QED
    BY <1>3, <1>4, <2>3
<1>5. CASE m # 0
  <2>1. m \in Nat \ {0} /\ m \in 1..n /\ m - 1 \in 0..n /\ ~(m <= m - 1)
    BY <1>3, <1>5
  <2>2. PICK read : Reads(read, dictionary, keys, m - 1, S)
    BY <1>2, <2>1
  <2> DEFINE last == NextRead(read[m - 1], dictionary, keys[m])
             longer == [i \in 0..m |-> IF i = m THEN last ELSE read[i]]
  <2>3. m - 1 \in 0..(m - 1)
    BY <2>1
  <2>4. Holds(last, dictionary, keys, m, S)
    <3>1. Holds(read[m - 1], dictionary, keys, m - 1, S)
      BY <2>2, <2>3 DEF Reads
    <3>2. QED
      BY <2>1, <3>1, NextHolds
  <2>5. /\ DOMAIN longer = 0..m /\ longer[m] = last
        /\ \A i \in 0..(m - 1) : longer[i] = read[i]
    BY <2>1
  <2> HIDE DEF longer, open
  <2>6. ASSUME NEW i \in 0..m
        PROVE  /\ longer[i] = IF i = 0 THEN << >> ELSE NextRead(longer[i - 1], dictionary, keys[i])
               /\ Holds(longer[i], dictionary, keys, i, S)
    <3>1. CASE i = m
      <4>1. longer[m - 1] = read[m - 1] /\ i # 0
        BY <2>1, <2>3, <2>5, <3>1
      <4>2. QED
        BY <2>4, <2>5, <3>1, <4>1
    <3>2. CASE i # m
      <4>1. i \in 0..(m - 1) /\ (i # 0 => i - 1 \in 0..(m - 1))
        BY <2>1, <3>2
      <4>2. longer[i] = read[i] /\ (i # 0 => longer[i - 1] = read[i - 1])
        BY <2>5, <4>1
      <4>3. /\ read[i] = IF i = 0 THEN << >> ELSE NextRead(read[i - 1], dictionary, keys[i])
            /\ Holds(read[i], dictionary, keys, i, S)
        BY <2>2, <4>1 DEF Reads
      <4>4. QED
        BY <4>2, <4>3
    <3>3. QED
      BY <3>1, <3>2
  <2>7. Reads(longer, dictionary, keys, m, S)
    BY <2>5, <2>6 DEF Reads
  <2>8. QED
    BY <1>3, <2>7
<1>6. QED
  BY <1>4, <1>5

LEMMA StepsAreHeld ==
  ASSUME NEW dictionary, NEW S, NEW n \in Nat, Len(KeysRead(dictionary)) = n,
         \A i \in 1..n : dictionary[KeysRead(dictionary)[i]] \in S
  PROVE  Holds(StepsRead(dictionary), dictionary, KeysRead(dictionary), n, S)
<1> DEFINE keys == KeysRead(dictionary)
           IsRead(f) == f = [i \in 0..n |->
                               IF i = 0 THEN << >>
                               ELSE IF dictionary[keys[i]].text # Other THEN Append(f[i - 1], dictionary[keys[i]])
                               ELSE f[i - 1]]
           read == CHOOSE f : IsRead(f)
<1>1. StepsRead(dictionary) = read[n]
  BY DEF StepsRead
<1> HIDE DEF keys
<1>2. PICK r : Reads(r, dictionary, keys, n, S)
  BY ReadsExist DEF keys
<1>3. \E f : IsRead(f)
  <2>1. IsRead([i \in 0..n |-> r[i]])
    BY <1>2 DEF Reads, NextRead
  <2>2. QED
    BY <2>1
<1>4. IsRead(read)
  BY <1>3
<1> HIDE DEF read
<1>5. \A i \in 0..n : read[i] = IF i = 0 THEN << >> ELSE NextRead(read[i - 1], dictionary, keys[i])
  BY <1>4 DEF NextRead
<1>6. \A i \in 0..n : read[i] = r[i]
  <2> DEFINE open == {i \in 0..n : read[i] # r[i]}
  <2>1. SUFFICES ASSUME open # {} PROVE FALSE
    OBVIOUS
  <2>2. PICK m \in open : \A i \in open : m <= i
    <3>1. open \subseteq Nat
      OBVIOUS
    <3> HIDE DEF open
    <3>2. QED
      BY <2>1, <3>1, LeastNumber
  <2>3. m \in 0..n /\ read[m] # r[m]
    BY <2>2
  <2>4. r[m] = IF m = 0 THEN << >> ELSE NextRead(r[m - 1], dictionary, keys[m])
    BY <1>2, <2>3 DEF Reads
  <2>5. CASE m = 0
    BY <1>5, <2>3, <2>4, <2>5
  <2>6. CASE m # 0
    <3>1. m - 1 \in 0..n /\ ~(m <= m - 1)
      BY <2>3, <2>6
    <3>2. read[m - 1] = r[m - 1]
      BY <2>2, <3>1
    <3>3. QED
      BY <1>5, <2>3, <2>4, <2>6, <3>2
  <2>7. QED
    BY <2>5, <2>6
<1>7. n \in 0..n
  OBVIOUS
<1>8. QED
  BY <1>1, <1>2, <1>6, <1>7 DEF Reads, keys

(* Each step with a text is at the rank of its key among those of steps     *)
(* with a text.                                                             *)
LEMMA AllStepsByRank ==
  ASSUME NEW dictionary, NEW S, DOMAIN dictionary \subseteq Nat, IsFiniteSet(DOMAIN dictionary),
         \A key \in DOMAIN dictionary : dictionary[key] # Other /\ dictionary[key] \in S
  PROVE  StepsByRank(StepsRead(dictionary), dictionary, KeyLess)
<1> DEFINE K == DOMAIN dictionary
           N == Cardinality(K)
           keys == KeysRead(dictionary)
           list == StepsRead(dictionary)
           kept == {key \in K : dictionary[key].text # Other}
           Kept(i) == KeptOf(dictionary, keys, i)
<1>1. Lists(keys, K, N) /\ N \in Nat
  BY AllKeysAreRead, FS_CardinalityType
<1>2. Holds(list, dictionary, keys, N, S)
  <2>1. keys \in [1..N -> K]
    BY <1>1 DEF Lists
  <2> HIDE DEF N, keys, list
  <2>2. Len(keys) = N
    BY <1>1, <2>1, LengthOf
  <2>3. \A i \in 1..N : dictionary[keys[i]] \in S
    BY <2>1
  <2>4. QED
    BY <1>1, <2>2, <2>3, StepsAreHeld DEF keys, list
<1>3. /\ \A i \in 1..N : keys[i] \in K
      /\ \A i, j \in 1..N : keys[i] = keys[j] => i = j
      /\ \A i, j \in 1..N : i < j => KeyLess(keys[i], keys[j])
  BY <1>1 DEF Lists
<1>4. \A key \in K : \E i \in 1..N : keys[i] = key
  <2> HIDE DEF K, keys
  <2>1. IsFiniteSet(K)
    BY DEF K
  <2>2. QED
    BY <1>3, <2>1, OrderHasAll
<1>5. K \subseteq Nat
  OBVIOUS
<1> HIDE DEF K, N, keys, list
<1>6. \A i \in 1..N : KeptOf(dictionary, keys, i) \subseteq 1..N
  BY <1>1 DEF KeptOf
<1>7. Len(list) = Cardinality(kept)
  <2> DEFINE A == Kept(N)
  <2>1. IsFiniteSet(A)
    BY <1>1, KeptAreCounted
  <2>2. A \subseteq 1..N
    BY DEF KeptOf
  <2>3. {keys[i] : i \in A} = kept
    BY <1>3, <1>4 DEF KeptOf
  <2>4. Len(list) = Cardinality(A)
    BY <1>2 DEF Holds
  <2>5. \A i, j \in A : keys[i] = keys[j] => i = j
    BY <1>3, <2>2
  <2> HIDE DEF A
  <2>6. Cardinality({keys[i] : i \in A}) = Cardinality(A)
    BY <2>1, <2>5, ImageCounts
  <2>7. QED
    BY <2>3, <2>4, <2>6
<1>8. ASSUME NEW key \in kept
      PROVE  list[Cardinality({k \in kept : KeyLess(k, key)}) + 1] = dictionary[key]
  <2>1. PICK j \in 1..N : keys[j] = key
    BY <1>4
  <2>2. j \in Kept(N) /\ j \in Nat
    BY <1>1, <2>1 DEF KeptOf
  <2>3. list[Cardinality(Kept(j))] = dictionary[key]
    BY <1>2, <2>1, <2>2 DEF Holds
  <2> DEFINE A == Kept(j) \ {j}
  <2>4. IsFiniteSet(Kept(j)) /\ Cardinality(Kept(j)) \in Nat /\ j \in Kept(j)
    BY <1>1, <2>2, KeptAreCounted
  <2>5. IsFiniteSet(A) /\ Cardinality(A) = Cardinality(Kept(j)) - 1
    <3> HIDE DEF Kept
    <3>1. QED
      BY <2>4, FS_RemoveElement
  <2>6. A = {i \in 1..N : i < j /\ dictionary[keys[i]].text # Other}
    BY <1>1, <2>1 DEF KeptOf
  <2>7. ASSUME NEW i \in 1..N PROVE KeyLess(keys[i], key) <=> i < j
    <3>1. CASE i < j
      BY <1>3, <2>1, <3>1
    <3>2. CASE ~(i < j)
      <4>1. i = j \/ j < i
        BY <1>1, <3>2
      <4>2. keys[i] = key \/ KeyLess(key, keys[i])
        BY <1>3, <2>1, <4>1
      <4>3. keys[i] \in Nat /\ key \in Nat
        BY <1>3, <1>5, <2>1
      <4>4. QED
        BY <3>2, <4>2, <4>3, KeysAreOrdered
    <3>3. QED
      BY <3>1, <3>2
  <2>8. {keys[i] : i \in A} = {k \in kept : KeyLess(k, key)}
    BY <1>3, <1>4, <2>6, <2>7
  <2>9. \A i, l \in A : keys[i] = keys[l] => i = l
    BY <1>3, <2>6
  <2> HIDE DEF A, kept, Kept
  <2>10. Cardinality({keys[i] : i \in A}) = Cardinality(A)
    BY <2>5, <2>9, ImageCounts
  <2>11. Cardinality(A) + 1 = Cardinality(Kept(j))
    BY <2>4, <2>5
  <2>12. QED
    BY <2>3, <2>8, <2>10, <2>11
<1>9. QED
  BY <1>7, <1>8 DEF StepsByRank, list, K


-----------------------------------------------------------------------------
(* A recipe of the response and its child.                                  *)
IsOf(recipe, child) ==
  IF WellFormed(child)
    THEN /\ recipe.card = child.card
         /\ SameIngredients(recipe.ingredients, child.ing)
         /\ StepsByRank(recipe.steps, child.stp, KeyLess)
    ELSE recipe = BlankRecipe

BookInv ==
  /\ Len(response) = Len(origin)
  /\ \A n \in 1..Len(response) : IsOf(response[n], snapshot[origin[n]])

(* What a dictionary of the answer is.                                      *)
LEMMA DictionariesAreFinite ==
  ASSUME NEW S, NEW dictionary \in Dictionary(S)
  PROVE  /\ DOMAIN dictionary \subseteq Nat /\ IsFiniteSet(DOMAIN dictionary)
         /\ \A key \in DOMAIN dictionary : dictionary[key] \in S
<1>1. PICK keys \in SUBSET Keys : IsFiniteSet(keys) /\ dictionary \in [keys -> S]
  BY DEF Dictionary
<1>2. QED
  BY <1>1, KeysAssumption

(* parseRecipe reads all of a child whose shape is right.                   *)
LEMMA ReadIsOf ==
  ASSUME NEW child \in Child, {Other, Absent} \intersect {child.ing, child.stp} = {},
         \A key \in DOMAIN child.stp : child.stp[key] # Other,
         NEW order \in AnyOrder(child.ing)
  PROVE  IsOf([card |-> child.card, ingredients |-> [i \in DOMAIN order |-> child.ing[order[i]]],
               steps |-> StepsRead(child.stp)], child)
<1>1. child.ing \in Dictionary(Texts \union {Other}) /\ child.stp \in Dictionary(StepEntry \union {Other})
  BY DEF Child
<1>2. IsFiniteSet(DOMAIN child.ing)
  BY <1>1, DictionariesAreFinite
<1>3. SameIngredients([i \in DOMAIN order |-> child.ing[order[i]]], child.ing)
  <2>1. ASSUME NEW d, IsFiniteSet(DOMAIN d), NEW o \in AnyOrder(d)
        PROVE  SameIngredients([i \in DOMAIN o |-> d[o[i]]], d)
    BY <2>1, AllIngredients
  <2>2. QED
    BY <1>2, <2>1
<1>4. StepsByRank(StepsRead(child.stp), child.stp, KeyLess)
  <2>1. PICK d : d = child.stp
    OBVIOUS
  <2>2. /\ DOMAIN d \subseteq Nat /\ IsFiniteSet(DOMAIN d)
        /\ \A key \in DOMAIN d : d[key] # Other /\ d[key] \in StepEntry \union {Other}
    BY <1>1, <2>1, DictionariesAreFinite
  <2>3. StepsByRank(StepsRead(d), d, KeyLess)
    BY <2>2, AllStepsByRank
  <2>4. QED
    BY <2>1, <2>3
<1>5. QED
  BY <1>3, <1>4 DEF IsOf, WellFormed

LEMMA AppendKeepsBook ==
  ASSUME IInv, ScreensInv, BookInv, NEW recipe, AppendRecipe(recipe), IsOf(recipe, snapshot[next])
  PROVE  BookInv'
<1>1. /\ response' = Append(response, recipe) /\ origin' = Append(origin, next) /\ snapshot' = snapshot
  BY DEF AppendRecipe
<1>2. PICK S : response \in Seq(S) /\ recipe \in S
  <2> DEFINE T == {response[i] : i \in DOMAIN response} \union {recipe}
  <2>1. response \in Seq(T) /\ recipe \in T
    BY DEF ScreensInv, ResponseHasCards
  <2>2. QED
    BY <2>1
<1>3. PICK T : origin \in Seq(T) /\ next \in T
  <2>1. origin \in Seq(1..next) /\ next \in 1..next
    BY DEF IInv, OriginSoFar
  <2>2. QED
    BY <2>1
<1> DEFINE n == Len(response)
<1>4. n \in Nat /\ Len(origin) = n
  BY <1>2 DEF BookInv
<1>5. Len(response') = n + 1 /\ response'[n + 1] = recipe /\ \A i \in 1..n : response'[i] = response[i]
  BY <1>1, <1>2
<1>6. Len(origin') = n + 1 /\ origin'[n + 1] = next /\ \A i \in 1..n : origin'[i] = origin[i]
  BY <1>1, <1>3, <1>4
<1>7. \A i \in 1..n : IsOf(response[i], snapshot[origin[i]])
  BY DEF BookInv
<1>8. 1..(n + 1) = 1..n \union {n + 1}
  BY <1>4
<1> HIDE DEF n
<1>9. ASSUME NEW i \in 1..(n + 1) PROVE IsOf(response'[i], snapshot'[origin'[i]])
  <2>1. CASE i = n + 1
    BY <1>1, <1>5, <1>6, <2>1
  <2>2. CASE i \in 1..n
    BY <1>1, <1>5, <1>6, <1>7, <2>2
  <2>3. QED
    BY <1>8, <2>1, <2>2
<1>10. QED
  BY <1>5, <1>6, <1>9 DEF BookInv, IsOf, WellFormed, SameIngredients, StepsByRank, BlankRecipe

LEMMA ParsesKeepBook ==
  ASSUME IInv, ScreensInv, BookInv, Parses
  PROVE  BookInv'
<1>1. CASE PassOver \/ TrapOnIngredients \/ Trap
  <2>1. UNCHANGED <<response, origin, snapshot>>
    BY <1>1 DEF PassOver, TrapOnIngredients, Trap, Fetch, result
  <2>2. QED
    BY <2>1 DEF BookInv
<1> DEFINE child == snapshot[next]
<1>2. CASE BlankOnShape
  <2>1. IsOf(BlankRecipe, child) /\ AppendRecipe(BlankRecipe)
    BY <1>2 DEF BlankOnShape, IsOf, WellFormed
  <2>2. QED
    BY <2>1, AppendKeepsBook
<1>3. CASE ReadRecipe /\ ~Trap
  <2>1. child \in Child
    BY <1>3, SnapshotsAssumption
    DEF ReadRecipe, AtDictionary, AtChild, IInv, OriginSoFar, ScreensInv
  <2> DEFINE blanked == \E key \in DOMAIN child.stp : child.stp[key] = Other
  <2>2. /\ {Other, Absent} \intersect {child.ing, child.stp} = {}
        /\ \E order \in AnyOrder(child.ing) : ingredients' = [i \in DOMAIN order |-> child.ing[order[i]]]
        /\ steps' = StepsRead(child.stp)
        /\ \/ blanked /\ AppendRecipe(BlankRecipe)
           \/ /\ ~blanked
              /\ AppendRecipe([card |-> child.card, ingredients |-> ingredients', steps |-> steps'])
    BY <1>3 DEF ReadRecipe
  <2>3. CASE blanked /\ AppendRecipe(BlankRecipe)
    <3>1. IsOf(BlankRecipe, child)
      BY <2>3 DEF IsOf, WellFormed
    <3>2. QED
      BY <2>3, <3>1, AppendKeepsBook
  <2>4. CASE ~blanked /\ AppendRecipe([card |-> child.card, ingredients |-> ingredients', steps |-> steps'])
    <3> DEFINE recipe == [card |-> child.card, ingredients |-> ingredients', steps |-> steps']
    <3>1. PICK order \in AnyOrder(child.ing) : ingredients' = [i \in DOMAIN order |-> child.ing[order[i]]]
      BY <2>2
    <3>2. IsOf([card |-> child.card, ingredients |-> [i \in DOMAIN order |-> child.ing[order[i]]],
                steps |-> StepsRead(child.stp)], child)
      <4>1. \A key \in DOMAIN child.stp : child.stp[key] # Other
        BY <2>4
      <4> HIDE DEF child
      <4>2. QED
        BY <2>1, <2>2, <4>1, ReadIsOf
    <3>3. IsOf(recipe, child)
      BY <2>2, <3>1, <3>2
    <3> HIDE DEF recipe
    <3>4. AppendRecipe(recipe)
      BY <2>4 DEF recipe
    <3>5. QED
      BY <3>3, <3>4, AppendKeepsBook
  <2>5. QED
    BY <2>2, <2>3, <2>4
<1>4. QED
  BY <1>1, <1>2, <1>3 DEF Parses

LEMMA BookStep ==
  ASSUME IInv, ScreensInv, BookInv, [StartUpNext]_startUpVars
  PROVE  BookInv'
<1>1. CASE UNCHANGED <<response, origin, snapshot>>
  BY <1>1 DEF BookInv
<1>2. CASE LoadScreen \/ Answers \/ Refuses
  BY <1>1, <1>2 DEF LoadScreen, CreateRecipeObject, Answers, Answered, Refuses, Cancelled, Fetch, vars, result
<1>3. CASE Parses
  BY <1>3, ParsesKeepBook
<1>4. CASE Delivers \/ DeliveryTraps
  BY <1>1, <1>4 DEF Delivers, DeliveryTraps, Complete, result
<1>5. CASE (\E s \in 1..Len(Setup) : Fills(s)) \/ Touched \/ Network \/ UNCHANGED startUpVars
  BY <1>1, <1>5 DEF Fills, Touched, Network, startUpVars, vars, result
<1>6. QED
  BY <1>2, <1>3, <1>4, <1>5 DEF StartUpNext

(* Every recipe of the book is of its own child: its card, its ingredients  *)
(* each as often as in the dictionary, whatever the order they came in, and *)
(* its steps with a text each at the rank of its key, also after children   *)
(* of another shape left half of themselves in ingredients and steps; a     *)
(* child of another shape gives the blank recipe.  And the completion gets  *)
(* that book once (ParseManager.parseRecipe,                                *)
(* DatabaseService.createRecipeObject).                                     *)
THEOREM BookHoldsTheAnswer == StartUpSpec => []BookIsTheAnswer
<1>1. StartUpInit => BookInv
  <2>1. StartUpInit => Len(response) = 0 /\ Len(origin) = 0
    BY DEF StartUpInit, Init
  <2>2. QED
    BY <2>1 DEF BookInv
<1>2. IInv /\ ScreensInv /\ BookInv /\ [StartUpNext]_startUpVars => BookInv'
  BY BookStep
<1>3. StartUpSpec => []BookInv
  BY <1>1, <1>2, ScreensAlways, PTL DEF StartUpSpec
<1>4. ASSUME ScreensInv, BookInv PROVE FromItsChild
  <2>1. DOMAIN response = 1..Len(response)
    BY <1>4 DEF ScreensInv, ResponseHasCards
  <2>2. QED
    BY <1>4, <2>1 DEF BookInv, FromItsChild, IsOf
<1>5. IInv => CompletesOnceWithAll
  BY DEF IInv, OriginSoFar, CompletedOnce, CompletesOnceWithAll
<1>6. IInv /\ ScreensInv /\ BookInv => BookIsTheAnswer
  BY <1>4, <1>5 DEF BookIsTheAnswer
<1>7. QED
  BY <1>3, <1>6, ScreensAlways, PTL
=============================================================================
