---------------------------- MODULE ParseManager ----------------------------
(***************************************************************************)
(* How the recipe book is fetched and parsed: one call of                  *)
(* DatabaseService.createRecipeObject and the parseRecipe calls of its     *)
(* callback.  They share one ParseManager, whose ingredients and steps are *)
(* instance variables that outlive a call.                                 *)
(*                                                                         *)
(* A Swift dictionary is a function from its keys.  A value that the code  *)
(* casts is what the cast expects, or Other.  The four strings of a recipe *)
(* (nome, tempo, rendimento, foto) are one value, its card.                *)
(***************************************************************************)
EXTENDS Integers, Sequences, FiniteSets

CONSTANTS
  Keys,       (* the keys of ingredients and steps: strings with a common  *)
              (* prefix and a number, and the number stands for the key    *)
  Snapshots,  (* the answers of the database: sequences of children        *)
  Texts,      (* step texts and ingredients                                *)
  Times,      (* times of steps, in seconds                                *)
  NoTime,     (* Step.time = nil                                           *)
  Cards,      (* cards whose four strings are there                        *)
  BlankCard,  (* four empty strings                                        *)
  Other,      (* a value that the cast fails on                            *)
  Absent      (* no value                                                  *)

Dictionary(values) == UNION {[keys -> values] : keys \in {some \in SUBSET Keys : IsFiniteSet(some)}}

StepEntry == [text : Texts \union {Other}, time : Times \union {NoTime}]

Child ==
  [ing  : Dictionary(Texts \union {Other}) \union {Other, Absent},
   stp  : Dictionary(StepEntry \union {Other}) \union {Other},
   card : Cards \union {Other}]

ASSUME KeysAssumption == Keys \subseteq Nat
ASSUME SnapshotsAssumption == Snapshots \subseteq Seq(Child \union {Other})

VARIABLES
  fetch,        (* where the call is                                       *)
  snapshot,     (* the children of "Recipes", in the order of the answer   *)
  next,         (* the child the loop is at                                *)
  ingredients,  (* ParseManager.ingredients                                *)
  steps,        (* ParseManager.steps                                      *)
  response,     (* the local array of createRecipeObject                   *)
  origin,       (* history: the child of each recipe of the response       *)
  completions   (* history: what completion was called with                *)

parser == <<ingredients, steps>>
result == <<response, origin>>
vars   == <<fetch, snapshot, next, parser, result, completions>>

-----------------------------------------------------------------------------
(* String < on the keys: digit by digit from the left.  Both numbers are    *)
(* filled up with zeros on their right to the same width.                   *)
TenTo(n) == LET power[i \in 0..n] == IF i = 0 THEN 1 ELSE 10 * power[i - 1] IN power[n]
NumDigits(n) == CHOOSE d \in 1..(n + 1) : n < TenTo(d) /\ (d = 1 \/ TenTo(d - 1) <= n)

KeyLess(a, b) ==
  LET left  == a * TenTo(NumDigits(b))
      right == b * TenTo(NumDigits(a))
  IN  left < right \/ (left = right /\ NumDigits(a) < NumDigits(b))

(* The keys of a dictionary in each order a loop may take them ...          *)
AnyOrder(dictionary) ==
  {order \in [1..Cardinality(DOMAIN dictionary) -> DOMAIN dictionary] :
     \A i, j \in DOMAIN order : order[i] = order[j] => i = j}

(* ... and in that of stpDictionary.sorted(by: {$0.0 < $1.0}).              *)
SortedKeys(dictionary) ==
  CHOOSE order \in AnyOrder(dictionary) :
    \A i, j \in DOMAIN order : i < j => KeyLess(order[i], order[j])

(* The loop over the steps ends before the first one, in the order of the   *)
(* keys, that is not a dictionary: the keys it goes through.                *)
KeysRead(dictionary) ==
  LET order == SortedKeys(dictionary)
      reads(n) == \A i \in 1..n : dictionary[order[i]] # Other
  IN  SubSeq(order, 1, CHOOSE n \in 0..Len(order) :
                         reads(n) /\ (n = Len(order) \/ ~reads(n + 1)))

(* Slip: a step without a text is appended like the others.                 *)
StepsAll(dictionary) ==
  [i \in 1..Len(KeysRead(dictionary)) |-> dictionary[KeysRead(dictionary)[i]]]

(* Slip: steps is not emptied when parseRecipe starts.                      *)
StepsKept(dictionary) == steps \o StepsAll(dictionary)

(* The steps appended on the way: those with a text.                        *)
StepsRead(dictionary) ==
  LET keys == KeysRead(dictionary)
      read[i \in 0..Len(keys)] ==
        IF i = 0 THEN << >>
        ELSE IF dictionary[keys[i]].text # Other THEN Append(read[i - 1], dictionary[keys[i]])
        ELSE read[i - 1]
  IN  read[Len(keys)]

BlankRecipe == [card |-> BlankCard, ingredients |-> << >>, steps |-> << >>]

Init ==
  /\ fetch = "idle"
  /\ snapshot \in Snapshots
  /\ next = 1
  /\ ingredients = << >>
  /\ steps = << >>
  /\ response = << >>
  /\ origin = << >>
  /\ completions = << >>

-----------------------------------------------------------------------------
Fetch(from, to) ==
  /\ fetch = from
  /\ fetch' = to
  /\ UNCHANGED <<snapshot, next, parser, result, completions>>

(* createRecipeObject(completion:) observes "Recipes" once.  The database   *)
(* answers, or refuses the read: no cancel block was given, and nothing of  *)
(* the program is called.                                                   *)
CreateRecipeObject == Fetch("idle", "waiting")
Answered           == Fetch("waiting", "parsing")
Cancelled          == Fetch("waiting", "cancelled")

(* A force unwrap of nil ends the app.                                      *)
Trap == Fetch("parsing", "trapped")

AtChild == fetch = "parsing" /\ next <= Len(snapshot)

AtDictionary == AtChild /\ snapshot[next] # Other

(* The recipe parsed from the child at hand joins the response.             *)
AppendRecipe(recipe) ==
  /\ response' = Append(response, recipe)
  /\ origin' = Append(origin, next)
  /\ next' = next + 1
  /\ UNCHANGED <<fetch, snapshot, completions>>

(* Slip: the loop ends at the first child that is not a dictionary.         *)
StopAtOther ==
  /\ AtChild
  /\ snapshot[next] = Other
  /\ next' = Len(snapshot) + 1
  /\ UNCHANGED <<fetch, snapshot, parser, result, completions>>

(* A child whose value is not a dictionary is passed over.                  *)
PassOver ==
  /\ AtChild
  /\ snapshot[next] = Other
  /\ next' = next + 1
  /\ UNCHANGED <<fetch, snapshot, parser, result, completions>>

(* parseRecipe(_:) without "Ingredientes", or with an ingredient that is    *)
(* not a string.                                                            *)
TrapOnIngredients ==
  /\ AtDictionary
  /\ LET child == snapshot[next]
     IN  \/ child.ing = Absent
         \/ /\ Other \notin {child.ing, child.stp}
            /\ \E key \in DOMAIN child.ing : child.ing[key] = Other
  /\ Trap

(* parseRecipe(_:) with "Ingredientes" or "Passos" not a dictionary.        *)
BlankOnShape ==
  /\ AtDictionary
  /\ snapshot[next].ing # Absent
  /\ Other \in {snapshot[next].ing, snapshot[next].stp}
  /\ ingredients' = << >>
  /\ steps' = << >>
  /\ AppendRecipe(BlankRecipe)

(* parseRecipe(_:) through its loops.  A step that is not a dictionary      *)
(* makes the recipe blank, and what was read before stays in the instance   *)
(* variables.  At the end a missing string traps.                           *)
ReadRecipe ==
  /\ AtDictionary
  /\ {Other, Absent} \intersect {snapshot[next].ing, snapshot[next].stp} = {}
  /\ LET child   == snapshot[next]
         blanked == \E key \in DOMAIN child.stp : child.stp[key] = Other
     IN  /\ \A key \in DOMAIN child.ing : child.ing[key] # Other
         /\ \/ /\ \E order \in AnyOrder(child.ing) :
                    ingredients' = [i \in DOMAIN order |-> child.ing[order[i]]]
               /\ steps' = StepsRead(child.stp)
               /\ \/ blanked /\ AppendRecipe(BlankRecipe)
                  \/ /\ ~blanked /\ child.card # Other
                     /\ AppendRecipe([card |-> child.card,
                                      ingredients |-> ingredients',
                                      steps |-> steps'])
            \/ ~blanked /\ child.card = Other /\ Trap

(* After the loop: completion(ingredients).                                 *)
Complete ==
  /\ fetch = "parsing"
  /\ next > Len(snapshot)
  /\ completions' = Append(completions, response)
  /\ fetch' = "done"
  /\ UNCHANGED <<snapshot, next, parser, result>>

-----------------------------------------------------------------------------
WellFormed(child) ==
  /\ Other \notin {child.ing, child.stp}
  /\ \A key \in DOMAIN child.stp : child.stp[key] # Other

(* The texts of a list of ingredients, each as often as in the dictionary.  *)
SameIngredients(list, dictionary) ==
  \A text \in Texts :
    Cardinality({i \in DOMAIN list : list[i] = text})
      = Cardinality({key \in DOMAIN dictionary : dictionary[key] = text})

(* The steps with a text, each at the rank of its key.                      *)
StepsByRank(list, dictionary, Less(_, _)) ==
  LET kept      == {key \in DOMAIN dictionary : dictionary[key].text # Other}
      rank(key) == Cardinality({k \in kept : Less(k, key)}) + 1
  IN  /\ Len(list) = Cardinality(kept)
      /\ \A key \in kept : list[rank(key)] = dictionary[key]

(* A recipe of the response holds what its own child holds, all of it and   *)
(* nothing of the children parsed before it, although all of them go        *)
(* through the same two instance variables; it is blank exactly when its    *)
(* child has another shape.                                                 *)
FromItsChild ==
  \A n \in DOMAIN response :
    LET recipe == response[n]
        child  == snapshot[origin[n]]
    IN  IF WellFormed(child)
          THEN /\ recipe.card = child.card
               /\ SameIngredients(recipe.ingredients, child.ing)
               /\ StepsByRank(recipe.steps, child.stp, KeyLess)
          ELSE recipe = BlankRecipe

(* "Guarantees it returns a value when it finishes retriving all data": the *)
(* completion is called once, with one recipe for every child that is a     *)
(* dictionary, in the order of the answer.                                  *)
CompletesOnceWithAll ==
  /\ Len(completions) = (IF fetch = "done" THEN 1 ELSE 0)
  /\ fetch = "done" =>
       /\ completions[1] = response
       /\ \A n \in 1..Len(snapshot) :
            snapshot[n] # Other <=> \E i \in DOMAIN origin : origin[i] = n
       /\ \A i, j \in DOMAIN origin : i < j => origin[i] < origin[j]
=============================================================================
