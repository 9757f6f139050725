------------------------- MODULE WatchTransferProofs -------------------------
(* The watch reads back exactly the steps that the phone wrote, for every   *)
(* recipe: ParseWatch.decodeInWatch is a left inverse of sendToWatch.       *)
(*                                                                          *)
(* For any recipes and any number of hand-overs: the watch shows one recipe *)
(* of the cook's, whole; the contexts in flight are in order; the last one  *)
(* is accounted for; and the path implements RecipeHandoff.                 *)
EXTENDS WatchTransfer, FiniteSetTheorems, WellFoundedInduction, TLAPS

(* The dictionary of a step has a text, is one of the dictionaries of       *)
(* sendToWatch, and is read back as the step.                               *)
LEMMA StepDictReadsBack ==
  ASSUME NEW step \in Step
  PROVE  /\ "Texto" \in DOMAIN StepDict(step)
         /\ StepDict(step) \in Dict
         /\ StepOf(StepDict(step)) = step
<1> DEFINE d == StepDict(step)
<1>1. CASE step.time = NoTime
  <2>1. d = [k \in {"Texto"} |-> step.text]
    BY <1>1 DEF StepDict, Step
  <2>2. DOMAIN d = {"Texto"} /\ d["Texto"] = step.text
    BY <2>1
  <2>3. d \in Dict
    BY <2>1 DEF Dict, Step
  <2>4. QED
    BY <1>1, <2>2, <2>3 DEF StepOf, Step
<1>2. CASE step.time # NoTime
  <2>1. /\ DOMAIN d = {"Texto", "Tempo"}
        /\ d["Texto"] = step.text
        /\ d["Tempo"] = step.time
    BY <1>2 DEF StepDict
  <2>2. step.text \in Texts /\ step.time \in Times
    BY <1>2 DEF Step
  <2>3. d \in [{"Texto", "Tempo"} -> Texts \union Times]
    BY <1>2, <2>2 DEF StepDict
  <2>4. d \in Dict
    BY <2>1, <2>2, <2>3 DEF Dict
  <2>5. QED
    BY <2>1, <2>4 DEF StepOf, Step
<1>3. QED
  BY <1>1, <1>2

(* What sendToWatch builds is an application context.                       *)
LEMMA SentIsData ==
  ASSUME NEW recipe \in [steps : Seq(Step)]
  PROVE  sendToWatch(recipe) \in Data
<1>1. \A i \in 1..Len(recipe.steps) : StepDict(recipe.steps[i]) \in Dict
  BY StepDictReadsBack
<1>2. [i \in 1..Len(recipe.steps) |-> StepDict(recipe.steps[i])] \in Seq(Dict)
  BY <1>1
<1>3. QED
  BY <1>2 DEF sendToWatch, Data

(* A list whose dictionaries all have a text is read to its end.            *)
LEMMA ReadsToTheEnd ==
  ASSUME NEW data, Len(data) \in Nat,
         \A i \in 1..Len(data) : "Texto" \in DOMAIN data[i]
  PROVE  StepsRead(data) = Len(data)
<1>1. StopsAt(data, Len(data))
  BY DEF StopsAt
<1>2. ASSUME NEW n \in 0..Len(data), StopsAt(data, n)
      PROVE  n = Len(data)
  <2>1. CASE n < Len(data)
    <3>1. n + 1 \in 1..Len(data)
      BY <2>1
    <3>2. QED
      BY <1>2, <3>1 DEF StopsAt
  <2>2. QED
    BY <2>1
<1>3. Len(data) \in 0..Len(data)
  OBVIOUS
<1>4. StepsRead(data) \in 0..Len(data) /\ StopsAt(data, StepsRead(data))
  BY <1>1, <1>3, Zenon DEF StepsRead
<1>5. QED
  BY <1>2, <1>4

(* Nothing of a recipe's steps is lost or invented between sendToWatch and  *)
(* decodeInWatch, for every recipe.                                         *)
THEOREM RoundTrip ==
  ASSUME NEW recipe \in [steps : Seq(Step)]
  PROVE  decodeInWatch(sendToWatch(recipe)) = recipe.steps
<1> DEFINE sent == sendToWatch(recipe)
           data == [i \in 1..Len(recipe.steps) |-> StepDict(recipe.steps[i])]
<1>1. "steps" \in DOMAIN sent /\ sent["steps"] = data
  BY DEF sendToWatch
<1>2. recipe.steps \in Seq(Step) /\ Len(recipe.steps) \in Nat
  OBVIOUS
<1>3. Len(data) = Len(recipe.steps)
  BY <1>2
<1>4. ASSUME NEW i \in 1..Len(data)
      PROVE  "Texto" \in DOMAIN data[i] /\ StepOf(data[i]) = recipe.steps[i]
  <2>1. recipe.steps[i] \in Step
    BY <1>2, <1>3
  <2>2. data[i] = StepDict(recipe.steps[i])
    BY <1>3
  <2>3. QED
    BY <2>1, <2>2, StepDictReadsBack
<1> HIDE DEF data
<1>5. StepsRead(data) = Len(data)
  BY <1>2, <1>3, <1>4, ReadsToTheEnd
<1>6. decodeInWatch(sent) = [i \in 1..Len(data) |-> StepOf(data[i])]
  BY <1>1, <1>5 DEF decodeInWatch
<1>7. QED
  BY <1>2, <1>3, <1>4, <1>6

-----------------------------------------------------------------------------
Context == [serial : Nat, data : Data]

(* A context in flight is the encoding of the recipe of its serial among    *)
(* the recipes sent, and is newer than anything the watch ran or lost.      *)
Genuine(context, sent, run, lost) ==
  /\ context \in Context
  /\ context.serial \in 1..Len(sent)
  /\ context.data = sendToWatch(sent[context.serial])
  /\ context.serial > run
  /\ context.serial > lost

Counters ==
  /\ lastShown <= handled
  /\ handled <= Len(started)
  /\ dropped <= Len(started)

(* The slot holds at most the latest context; the queue of the watch is in  *)
(* order and behind the slot.                                               *)
SlotAndQueue ==
  /\ outbox = << >> \/ Len(outbox) = 1
  /\ outbox # << >> =>
       /\ outbox[1].serial = Len(started)
       /\ Genuine(outbox[1], started, handled, dropped)
       /\ \A i \in 1..Len(mainQueue) : mainQueue[i].serial < outbox[1].serial
  /\ \A i \in 1..Len(mainQueue) : Genuine(mainQueue[i], started, handled, dropped)
  /\ \A i, j \in 1..Len(mainQueue) : i < j => mainQueue[i].serial < mainQueue[j].serial

(* The last hand-over is in the slot, last in the queue, run, or lost.      *)
LastIsSomewhere ==
  \/ Len(started) \in {0, handled, dropped}
  \/ outbox # << >>
  \/ mainQueue # << >> /\ mainQueue[Len(mainQueue)].serial = Len(started)

Presentation ==
  \/ presented = Nothing
  \/ /\ presented.serial \in 1..Len(started)
     /\ presented = [serial      |-> presented.serial,
                     controllers |-> Controllers(started[presented.serial].steps),
                     contexts    |-> Contexts(started[presented.serial].steps)]

IInv == TypeOK /\ Counters /\ SlotAndQueue /\ LastIsSomewhere /\ Presentation

-----------------------------------------------------------------------------
(* The concatenation of two sequences, element by element.                  *)
LEMMA Concatenation ==
  ASSUME NEW S, NEW s \in Seq(S), NEW t \in Seq(S)
  PROVE  /\ s \o t \in Seq(S)
         /\ Len(s \o t) = Len(s) + Len(t)
         /\ \A i \in 1..Len(s) : (s \o t)[i] = s[i]
         /\ \A i \in 1..Len(t) : (s \o t)[Len(s) + i] = t[i]
         /\ t = << >> => s \o t = s
<1>1. /\ s \o t \in Seq(S)
      /\ Len(s \o t) = Len(s) + Len(t)
      /\ \A i \in 1..Len(s) : (s \o t)[i] = s[i]
  OBVIOUS
<1>2. ASSUME NEW i \in 1..Len(t)
      PROVE  (s \o t)[Len(s) + i] = t[i]
  OBVIOUS
<1>3. ASSUME t = << >>
      PROVE  s \o t = s
  <2>1. Len(s \o t) = Len(s)
    BY <1>1, <1>3
  <2>2. QED
    BY <1>1, <2>1
<1>4. QED
  BY <1>1, <1>2, <1>3

(* What is in flight: the queue of the watch, then the slot.                *)
LEMMA InFlightIs ==
  ASSUME TypeOK, SlotAndQueue
  PROVE  /\ Len(InFlight) = Len(mainQueue) + Len(outbox)
         /\ \A i \in 1..Len(mainQueue) : InFlight[i] = mainQueue[i]
         /\ outbox = << >> => InFlight = mainQueue
         /\ outbox # << >> => InFlight[Len(mainQueue) + 1] = outbox[1]
<1>1. mainQueue \in Seq(Context) /\ outbox \in Seq(Context)
  BY DEF TypeOK, Context
<1>2. outbox # << >> => 1 \in 1..Len(outbox)
  BY DEF SlotAndQueue
<1>3. QED
  BY <1>1, <1>2, Concatenation DEF InFlight

(* Init establishes the invariant.                                          *)
LEMMA InitIInv == Init => IInv
<1> SUFFICES ASSUME Init PROVE IInv
  OBVIOUS
<1>1. TypeOK
  <2>1. \A S : << >> \in Seq(S)
    OBVIOUS
  <2>2. presented.serial = 0
    BY DEF Init, Nothing
  <2>3. /\ outbox \in Seq([serial : Nat, data : Data])
        /\ mainQueue \in Seq([serial : Nat, data : Data])
        /\ steps \in Seq(Step)
        /\ started \in Seq(Recipes)
    BY <2>1, Zenon DEF Init
  <2>4. handled \in Nat /\ lastShown \in Nat /\ dropped \in Nat
    BY DEF Init
  <2>5. /\ supported \in BOOLEAN
        /\ installed \in BOOLEAN
        /\ phoneRunning \in BOOLEAN
        /\ phoneSession \in {"notActivated", "activating", "activated", "inactive", "failed"}
        /\ alert \in {"none", "Sucesso", "Erro"}
        /\ watchSession \in {"off", "activating", "activated", "failed"}
    BY DEF Init
  <2>6. QED
    BY <2>2, <2>3, <2>4, <2>5 DEF TypeOK
<1>2. Counters /\ SlotAndQueue /\ LastIsSomewhere /\ Presentation
  BY DEF Init, Counters, SlotAndQueue, LastIsSomewhere, Presentation
<1>3. QED
  BY <1>1, <1>2 DEF IInv

(* A genuine context is an application context that decodes to the steps of *)
(* its recipe.                                                              *)
LEMMA GenuineDecodes ==
  ASSUME started \in Seq(Recipes), NEW context,
         Genuine(context, started, handled, dropped)
  PROVE  /\ started[context.serial].steps \in Seq(Step)
         /\ decodeInWatch(context.data) = started[context.serial].steps
<1>1. started[context.serial] \in [steps : Seq(Step)]
  BY RecipesAssumption DEF Genuine
<1>2. QED
  BY <1>1, SentIsData, RoundTrip DEF Genuine

(* A hand-over keeps the invariant: the new context is newer than all.      *)
LEMMA StartRecipeIInv ==
  ASSUME IInv, NEW recipe \in Recipes, StartRecipe(recipe)
  PROVE  IInv'
<1> DEFINE context == [serial |-> Len(started'), data |-> sendToWatch(recipe)]
<1>1. /\ started' = Append(started, recipe)
      /\ outbox' = <<context>>
      /\ UNCHANGED <<mainQueue, handled, lastShown, dropped, presented>>
  BY DEF StartRecipe, prepareToSendValue, sendValue, watchVars
<1>2. /\ started \in Seq(Recipes)
      /\ started' \in Seq(Recipes)
      /\ Len(started') = Len(started) + 1
      /\ started'[Len(started')] = recipe
      /\ \A n \in 1..Len(started) : started'[n] = started[n]
  BY <1>1 DEF IInv, TypeOK
<1>3. context \in Context
  BY <1>2, SentIsData, RecipesAssumption DEF Context
<1>4. TypeOK'
  BY <1>1, <1>2, <1>3 DEF StartRecipe, watchVars, IInv, TypeOK, Context
<1>5. Counters'
  BY <1>1, <1>2 DEF IInv, TypeOK, Counters
<1>6. SlotAndQueue'
  <2>1. Genuine(context, started', handled, dropped)
    BY <1>1, <1>2, <1>3 DEF IInv, TypeOK, Counters, Genuine
  <2>2. ASSUME NEW i \in 1..Len(mainQueue)
        PROVE  /\ Genuine(mainQueue[i], started', handled, dropped)
               /\ mainQueue[i].serial < context.serial
    <3>1. Genuine(mainQueue[i], started, handled, dropped)
      BY DEF IInv, SlotAndQueue
    <3>2. QED
      BY <1>2, <3>1 DEF Genuine
  <2>3. outbox'[1] = context /\ Len(outbox') = 1
    BY <1>1
  <2>4. context.serial = Len(started')
    OBVIOUS
  <2> HIDE DEF context
  <2>5. QED
    BY <1>1, <2>1, <2>2, <2>3, <2>4 DEF IInv, SlotAndQueue
<1>7. LastIsSomewhere'
  BY <1>1 DEF LastIsSomewhere
<1>8. Presentation'
  BY <1>1, <1>2 DEF IInv, Presentation
<1>9. QED
  BY <1>4, <1>5, <1>6, <1>7, <1>8 DEF IInv

(* A delivery keeps it: the slot's context is the newest of the queue.      *)
LEMMA DidReceiveIInv ==
  ASSUME IInv, DidReceiveApplicationContext
  PROVE  IInv'
<1>1. /\ outbox # << >>
      /\ mainQueue' = Append(mainQueue, Head(outbox))
      /\ outbox' = << >>
      /\ UNCHANGED <<started, handled, lastShown, dropped, presented, steps>>
  BY DEF DidReceiveApplicationContext, historyVars
<1>2. /\ Len(outbox) = 1
      /\ Head(outbox) = outbox[1]
      /\ outbox[1] \in Context
      /\ mainQueue \in Seq(Context)
  <2>1. outbox \in Seq(Context) /\ mainQueue \in Seq(Context)
    BY DEF IInv, TypeOK, Context
  <2>2. Len(outbox) = 1
    BY <1>1 DEF IInv, SlotAndQueue
  <2>3. QED
    BY <2>1, <2>2
<1>3. /\ mainQueue' \in Seq(Context)
      /\ Len(mainQueue') = Len(mainQueue) + 1
      /\ mainQueue'[Len(mainQueue')] = outbox[1]
      /\ \A i \in 1..Len(mainQueue) : mainQueue'[i] = mainQueue[i]
  BY <1>1, <1>2
<1>4. TypeOK'
  BY <1>1, <1>3 DEF DidReceiveApplicationContext, phoneVars, IInv, TypeOK, Context
<1>5. Counters'
  BY <1>1 DEF IInv, Counters
<1>6. SlotAndQueue'
  <2>1. ASSUME NEW i \in 1..Len(mainQueue')
        PROVE  Genuine(mainQueue'[i], started, handled, dropped)
    <3>1. CASE i = Len(mainQueue')
      BY <1>1, <1>3, <3>1 DEF IInv, SlotAndQueue
    <3>2. CASE i # Len(mainQueue')
      <4>1. i \in 1..Len(mainQueue) /\ mainQueue'[i] = mainQueue[i]
        BY <1>2, <1>3, <3>2
      <4>2. QED
        BY <4>1 DEF IInv, SlotAndQueue
    <3>3. QED
      BY <3>1, <3>2
  <2>2. ASSUME NEW i \in 1..Len(mainQueue'), NEW j \in 1..Len(mainQueue'), i < j
        PROVE  mainQueue'[i].serial < mainQueue'[j].serial
    <3>1. i \in 1..Len(mainQueue) /\ mainQueue'[i] = mainQueue[i]
      BY <1>2, <1>3, <2>2
    <3>2. CASE j = Len(mainQueue')
      BY <1>1, <1>3, <3>1, <3>2 DEF IInv, SlotAndQueue
    <3>3. CASE j # Len(mainQueue')
      <4>1. j \in 1..Len(mainQueue) /\ mainQueue'[j] = mainQueue[j]
        BY <1>2, <1>3, <3>3
      <4>2. QED
        BY <2>2, <3>1, <4>1 DEF IInv, SlotAndQueue
    <3>4. QED
      BY <3>2, <3>3
  <2>3. QED
    BY <1>1, <2>1, <2>2 DEF SlotAndQueue
<1>7. LastIsSomewhere'
  BY <1>1, <1>3 DEF IInv, SlotAndQueue, LastIsSomewhere
<1>8. Presentation'
  BY <1>1 DEF IInv, Presentation
<1>9. QED
  BY <1>4, <1>5, <1>6, <1>7, <1>8 DEF IInv

(* A block of the main queue keeps it: the pages are those of the recipe of *)
(* the context it ran.                                                      *)
LEMMA RunMainQueueBlockIInv ==
  ASSUME IInv, RunMainQueueBlock
  PROVE  IInv'
<1> DEFINE context == Head(mainQueue)
<1>1. /\ mainQueue # << >>
      /\ steps' = decodeInWatch(context.data)
      /\ handled' = context.serial
      /\ mainQueue' = Tail(mainQueue)
      /\ UNCHANGED <<outbox, started, dropped>>
  BY DEF RunMainQueueBlock
<1>2. /\ mainQueue \in Seq(Context)
      /\ context = mainQueue[1]
      /\ Len(mainQueue) \in Nat \ {0}
      /\ Len(mainQueue') = Len(mainQueue) - 1
      /\ mainQueue' \in Seq(Context)
      /\ \A i \in 1..Len(mainQueue') : mainQueue'[i] = mainQueue[i + 1]
  BY <1>1 DEF IInv, TypeOK, Context
<1>3. Genuine(context, started, handled, dropped)
  BY <1>2 DEF IInv, SlotAndQueue
<1>4. steps' = started[context.serial].steps /\ steps' \in Seq(Step)
  BY <1>1, <1>3, GenuineDecodes DEF IInv, TypeOK
<1>5. \/ /\ presented' = [serial      |-> context.serial,
                          controllers |-> Controllers(started[context.serial].steps),
                          contexts    |-> Contexts(started[context.serial].steps)]
         /\ lastShown' = context.serial
      \/ UNCHANGED <<presented, lastShown>>
  BY <1>4 DEF RunMainQueueBlock
<1>6. context.serial \in 1..Len(started) /\ context.serial > handled
  BY <1>3 DEF Genuine
<1>7. TypeOK'
  BY <1>1, <1>2, <1>4, <1>5, <1>6 DEF RunMainQueueBlock, phoneVars, IInv, TypeOK, Context
<1>8. Counters'
  BY <1>1, <1>5, <1>6 DEF IInv, TypeOK, Counters
<1>9. SlotAndQueue'
  <2>1. \A i \in 1..Len(mainQueue') :
          /\ i + 1 \in 1..Len(mainQueue)
          /\ mainQueue'[i] = mainQueue[i + 1]
    BY <1>2
  <2>2. ASSUME NEW i \in 1..Len(mainQueue')
        PROVE  Genuine(mainQueue'[i], started, handled', dropped)
    <3>1. Genuine(mainQueue[i + 1], started, handled, dropped)
      BY <2>1 DEF IInv, SlotAndQueue
    <3>2. 1 \in 1..Len(mainQueue) /\ 1 < i + 1 /\ i + 1 \in 1..Len(mainQueue)
      BY <1>2, <2>1
    <3>3. mainQueue[1].serial < mainQueue[i + 1].serial
      BY <3>2 DEF IInv, SlotAndQueue
    <3>4. mainQueue[i + 1].serial > handled'
      BY <1>1, <1>2, <1>6, <3>1, <3>3 DEF Genuine
    <3>5. QED
      BY <2>1, <3>1, <3>4 DEF Genuine
  <2>3. outbox # << >> =>
          /\ outbox[1].serial = Len(started)
          /\ Genuine(outbox[1], started, handled', dropped)
          /\ \A i \in 1..Len(mainQueue') : mainQueue'[i].serial < outbox[1].serial
    BY <1>1, <1>2, <1>6, <2>1 DEF IInv, SlotAndQueue, Genuine
  <2>4. ASSUME NEW i \in 1..Len(mainQueue'), NEW j \in 1..Len(mainQueue'), i < j
        PROVE  mainQueue'[i].serial < mainQueue'[j].serial
    BY <2>1, <2>4, i + 1 < j + 1 DEF IInv, SlotAndQueue
  <2>5. QED
    BY <1>1, <2>2, <2>3, <2>4 DEF IInv, SlotAndQueue
<1>10. LastIsSomewhere'
  <2>1. CASE Len(mainQueue) = 1
    <3>1. context.serial > dropped /\ context.serial > handled /\ Len(started) # 0
      BY <1>3, <1>6 DEF Genuine, IInv, TypeOK
    <3>2. Len(started) \notin {0, handled, dropped}
      BY <1>6, <3>1 DEF IInv, TypeOK
    <3>3. outbox # << >> \/ Len(started) = handled'
      BY <1>1, <1>2, <2>1, <3>2 DEF IInv, LastIsSomewhere
    <3>4. QED
      BY <1>1, <3>3 DEF LastIsSomewhere
  <2>2. CASE Len(mainQueue) > 1
    <3>1. mainQueue' # << >> /\ mainQueue'[Len(mainQueue')] = mainQueue[Len(mainQueue)]
      BY <1>2, <2>2
    <3>2. handled < Len(started)
      BY <1>6 DEF IInv, TypeOK
    <3>3. QED
      BY <1>1, <3>1, <3>2 DEF IInv, LastIsSomewhere
  <2>3. QED
    BY <1>2, <2>1, <2>2
<1>11. Presentation'
  BY <1>1, <1>5, <1>6 DEF IInv, Presentation
<1>12. QED
  BY <1>7, <1>8, <1>9, <1>10, <1>11 DEF IInv

(* The dismissal of the pages, and every step that leaves the contexts, the *)
(* pages and the history alone, keep it.                                    *)
LEMMA OtherStepsIInv ==
  ASSUME IInv,
         \/ PhoneLaunch
         \/ PhoneActivationDidComplete
         \/ SessionDidBecomeInactive
         \/ StartRecipeRefused
         \/ DismissAlert
         \/ PhoneTerminate
         \/ WatchLaunch
         \/ WatchActivationDidComplete
         \/ DismissPages
         \/ WatchAppInstalledChanges
         \/ UNCHANGED vars
  PROVE  IInv'
<1>1. /\ UNCHANGED <<outbox, mainQueue, steps, started, handled, lastShown, dropped>>
      /\ presented' \in {presented, Nothing}
  BY DEF PhoneLaunch, PhoneActivationDidComplete, SessionDidBecomeInactive,
         StartRecipeRefused, DismissAlert, PhoneTerminate, WatchLaunch,
         WatchActivationDidComplete, DismissPages, WatchAppInstalledChanges,
         vars, phoneVars, watchVars, historyVars
<1>2. TypeOK'
  <2>1. presented'.serial \in Nat
    BY <1>1 DEF IInv, TypeOK, Nothing
  <2>2. /\ supported'    \in BOOLEAN
        /\ installed'    \in BOOLEAN
        /\ phoneRunning' \in BOOLEAN
        /\ phoneSession' \in {"notActivated", "activating", "activated", "inactive", "failed"}
        /\ alert'        \in {"none", "Sucesso", "Erro"}
        /\ watchSession' \in {"off", "activating", "activated", "failed"}
    BY DEF IInv, TypeOK, PhoneLaunch, SetupWatchConnectivity,
           PhoneActivationDidComplete, SessionDidBecomeInactive, StartRecipeRefused, DismissAlert, PhoneTerminate, WatchLaunch,
           WatchActivationDidComplete, DismissPages, WatchAppInstalledChanges,
           vars, phoneVars, watchVars, historyVars
  <2>3. QED
    BY <1>1, <2>1, <2>2 DEF IInv, TypeOK
<1>3. Counters' /\ SlotAndQueue' /\ LastIsSomewhere'
  BY <1>1 DEF IInv, Counters, SlotAndQueue, LastIsSomewhere
<1>4. Presentation'
  BY <1>1 DEF IInv, Presentation
<1>5. QED
  BY <1>2, <1>3, <1>4 DEF IInv

(* What LastDropped returns for the queue, or for everything in flight.     *)
LEMMA LastDroppedSerial ==
  ASSUME IInv, NEW lost, lost = mainQueue \/ lost = InFlight
  PROVE  /\ LastDropped(lost) \in Nat
         /\ dropped <= LastDropped(lost)
         /\ LastDropped(lost) <= Len(started)
         /\ \/ lost = << >> /\ LastDropped(lost) = dropped
            \/ /\ lost # << >>
               /\ mainQueue # << >>
               /\ lost = mainQueue
               /\ LastDropped(lost) = mainQueue[Len(mainQueue)].serial
            \/ outbox # << >> /\ LastDropped(lost) = Len(started)
<1>1. /\ mainQueue \in Seq(Context)
      /\ outbox \in Seq(Context)
      /\ Len(started) \in Nat
      /\ dropped \in Nat
      /\ dropped <= Len(started)
  BY DEF IInv, TypeOK, Context, Counters
<1>2. CASE lost = << >>
  BY <1>1, <1>2 DEF LastDropped
<1>3. CASE lost # << >> /\ lost = mainQueue
  <2>1. Len(mainQueue) \in 1..Len(mainQueue)
    BY <1>1, <1>3
  <2>2. Genuine(mainQueue[Len(mainQueue)], started, handled, dropped)
    BY <2>1 DEF IInv, SlotAndQueue
  <2>3. QED
    BY <1>1, <1>3, <2>2 DEF LastDropped, Genuine
<1>4. CASE lost # << >> /\ lost = InFlight /\ lost # mainQueue
  <2>1. outbox # << >> /\ Len(outbox) = 1
    <3>1. outbox = << >> => InFlight = mainQueue
      BY InFlightIs DEF IInv
    <3>2. QED
      BY <1>4, <3>1 DEF IInv, SlotAndQueue
  <2>2. lost[Len(lost)] = outbox[1]
    BY <1>4, <2>1, InFlightIs DEF IInv
  <2>3. LastDropped(lost) = Len(started)
    BY <1>4, <2>1, <2>2 DEF LastDropped, IInv, SlotAndQueue
  <2>4. QED
    BY <1>1, <2>1, <2>3
<1>5. QED
  BY <1>2, <1>3, <1>4

(* The end of the watch app keeps it: its queue goes, the slot stays.       *)
LEMMA WatchTerminateIInv ==
  ASSUME IInv, WatchTerminate
  PROVE  IInv'
<1>1. /\ watchSession' = "off"
      /\ dropped' = LastDropped(mainQueue)
      /\ mainQueue' = << >>
      /\ steps' = << >>
      /\ presented' = Nothing
      /\ UNCHANGED <<phoneVars, outbox, started, handled, lastShown>>
  BY DEF WatchTerminate, WatchAppGone
<1>2. /\ dropped' \in Nat
      /\ dropped <= dropped'
      /\ dropped' <= Len(started)
      /\ \/ mainQueue = << >> /\ dropped' = dropped
         \/ mainQueue # << >> /\ dropped' = mainQueue[Len(mainQueue)].serial
         \/ outbox # << >> /\ dropped' = Len(started)
  BY <1>1, LastDroppedSerial
<1>3. TypeOK'
  <2>1. presented'.serial = 0
    BY <1>1 DEF Nothing
  <2>2. mainQueue' \in Seq([serial : Nat, data : Data]) /\ steps' \in Seq(Step)
    BY <1>1
  <2>3. QED
    BY <1>1, <1>2, <2>1, <2>2 DEF IInv, TypeOK, phoneVars
<1>4. Counters'
  BY <1>1, <1>2 DEF IInv, TypeOK, Counters
<1>5. SlotAndQueue'
  <2>1. Len(mainQueue') = 0
    BY <1>1
  <2>2. ASSUME outbox # << >>
        PROVE  outbox[1].serial > dropped'
    <3>1. CASE mainQueue # << >>
      <4>1. Len(mainQueue) \in 1..Len(mainQueue)
        BY <3>1 DEF IInv, TypeOK
      <4>2. QED
        BY <1>1, <2>2, <3>1, <4>1 DEF IInv, SlotAndQueue, LastDropped
    <3>2. CASE mainQueue = << >>
      BY <1>1, <2>2, <3>2 DEF IInv, SlotAndQueue, LastDropped, Genuine
    <3>3. QED
      BY <3>1, <3>2
  <2>3. outbox # << >> => Genuine(outbox[1], started, handled, dropped')
    BY <2>2 DEF IInv, SlotAndQueue, Genuine
  <2>4. QED
    BY <1>1, <2>1, <2>3 DEF IInv, SlotAndQueue
<1>6. LastIsSomewhere'
  BY <1>1, <1>2 DEF IInv, LastIsSomewhere, LastDropped
<1>7. Presentation'
  BY <1>1 DEF Presentation
<1>8. QED
  BY <1>3, <1>4, <1>5, <1>6, <1>7 DEF IInv

(* The pairing of another watch keeps it: all that was in flight is lost.   *)
LEMMA SessionDidDeactivateIInv ==
  ASSUME IInv, SessionDidDeactivate
  PROVE  IInv'
<1>1. /\ phoneSession' = "activating"
      /\ installed' \in BOOLEAN
      /\ dropped' = LastDropped(InFlight)
      /\ outbox' = << >>
      /\ watchSession' = "off"
      /\ mainQueue' = << >>
      /\ steps' = << >>
      /\ presented' = Nothing
      /\ UNCHANGED <<supported, phoneRunning, alert, started, handled, lastShown>>
  BY DEF SessionDidDeactivate, WatchAppGone
<1>2. /\ dropped' \in Nat
      /\ dropped <= dropped'
      /\ dropped' <= Len(started)
      /\ \/ InFlight = << >> /\ dropped' = dropped
         \/ /\ mainQueue # << >>
            /\ InFlight = mainQueue
            /\ dropped' = mainQueue[Len(mainQueue)].serial
         \/ outbox # << >> /\ dropped' = Len(started)
  BY <1>1, LastDroppedSerial
<1>3. TypeOK'
  <2>1. presented'.serial = 0
    BY <1>1 DEF Nothing
  <2>2. /\ mainQueue' \in Seq([serial : Nat, data : Data])
        /\ outbox' \in Seq([serial : Nat, data : Data])
        /\ steps' \in Seq(Step)
    BY <1>1
  <2>3. QED
    BY <1>1, <1>2, <2>1, <2>2 DEF IInv, TypeOK
<1>4. Counters'
  BY <1>1, <1>2 DEF IInv, TypeOK, Counters
<1>5. SlotAndQueue'
  <2>1. Len(mainQueue') = 0 /\ outbox' = << >>
    BY <1>1
  <2>2. QED
    BY <2>1 DEF SlotAndQueue
<1>6. LastIsSomewhere'
  <2>1. mainQueue \in Seq(Context) /\ outbox \in Seq(Context)
    BY DEF IInv, TypeOK, Context
  <2>2. CASE outbox # << >>
    <3>1. InFlight # << >> /\ InFlight # mainQueue
      <4>1. Len(InFlight) = Len(mainQueue) + Len(outbox)
        BY InFlightIs DEF IInv
      <4>2. Len(outbox) = 1 /\ Len(mainQueue) \in Nat
        BY <2>1, <2>2 DEF IInv, SlotAndQueue
      <4>3. Len(InFlight) # Len(mainQueue) /\ Len(InFlight) # 0
        BY <4>1, <4>2
      <4>4. QED
        BY <4>3
    <3>2. QED
      BY <1>1, <1>2, <3>1 DEF LastIsSomewhere
  <2>3. CASE outbox = << >>
    <3>1. InFlight = mainQueue
      BY <2>3, InFlightIs DEF IInv
    <3>2. CASE Len(started) = dropped
      <4>1. dropped' = dropped
        BY <1>2, <3>2 DEF IInv, TypeOK
      <4>2. QED
        BY <1>1, <3>2, <4>1 DEF LastIsSomewhere
    <3>3. CASE Len(started) \in {0, handled}
      BY <1>1, <3>3 DEF LastIsSomewhere
    <3>4. CASE mainQueue # << >> /\ mainQueue[Len(mainQueue)].serial = Len(started)
      BY <1>1, <1>2, <2>3, <3>1, <3>4 DEF LastIsSomewhere
    <3>5. QED
      BY <2>3, <3>2, <3>3, <3>4 DEF IInv, LastIsSomewhere
  <2>4. QED
    BY <2>2, <2>3
<1>7. Presentation'
  BY <1>1 DEF Presentation
<1>8. QED
  BY <1>3, <1>4, <1>5, <1>6, <1>7 DEF IInv

(* Every step keeps the invariant.                                          *)
LEMMA NextIInv == IInv /\ [Next]_vars => IInv'
<1> SUFFICES ASSUME IInv, [Next]_vars PROVE IInv'
  OBVIOUS
<1>1. CASE \E recipe \in Recipes : StartRecipe(recipe)
  BY <1>1, StartRecipeIInv
<1>2. CASE DidReceiveApplicationContext
  BY <1>2, DidReceiveIInv
<1>3. CASE RunMainQueueBlock
  BY <1>3, RunMainQueueBlockIInv
<1>4. CASE WatchTerminate
  BY <1>4, WatchTerminateIInv
<1>5. CASE SessionDidDeactivate
  BY <1>5, SessionDidDeactivateIInv
<1>6. QED
  BY <1>1, <1>2, <1>3, <1>4, <1>5, OtherStepsIInv DEF Next

(* The invariant holds throughout.                                          *)
THEOREM TransferInvariant == Spec => []IInv
<1>1. QED
  BY InitIInv, NextIInv, PTL DEF Spec

-----------------------------------------------------------------------------
(* The types of the variables, for any recipes and any number of taps.      *)
THEOREM TypeCorrect == Spec => []TypeOK
<1>1. IInv => TypeOK
  BY DEF IInv
<1>2. QED
  BY <1>1, TransferInvariant, PTL

(* Whatever happens to the slot, the queues, the sessions and the two apps, *)
(* the pages on the watch are those of one recipe started, whole.           *)
THEOREM ShowsOneRecipe == Spec => []ShownOneRecipe
<1>1. IInv => ShownOneRecipe
  BY DEF IInv, Presentation, ShownOneRecipe, RecipePages, Nothing
<1>2. QED
  BY <1>1, TransferInvariant, PTL

(* What is in flight is in the order of the taps and newer than what the    *)
(* watch last ran.                                                          *)
THEOREM StaysInOrder == Spec => []InFlightInOrder
<1>1. ASSUME IInv
      PROVE  InFlightInOrder
  <2>1. mainQueue \in Seq(Context) /\ outbox \in Seq(Context)
    BY <1>1 DEF IInv, TypeOK, Context
  <2>2. Len(InFlight) = Len(mainQueue) + Len(outbox)
    BY <1>1, InFlightIs DEF IInv
  <2>3. Len(outbox) = (IF outbox = << >> THEN 0 ELSE 1) /\ Len(mainQueue) \in Nat
    BY <1>1, <2>1 DEF IInv, SlotAndQueue
  <2>4. ASSUME NEW i \in 1..Len(InFlight)
        PROVE  \/ i \in 1..Len(mainQueue) /\ InFlight[i] = mainQueue[i]
               \/ outbox # << >> /\ i = Len(mainQueue) + 1 /\ InFlight[i] = outbox[1]
    BY <1>1, <2>2, <2>3, InFlightIs DEF IInv
  <2>5. \A i \in 1..Len(InFlight) : InFlight[i].serial > handled
    BY <1>1, <2>4 DEF IInv, SlotAndQueue, Genuine
  <2>6. ASSUME NEW i \in 1..Len(InFlight), NEW j \in 1..Len(InFlight), i < j
        PROVE  InFlight[i].serial < InFlight[j].serial
    <3>1. i \in 1..Len(mainQueue) /\ InFlight[i] = mainQueue[i]
      BY <2>2, <2>3, <2>4, <2>6
    <3>2. CASE j \in 1..Len(mainQueue) /\ InFlight[j] = mainQueue[j]
      BY <1>1, <2>6, <3>1, <3>2 DEF IInv, SlotAndQueue
    <3>3. CASE outbox # << >> /\ InFlight[j] = outbox[1]
      BY <1>1, <3>1, <3>3 DEF IInv, SlotAndQueue
    <3>4. QED
      BY <2>4, <3>2, <3>3
  <2>7. outbox # << >> => outbox[1].serial = Len(started)
    BY <1>1 DEF IInv, SlotAndQueue
  <2>8. QED
    BY <2>5, <2>6, <2>7 DEF InFlightInOrder
<1>2. QED
  BY <1>1, TransferInvariant, PTL

(* The recipe behind the last "Sucesso" is on its way, has been run by the  *)
(* watch, or went with a watch app that ended or a watch unpaired.          *)
THEOREM NeverVanishes == Spec => []LastStartAccountedFor
<1>1. ASSUME IInv
      PROVE  LastStartAccountedFor
  <2>1. mainQueue \in Seq(Context) /\ outbox \in Seq(Context)
    BY <1>1 DEF IInv, TypeOK, Context
  <2>2. CASE Len(started) \in {0, handled, dropped}
    BY <1>1, <2>2 DEF LastStartAccountedFor, IInv, TypeOK
  <2>3. CASE outbox # << >>
    <3>1. Len(outbox) = 1 /\ outbox[1].serial = Len(started)
      BY <1>1, <2>3 DEF IInv, SlotAndQueue
    <3>2. /\ Len(mainQueue) + 1 \in 1..Len(InFlight)
          /\ InFlight[Len(mainQueue) + 1] = outbox[1]
      BY <1>1, <2>1, <2>3, <3>1, InFlightIs DEF IInv
    <3>3. QED
      BY <3>1, <3>2 DEF LastStartAccountedFor
  <2>4. CASE mainQueue # << >> /\ mainQueue[Len(mainQueue)].serial = Len(started)
    <3>1. /\ Len(mainQueue) \in 1..Len(InFlight)
          /\ InFlight[Len(mainQueue)] = mainQueue[Len(mainQueue)]
      BY <1>1, <2>1, <2>4, InFlightIs DEF IInv
    <3>2. QED
      BY <2>4, <3>1 DEF LastStartAccountedFor
  <2>5. QED
    BY <1>1, <2>2, <2>3, <2>4 DEF IInv, LastIsSomewhere
<1>2. QED
  BY <1>1, TransferInvariant, PTL

-----------------------------------------------------------------------------
(* A block of the watch's main queue shows a newer recipe, or nothing       *)
(* changes on the watch.                                                    *)
LEMMA BlockShows ==
  ASSUME IInv, RunMainQueueBlock
  PROVE  [Handoff!Next]_(Handoff!vars)
<1> DEFINE context == Head(mainQueue)
<1>1. /\ mainQueue # << >>
      /\ steps' = decodeInWatch(context.data)
      /\ UNCHANGED started
  BY DEF RunMainQueueBlock
<1>2. Genuine(context, started, handled, dropped)
  <2>1. context = mainQueue[1] /\ 1 \in 1..Len(mainQueue)
    BY <1>1 DEF IInv, TypeOK
  <2>2. QED
    BY <2>1 DEF IInv, SlotAndQueue
<1>3. steps' = started[context.serial].steps
  BY <1>1, <1>2, GenuineDecodes DEF IInv, TypeOK
<1>4. context.serial \in 1..Len(started) /\ context.serial > lastShown
  BY <1>2 DEF Genuine, IInv, TypeOK, Counters
<1>5. CASE UNCHANGED <<presented, lastShown>>
  BY <1>1, <1>5 DEF Handoff!vars, Screen
<1>6. CASE /\ presented' = [serial      |-> context.serial,
                            controllers |-> Controllers(steps'),
                            contexts    |-> Contexts(steps')]
           /\ lastShown' = context.serial
  <2>1. Screen' = RecipePages(started[context.serial])
    BY <1>3, <1>4, <1>6 DEF Screen, RecipePages, IInv, TypeOK
  <2>2. Handoff!Show(context.serial)
    BY <1>1, <1>4, <1>6, <2>1 DEF Handoff!Show
  <2>3. QED
    BY <1>4, <2>2 DEF Handoff!Next
<1>7. QED
  BY <1>5, <1>6 DEF RunMainQueueBlock

(* Every other step starts a recipe, blanks the watch, or stutters.         *)
LEMMA StepHandsOff ==
  ASSUME IInv, [Next]_vars
  PROVE  [Handoff!Next]_(Handoff!vars)
<1>1. CASE \E recipe \in Recipes : StartRecipe(recipe)
  BY <1>1 DEF StartRecipe, watchVars, Screen, Handoff!Next, Handoff!Choose
<1>2. CASE RunMainQueueBlock
  BY <1>2, BlockShows
<1>3. CASE DismissPages \/ WatchTerminate \/ SessionDidDeactivate
  <2>1. presented' = Nothing /\ UNCHANGED <<started, lastShown>>
    BY <1>3 DEF DismissPages, WatchTerminate, SessionDidDeactivate, WatchAppGone, historyVars
  <2>2. Screen' = Nothing
    BY <2>1 DEF Screen, Nothing
  <2>3. QED
    BY <2>1, <2>2 DEF Handoff!Next, Handoff!Clear
<1>4. CASE UNCHANGED <<presented, started, lastShown>>
  BY <1>4 DEF Handoff!vars, Screen
<1>5. QED
  BY <1>1, <1>2, <1>3, <1>4
     DEF Next, PhoneLaunch, PhoneActivationDidComplete, SessionDidBecomeInactive,
         StartRecipeRefused, DismissAlert, PhoneTerminate, WatchLaunch,
         WatchActivationDidComplete, DidReceiveApplicationContext,
         WatchAppInstalledChanges, vars, watchVars, historyVars

(* The path of a recipe, with its slot, its queues, its sessions and its    *)
(* restarts, implements RecipeHandoff.                                      *)
THEOREM HandoffImplemented == Spec => ImplementsHandoff
<1>1. Init => Handoff!Init
  BY DEF Init, Handoff!Init, Screen, Nothing
<1>2. QED
  BY <1>1, StepHandsOff, TransferInvariant, PTL DEF Spec, ImplementsHandoff, Handoff!Spec

-----------------------------------------------------------------------------
(* A set of naturals has a least one.                                       *)
NatBefore == {pair \in Nat \X Nat : pair[1] < pair[2]}

LEMMA LeastNumber ==
  ASSUME NEW T, T \subseteq Nat, T # {}
  PROVE  \E m \in T : \A n \in T : m <= n
<1>1. IsWellFoundedOn(NatBefore, Nat)
  BY NatLessThanWellFounded DEF OpToRel, NatBefore
<1>2. PICK m \in T : \A n \in T : <<n, m>> \notin NatBefore
  BY <1>1, WFMin
<1>3. ASSUME NEW n \in T PROVE m <= n
  <2>1. <<n, m>> \in Nat \X Nat /\ <<n, m>>[1] = n /\ <<n, m>>[2] = m
    OBVIOUS
  <2>2. ~(n < m)
    BY <1>2, <2>1 DEF NatBefore
  <2>3. QED
    BY <2>2
<1>4. QED
  BY <1>3

(* The loop that appends the pieces one after the other: what it has built  *)
(* after each of them.                                                      *)
AppendsPieces(f, pieces, m, S) ==
  /\ f[1] = pieces[1]
  /\ \A i \in 2..m : f[i] = f[i - 1] \o pieces[i]
  /\ \A i \in 1..m : f[i] \in Seq(S)

LEMMA PiecesAppended ==
  ASSUME NEW S, NEW n \in Nat \ {0}, NEW pieces \in Seq(Seq(S)), Len(pieces) = n
  PROVE  \E f : AppendsPieces(f, pieces, n, S) /\ FlattenSeq(pieces) = f[n]
<1>. DEFINE Bad == {m \in 1..n : \A f : ~AppendsPieces(f, pieces, m, S)}
<1>0. \A i \in 1..n : pieces[i] \in Seq(S)
  OBVIOUS
<1>1. Bad = {}
  <2>1. SUFFICES ASSUME Bad # {} PROVE FALSE
    OBVIOUS
  <2>2. PICK m \in Bad : \A k \in Bad : m <= k
    <3>1. Bad \subseteq Nat
      OBVIOUS
    <3>. HIDE DEF Bad
    <3>2. QED
      BY <2>1, <3>1, LeastNumber
  <2>3. m \in 1..n /\ \A f : ~AppendsPieces(f, pieces, m, S)
    OBVIOUS
  <2>4. CASE m = 1
    <3>. DEFINE f == [i \in 1..1 |-> pieces[1]]
    <3>1. AppendsPieces(f, pieces, 1, S)
      BY <1>0 DEF AppendsPieces
    <3>2. QED
      BY <2>3, <2>4, <3>1
  <2>5. CASE m # 1
    <3>1. m - 1 \in 1..n /\ m - 1 \notin Bad
      BY <2>2, <2>3, <2>5
    <3>2. PICK g : AppendsPieces(g, pieces, m - 1, S)
      BY <3>1
    <3>. DEFINE f == [i \in 1..m |-> IF i < m THEN g[i] ELSE g[m - 1] \o pieces[m]]
    <3>3. f[m] = f[m - 1] \o pieces[m] /\ f[m] \in Seq(S)
      <4>1. g[m - 1] \in Seq(S) /\ pieces[m] \in Seq(S)
        BY <1>0, <2>3, <3>1, <3>2 DEF AppendsPieces
      <4>2. f[m] = g[m - 1] \o pieces[m] /\ f[m - 1] = g[m - 1]
        BY <2>3, <3>1
      <4>3. \A s, t \in Seq(S) : s \o t \in Seq(S)
        OBVIOUS
      <4>. HIDE DEF f
      <4>4. QED
        BY <4>1, <4>2, <4>3, Zenon
    <3>4. \A i \in 1..(m - 1) : f[i] = g[i]
      BY <2>3
    <3>. HIDE DEF f
    <3>5. \A i \in 2..m : f[i] = f[i - 1] \o pieces[i]
      <4>1. \A i \in 2..(m - 1) : i \in 1..(m - 1) /\ i - 1 \in 1..(m - 1)
        BY <2>3
      <4>2. \A i \in 2..m : i = m \/ i \in 2..(m - 1)
        BY <2>3
      <4>3. QED
        BY <3>2, <3>3, <3>4, <4>1, <4>2 DEF AppendsPieces
    <3>6. \A i \in 1..m : f[i] \in Seq(S)
      <4>1. \A i \in 1..m : i = m \/ i \in 1..(m - 1)
        BY <2>3
      <4>2. QED
        BY <3>2, <3>3, <3>4, <4>1 DEF AppendsPieces
    <3>7. f[1] = pieces[1]
      BY <3>1, <3>2, <3>4 DEF AppendsPieces
    <3>8. QED
      BY <2>3, <3>5, <3>6, <3>7 DEF AppendsPieces
  <2>6. QED
    BY <2>4, <2>5
<1>2. PICK g : AppendsPieces(g, pieces, n, S)
  <2>1. n \in 1..n
    OBVIOUS
  <2>2. n \notin Bad
    BY <1>1, Zenon
  <2>3. \E f : AppendsPieces(f, pieces, n, S)
    BY <2>1, <2>2, Zenon
  <2>4. QED
    BY <2>3
<1>. DEFINE Solves(f) == f = [i \in 1..n |-> IF i = 1 THEN pieces[i] ELSE f[i - 1] \o pieces[i]]
            flat == CHOOSE f : Solves(f)
<1>3. Solves(flat)
  <2>. DEFINE f == [i \in 1..n |-> g[i]]
  <2>1. Solves(f)
    <3>1. \A i \in 1..n : f[i] = IF i = 1 THEN pieces[i] ELSE f[i - 1] \o pieces[i]
      <4>1. f[1] = pieces[1]
        BY <1>2 DEF AppendsPieces
      <4>2. ASSUME NEW i \in 2..n PROVE f[i] = f[i - 1] \o pieces[i]
        <5>1. i \in 1..n /\ i - 1 \in 1..n
          OBVIOUS
        <5>2. QED
          BY <1>2, <5>1 DEF AppendsPieces
      <4>. HIDE DEF f
      <4>3. \A i \in 1..n : i = 1 \/ i \in 2..n
        OBVIOUS
      <4>4. QED
        BY <4>1, <4>2, <4>3
    <3>2. f = [i \in 1..n |-> f[i]]
      OBVIOUS
    <3>. HIDE DEF f
    <3>3. QED
      BY <3>1, <3>2
  <2>. HIDE DEF Solves
  <2>2. QED
    BY <2>1
<1>4. FlattenSeq(pieces) = flat[n]
  BY DEF FlattenSeq
<1>5. flat = [i \in 1..n |-> IF i = 1 THEN pieces[i] ELSE flat[i - 1] \o pieces[i]]
  BY <1>3 DEF Solves
<1>. HIDE DEF flat
<1>6. flat[1] = pieces[1] /\ \A i \in 2..n : flat[i] = flat[i - 1] \o pieces[i]
  <2>1. 1 \in 1..n /\ \A i \in 2..n : i \in 1..n /\ i # 1
    OBVIOUS
  <2>2. \A i \in 1..n : flat[i] = IF i = 1 THEN pieces[i] ELSE flat[i - 1] \o pieces[i]
    BY <1>5, Zenon
  <2>3. QED
    BY <2>1, <2>2
<1>. DEFINE Off == {m \in 1..n : flat[m] # g[m]}
<1>7. Off = {}
  <2>1. SUFFICES ASSUME Off # {} PROVE FALSE
    OBVIOUS
  <2>2. PICK m \in Off : \A k \in Off : m <= k
    <3>1. Off \subseteq Nat
      OBVIOUS
    <3>. HIDE DEF Off
    <3>2. QED
      BY <2>1, <3>1, LeastNumber
  <2>3. m # 1
    BY <1>2, <1>6 DEF AppendsPieces
  <2>4. m \in 2..n /\ m - 1 \notin Off /\ m - 1 \in 1..n
    BY <2>2, <2>3
  <2>5. flat[m - 1] = g[m - 1]
    BY <2>4
  <2>6. flat[m] = g[m]
    BY <1>2, <1>6, <2>4, <2>5 DEF AppendsPieces
  <2>7. QED
    BY <2>6
<1>8. QED
  BY <1>2, <1>4, <1>7

(* How many pieces there are, and where each of them is: every item has its *)
(* first piece, and those of two have the second right after it.            *)
Earlier(chosen, i) == {j \in chosen : j < i}
PlaceOf(chosen, i) == i + Cardinality(Earlier(chosen, i))

LEMMA PlacesGrow ==
  ASSUME NEW n \in Nat, NEW chosen, chosen \subseteq 1..n, NEW i \in 1..n
  PROVE  /\ Cardinality(Earlier(chosen, i)) \in Nat /\ PlaceOf(chosen, i) \in Nat
         /\ PlaceOf(chosen, 1) = 1
         /\ i \in chosen => PlaceOf(chosen, i + 1) = PlaceOf(chosen, i) + 2
         /\ i \notin chosen => PlaceOf(chosen, i + 1) = PlaceOf(chosen, i) + 1
<1>0. \A j \in chosen : j \in Int /\ 1 <= j
  OBVIOUS
<1>1. \A k : IsFiniteSet(Earlier(chosen, k))
  <2>1. 1 \in Int /\ n \in Int
    OBVIOUS
  <2>2. IsFiniteSet(1..n)
    BY <2>1, FS_Interval
  <2>3. \A k : Earlier(chosen, k) \subseteq 1..n
    BY DEF Earlier
  <2>4. QED
    BY <2>2, <2>3, FS_Subset
<1>2. Cardinality(Earlier(chosen, i)) \in Nat
  BY <1>1, FS_CardinalityType
<1>3. Earlier(chosen, 1) = {}
  <2>1. \A j \in chosen : ~(j < 1)
    BY <1>0
  <2>2. QED
    BY <2>1 DEF Earlier
<1>4. PlaceOf(chosen, 1) = 1
  BY <1>3, FS_EmptySet DEF PlaceOf
<1>5. CASE i \in chosen
  <2>1. Earlier(chosen, i + 1) = Earlier(chosen, i) \union {i} /\ i \notin Earlier(chosen, i)
    <3>1. \A j \in chosen : (j < i + 1 <=> j < i \/ j = i) /\ ~(i < i)
      BY <1>0
    <3>2. QED
      BY <1>5, <3>1 DEF Earlier
  <2>2. Cardinality(Earlier(chosen, i + 1)) = Cardinality(Earlier(chosen, i)) + 1
    BY <1>1, <2>1, FS_AddElement
  <2>3. QED
    BY <1>2, <1>4, <1>5, <2>2 DEF PlaceOf
<1>6. CASE i \notin chosen
  <2>1. Earlier(chosen, i + 1) = Earlier(chosen, i)
    <3>1. \A j \in chosen : j # i /\ (j < i + 1 <=> j < i)
      BY <1>0, <1>6
    <3>2. QED
      BY <3>1 DEF Earlier
  <2>2. QED
    BY <1>2, <1>4, <1>6, <2>1 DEF PlaceOf
<1>7. QED
  BY <1>5, <1>6

(* What the loop adds for each step: one thing, or two if it is chosen.    *)
OneOrTwo(n, chosen, one, two) == [i \in 1..n |-> IF i \in chosen THEN <<one[i], two[i]>> ELSE <<one[i]>>]

InPlace(flat, n, chosen, one, two) ==
    /\ Len(flat) = n + Cardinality(chosen)
    /\ \A i \in 1..n : flat[PlaceOf(chosen, i)] = one[i]
    /\ \A i \in chosen : flat[PlaceOf(chosen, i) + 1] = two[i]

LEMMA PiecesInPlace ==
  ASSUME NEW n \in Nat, NEW chosen \in SUBSET (1..n), NEW one, NEW two
  PROVE  InPlace(FlattenSeq(OneOrTwo(n, chosen, one, two)), n, chosen, one, two)
<1>. DEFINE pieces == OneOrTwo(n, chosen, one, two)
<1>1. pieces = [i \in 1..n |-> IF i \in chosen THEN <<one[i], two[i]>> ELSE <<one[i]>>] /\ chosen \subseteq 1..n
  BY DEF OneOrTwo
<1>. HIDE DEF pieces
<1>. USE <1>1
<1>. DEFINE S == {one[i] : i \in 1..n} \union {two[i] : i \in 1..n}
<1>2. (\A i \in 1..n : one[i] \in S) /\ \A i \in chosen : two[i] \in S
  OBVIOUS
<1>. HIDE DEF S
<1>3. ASSUME NEW i \in 1..n
      PROVE  /\ PlaceOf(chosen, i) \in Nat /\ PlaceOf(chosen, 1) = 1
             /\ PlaceOf(chosen, i + 1) = PlaceOf(chosen, i) + (IF i \in chosen THEN 2 ELSE 1)
  <2>1. PlaceOf(chosen, i) \in Nat
    BY PlacesGrow
  <2>2. PlaceOf(chosen, 1) = 1
    BY PlacesGrow
  <2>3. /\ i \in chosen => PlaceOf(chosen, i + 1) = PlaceOf(chosen, i) + 2
        /\ i \notin chosen => PlaceOf(chosen, i + 1) = PlaceOf(chosen, i) + 1
    BY PlacesGrow
  <2>4. QED
    BY <2>1, <2>2, <2>3
<1>4. pieces \in Seq(Seq(S)) /\ Len(pieces) = n
  <2>1. \A i \in 1..n : pieces[i] \in Seq(S)
    BY <1>2
  <2>2. pieces = [i \in 1..n |-> pieces[i]]
    OBVIOUS
  <2>3. pieces \in [1..n -> Seq(S)]
    BY <2>1, <2>2, Zenon
  <2>4. \A T, g : g \in [1..n -> T] => g \in Seq(T) /\ Len(g) = n
    OBVIOUS
  <2>5. QED
    BY <2>3, <2>4, Zenon
<1>5. ASSUME n = 0
      PROVE  /\ Len(FlattenSeq(pieces)) = n + Cardinality(chosen)
             /\ \A i \in 1..n : FlattenSeq(pieces)[PlaceOf(chosen, i)] = one[i]
             /\ \A i \in chosen : FlattenSeq(pieces)[PlaceOf(chosen, i) + 1] = two[i]
  <2>0. chosen = {}
    BY <1>5
  <2>1. chosen = {} /\ Cardinality(chosen) = 0 /\ Len(pieces) = 0
    BY <1>4, <1>5, <2>0, FS_EmptySet
  <2>2. FlattenSeq(pieces) = pieces
    BY <2>1 DEF FlattenSeq
  <2>3. QED
    BY <1>5, <2>1, <2>2
<1>6. ASSUME n # 0
      PROVE  /\ Len(FlattenSeq(pieces)) = n + Cardinality(chosen)
             /\ \A i \in 1..n : FlattenSeq(pieces)[PlaceOf(chosen, i)] = one[i]
             /\ \A i \in chosen : FlattenSeq(pieces)[PlaceOf(chosen, i) + 1] = two[i]
  <2>1. PICK f : AppendsPieces(f, pieces, n, S) /\ FlattenSeq(pieces) = f[n]
    BY <1>4, <1>6, PiecesAppended
  <2>. DEFINE Right(m) == /\ Len(f[m]) = PlaceOf(chosen, m + 1) - 1
                          /\ \A i \in 1..m : /\ PlaceOf(chosen, i) \in 1..Len(f[m])
                                             /\ f[m][PlaceOf(chosen, i)] = one[i]
                          /\ \A i \in chosen : i <= m => /\ PlaceOf(chosen, i) + 1 \in 1..Len(f[m])
                                                         /\ f[m][PlaceOf(chosen, i) + 1] = two[i]
              Bad == {m \in 1..n : ~Right(m)}
  <2>2. ASSUME NEW i \in 1..n
        PROVE  /\ PlaceOf(chosen, i) \in Nat /\ PlaceOf(chosen, 1) = 1
               /\ PlaceOf(chosen, i + 1) = PlaceOf(chosen, i) + (IF i \in chosen THEN 2 ELSE 1)
    BY <1>3
  <2>3. ASSUME NEW m \in 1..n
        PROVE  /\ Len(pieces[m]) = (IF m \in chosen THEN 2 ELSE 1) /\ pieces[m] \in Seq(S)
               /\ pieces[m][1] = one[m] /\ (m \in chosen => pieces[m][2] = two[m])
    BY <1>2
  <2>4. ASSUME NEW m \in 1..n, m = 1 \/ Right(m - 1) PROVE Right(m)
    <3>. DEFINE before == IF m = 1 THEN << >> ELSE f[m - 1]
    <3>1. before \in Seq(S) /\ f[m] = before \o pieces[m] /\ f[m] \in Seq(S)
          /\ Len(before) = PlaceOf(chosen, m) - 1
          /\ \A i \in 1..(m - 1) : /\ PlaceOf(chosen, i) \in 1..Len(before)
                                   /\ before[PlaceOf(chosen, i)] = one[i]
          /\ \A c \in chosen : c < m => /\ PlaceOf(chosen, c) + 1 \in 1..Len(before)
                                        /\ before[PlaceOf(chosen, c) + 1] = two[c]
      <4>1. CASE m = 1
        <5>1. before = << >> /\ f[1] = pieces[1] /\ f[1] \in Seq(S)
          BY <2>1, <4>1 DEF AppendsPieces
        <5>2. << >> \o pieces[1] = pieces[1]
          BY <2>3, <4>1
        <5>3. \A i \in chosen : ~(i < 1)
          OBVIOUS
        <5>. HIDE DEF before
        <5>4. /\ before \in Seq(S) /\ f[m] = before \o pieces[m] /\ f[m] \in Seq(S) /\ Len(before) = 0
          BY <4>1, <5>1, <5>2
        <5>5. PlaceOf(chosen, m) - 1 = 0
          BY <2>2, <4>1
        <5>6. QED
          BY <4>1, <5>3, <5>4, <5>5
      <4>2. CASE m # 1
        <5>1. m - 1 \in 1..n /\ m \in 2..n /\ (m - 1) + 1 = m
          BY <4>2
        <5>2. f[m] = f[m - 1] \o pieces[m] /\ f[m] \in Seq(S) /\ f[m - 1] \in Seq(S) /\ before = f[m - 1]
          BY <2>1, <4>2, <5>1 DEF AppendsPieces
        <5>3. Right(m - 1)
          BY <2>4, <4>2
        <5>4. \A i \in chosen : i < m => i <= m - 1
          OBVIOUS
        <5>. HIDE DEF before
        <5>5. QED
          BY <5>1, <5>2, <5>3, <5>4
      <4>3. QED
        BY <4>1, <4>2
    <3>. HIDE DEF before
    <3>2. /\ Len(f[m]) = Len(before) + Len(pieces[m])
          /\ \A k \in 1..Len(before) : f[m][k] = before[k] /\ k \in 1..Len(f[m])
          /\ \A k \in 1..Len(pieces[m]) : f[m][Len(before) + k] = pieces[m][k] /\ Len(before) + k \in 1..Len(f[m])
      BY <2>3, <3>1
    <3>3. Len(f[m]) = PlaceOf(chosen, m + 1) - 1
      BY <2>2, <2>3, <3>1, <3>2
    <3>4. f[m][PlaceOf(chosen, m)] = one[m] /\ PlaceOf(chosen, m) \in 1..Len(f[m])
      <4>1. 1 \in 1..Len(pieces[m]) /\ Len(before) + 1 = PlaceOf(chosen, m)
        BY <2>2, <2>3, <3>1
      <4>2. QED
        BY <2>3, <3>2, <4>1
    <3>5. m \in chosen => f[m][PlaceOf(chosen, m) + 1] = two[m] /\ PlaceOf(chosen, m) + 1 \in 1..Len(f[m])
      <4>1. m \in chosen => 2 \in 1..Len(pieces[m]) /\ Len(before) + 2 = PlaceOf(chosen, m) + 1
        BY <2>2, <2>3, <3>1
      <4>2. QED
        BY <2>3, <3>2, <4>1
    <3>6. ASSUME NEW i \in 1..m PROVE PlaceOf(chosen, i) \in 1..Len(f[m]) /\ f[m][PlaceOf(chosen, i)] = one[i]
      <4>1. i = m \/ i \in 1..(m - 1)
        OBVIOUS
      <4>2. QED
        BY <3>1, <3>2, <3>4, <4>1
    <3>7. ASSUME NEW i \in chosen, i <= m
          PROVE  PlaceOf(chosen, i) + 1 \in 1..Len(f[m]) /\ f[m][PlaceOf(chosen, i) + 1] = two[i]
      <4>1. i \in Int /\ (i = m \/ i < m)
        BY <3>7
      <4>2. CASE i = m
        BY <3>5, <4>2
      <4>3. CASE i < m
        <5>. DEFINE k == PlaceOf(chosen, i) + 1
        <5>1. k \in 1..Len(before) /\ before[k] = two[i]
          BY <3>1, <4>3
        <5>. HIDE DEF k
        <5>2. f[m][k] = two[i] /\ k \in 1..Len(f[m])
          BY <3>2, <5>1
        <5>3. QED
          BY <5>2 DEF k
      <4>4. QED
        BY <4>1, <4>2, <4>3
    <3>8. QED
      BY <3>3, <3>6, <3>7
  <2>5. Bad = {}
    <3>1. SUFFICES ASSUME Bad # {} PROVE FALSE
      OBVIOUS
    <3>2. PICK m \in Bad : \A k \in Bad : m <= k
      <4>1. Bad \subseteq Nat
        OBVIOUS
      <4>. HIDE DEF Bad
      <4>2. QED
        BY <3>1, <4>1, LeastNumber
    <3>. HIDE DEF Right
    <3>3. m \in 1..n /\ ~Right(m)
      OBVIOUS
    <3>4. m # 1 => m - 1 \in 1..n /\ ~(m <= m - 1)
      BY <3>3
    <3>5. m # 1 => Right(m - 1)
      BY <3>2, <3>4
    <3>6. QED
      BY <2>4, <3>3, <3>5
  <2>6. Right(n)
    <3>. HIDE DEF Right
    <3>1. n \in 1..n /\ n \notin Bad
      BY <1>6, <2>5
    <3>2. QED
      BY <3>1
  <2>7. PlaceOf(chosen, n + 1) = n + 1 + Cardinality(chosen) /\ Cardinality(chosen) \in Nat
    <3>1. Earlier(chosen, n + 1) = chosen
      <4>1. \A j \in chosen : j < n + 1
        OBVIOUS
      <4>2. QED
        BY <4>1 DEF Earlier
    <3>2. IsFiniteSet(1..n)
      BY FS_Interval
    <3>3. QED
      BY <3>1, <3>2, FS_Subset, FS_CardinalityType DEF PlaceOf
  <2>8. Len(f[n]) = n + Cardinality(chosen)
    BY <2>6, <2>7
  <2>9. \A i \in chosen : i <= n
    OBVIOUS
  <2>10. QED
    BY <2>1, <2>6, <2>8, <2>9
<1>7. /\ Len(FlattenSeq(pieces)) = n + Cardinality(chosen)
      /\ \A i \in 1..n : FlattenSeq(pieces)[PlaceOf(chosen, i)] = one[i]
      /\ \A i \in chosen : FlattenSeq(pieces)[PlaceOf(chosen, i) + 1] = two[i]
  BY <1>5, <1>6
<1>8. QED
  BY <1>7 DEF pieces, InPlace

(* The two arrays of a recipe are as long as it has pages, and pair up.     *)
LEMMA PagesInStep ==
  ASSUME NEW s \in Seq(Step),
         NEW timed, timed = {j \in 1..Len(s) : s[j].time # NoTime}
  PROVE  /\ Len(Controllers(s)) = Len(s) + Cardinality(timed)
         /\ Len(Contexts(s)) = Len(s) + Cardinality(timed)
         /\ \A i \in 1..Len(s) : /\ Controllers(s)[PlaceOf(timed, i)] = "StepInterfaceController"
                                 /\ Contexts(s)[PlaceOf(timed, i)] = s[i].text
         /\ \A i \in timed : /\ Controllers(s)[PlaceOf(timed, i) + 1] = "TimerInterfaceController"
                             /\ Contexts(s)[PlaceOf(timed, i) + 1] = Decimal(s[i].time)
<1>. DEFINE n      == Len(s)
            step   == [i \in 1..n |-> "StepInterfaceController"]
            timer  == [i \in 1..n |-> "TimerInterfaceController"]
            text   == [i \in 1..n |-> s[i].text]
            time   == [i \in 1..n |-> Decimal(s[i].time)]
<1>1. n \in Nat /\ timed \in SUBSET (1..n)
  OBVIOUS
<1>2. Controllers(s) = FlattenSeq(OneOrTwo(n, timed, step, timer))
  <2>1. [i \in 1..Len(s) |-> IF s[i].time = NoTime THEN <<"StepInterfaceController">>
                                                   ELSE <<"StepInterfaceController", "TimerInterfaceController">>]
        = OneOrTwo(n, timed, step, timer)
    BY DEF OneOrTwo
  <2>2. QED
    BY <2>1, Zenon DEF Controllers
<1>3. Contexts(s) = FlattenSeq(OneOrTwo(n, timed, text, time))
  <2>1. [i \in 1..Len(s) |-> IF s[i].time = NoTime THEN <<s[i].text>> ELSE <<s[i].text, Decimal(s[i].time)>>]
        = OneOrTwo(n, timed, text, time)
    BY DEF OneOrTwo
  <2>2. QED
    BY <2>1, Zenon DEF Contexts
<1>4. \A i \in 1..n : step[i] = "StepInterfaceController" /\ timer[i] = "TimerInterfaceController"
                      /\ text[i] = s[i].text /\ time[i] = Decimal(s[i].time)
  OBVIOUS
<1>5. \A i \in timed : i \in 1..n
  OBVIOUS
<1>. HIDE DEF n, step, timer, text, time
<1>6. ASSUME NEW one, NEW two
      PROVE  /\ Len(FlattenSeq(OneOrTwo(n, timed, one, two))) = n + Cardinality(timed)
             /\ \A i \in 1..n : FlattenSeq(OneOrTwo(n, timed, one, two))[PlaceOf(timed, i)] = one[i]
             /\ \A i \in timed : FlattenSeq(OneOrTwo(n, timed, one, two))[PlaceOf(timed, i) + 1] = two[i]
  <2>1. InPlace(FlattenSeq(OneOrTwo(n, timed, one, two)), n, timed, one, two)
    BY <1>1, PiecesInPlace
  <2>2. QED
    BY <2>1, Zenon DEF InPlace
<1>7. QED
  BY <1>2, <1>3, <1>4, <1>5, <1>6 DEF n

(* The pages on the watch follow the steps of the recipe, one or two each,  *)
(* for recipes of any length.                                               *)
THEOREM PagesAreInStep == Spec => []PagesFollowSteps
<1>1. ASSUME IInv
      PROVE  PagesFollowSteps
  <2>1. SUFFICES ASSUME presented.serial # 0 PROVE PagesFollowSteps
    BY DEF PagesFollowSteps
  <2>. DEFINE s == started[presented.serial].steps
              timed == {j \in 1..Len(s) : s[j].time # NoTime}
  <2>2. presented # Nothing
    BY <2>1 DEF Nothing
  <2>3. /\ presented.serial \in 1..Len(started)
        /\ presented.controllers = Controllers(s) /\ presented.contexts = Contexts(s)
    BY <1>1, <2>2 DEF IInv, Presentation
  <2>4. s \in Seq(Step)
    BY <1>1, <2>3, RecipesAssumption DEF IInv, TypeOK
  <2>5. \A i : PlaceOf(timed, i) = i + Cardinality({j \in timed : j < i})
    BY DEF PlaceOf, Earlier
  <2>. HIDE DEF s
  <2>6. /\ Len(Controllers(s)) = Len(s) + Cardinality(timed)
        /\ Len(Contexts(s)) = Len(s) + Cardinality(timed)
        /\ \A i \in 1..Len(s) : /\ Controllers(s)[PlaceOf(timed, i)] = "StepInterfaceController"
                                /\ Contexts(s)[PlaceOf(timed, i)] = s[i].text
        /\ \A i \in timed : /\ Controllers(s)[PlaceOf(timed, i) + 1] = "TimerInterfaceController"
                            /\ Contexts(s)[PlaceOf(timed, i) + 1] = Decimal(s[i].time)
    BY <2>4, PagesInStep
  <2>. HIDE DEF timed
  <2>7. /\ Len(presented.controllers) = Len(s) + Cardinality(timed)
        /\ Len(presented.contexts) = Len(s) + Cardinality(timed)
        /\ \A i \in 1..Len(s) : /\ presented.controllers[i + Cardinality({j \in timed : j < i})] = "StepInterfaceController"
                                /\ presented.contexts[i + Cardinality({j \in timed : j < i})] = s[i].text
        /\ \A i \in timed : /\ presented.controllers[i + Cardinality({j \in timed : j < i}) + 1] = "TimerInterfaceController"
                            /\ presented.contexts[i + Cardinality({j \in timed : j < i}) + 1] = Decimal(s[i].time)
    BY <2>3, <2>5, <2>6
  <2>8. QED
    BY <2>7, Zenon DEF PagesFollowSteps, s, timed
<1>2. QED
  BY <1>1, TransferInvariant, PTL
=============================================================================
