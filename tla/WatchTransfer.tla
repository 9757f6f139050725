---------------------------- MODULE WatchTransfer ----------------------------
(***************************************************************************)
(* "Start recipe": the path of a recipe from the details screen of the     *)
(* phone to the pages of the watch.                                        *)
(*                                                                         *)
(* Phone (AppDelegate.swift, WatchController.swift and the button handler  *)
(* of RecipesDetailsViewController.swift): the life cycle of the session,  *)
(* the hand-over of an application context and the alert that reports it.  *)
(* Between the devices (WCSession, external): one slot that holds the last *)
(* context not yet delivered; a newer context replaces it.                 *)
(* Watch (InterfaceController.swift): the delegate callback arrives on a   *)
(* background queue and hands its work to the main queue, which decodes    *)
(* the context and presents its pages.                                     *)
(*                                                                         *)
(* Serial numbers are history: they name the successive hand-overs, and no *)
(* guard reads them.                                                       *)
(***************************************************************************)
EXTENDS ParseWatch, FiniteSets

CONSTANTS
  Recipes,    (* the recipes the details screen can be open on             *)
  MaxSends    (* bound: hand-overs in one behaviour                        *)

ASSUME RecipesAssumption == Recipes \subseteq [steps : Seq(Step)]
ASSUME MaxSendsAssumption == MaxSends \in Nat

VARIABLES
  supported,    (* WCSession.isSupported(), fixed by the device            *)
  installed,    (* WCSession.isWatchAppInstalled                           *)
  phoneRunning, (* the phone app runs                                      *)
  phoneSession, (* activation state of the phone's session                 *)
  alert,        (* the alert over the details screen                       *)
  outbox,       (* WCSession: the context not delivered yet, at most one   *)
  watchSession, (* "off" when the watch app does not run, else its state   *)
  mainQueue,    (* blocks waiting on the watch's main queue                *)
  steps,        (* InterfaceController.steps                               *)
  presented,    (* the pages over the root controller                      *)
  started,      (* history: the recipes handed over                        *)
  handled,      (* history: serial of the last context the main queue ran  *)
  lastShown,    (* history: serial of the last context ever presented      *)
  dropped       (* history: serial of the last context lost with the watch *)

phoneVars   == <<supported, installed, phoneRunning, phoneSession, alert>>
watchVars   == <<watchSession, mainQueue, steps, presented>>
historyVars == <<started, handled, lastShown, dropped>>
vars        == <<phoneVars, outbox, watchVars, historyVars>>

-----------------------------------------------------------------------------
Nothing == [serial |-> 0, controllers |-> << >>, contexts |-> << >>]

(* Everything handed over and not yet run by the watch, oldest first.       *)
InFlight == mainQueue \o outbox

(* History: the last serial of a list of contexts that is thrown away.      *)
LastDropped(lost) == IF lost = << >> THEN dropped ELSE lost[Len(lost)].serial

(* No watch app runs any more, and contexts are lost with it.               *)
WatchAppGone(lost) ==
  /\ watchSession' = "off"
  /\ mainQueue' = << >>
  /\ steps' = << >>
  /\ presented' = Nothing
  /\ dropped' = LastDropped(lost)
  /\ UNCHANGED <<started, handled, lastShown>>

Init ==
  /\ supported \in BOOLEAN
  /\ installed \in BOOLEAN
  /\ phoneRunning = FALSE
  /\ phoneSession = "notActivated"
  /\ alert = "none"
  /\ outbox = << >>
  /\ watchSession = "off"
  /\ mainQueue = << >>
  /\ steps = << >>
  /\ presented = Nothing
  /\ started = << >>
  /\ handled = 0
  /\ lastShown = 0
  /\ dropped = 0

-----------------------------------------------------------------------------
(* The phone.                                                               *)

(* AppDelegate.setupWatchConnectivity(): the session is activated when the  *)
(* device has one.                                                          *)
SetupWatchConnectivity ==
  phoneSession' = IF supported THEN "activating" ELSE "notActivated"

(* application(_:didFinishLaunchingWithOptions:).                           *)
PhoneLaunch ==
  /\ ~phoneRunning
  /\ phoneRunning' = TRUE
  /\ SetupWatchConnectivity
  /\ UNCHANGED <<supported, installed, alert, outbox, watchVars, historyVars>>

(* session(_:activationDidCompleteWith:error:) only logs: an activation     *)
(* that failed is not tried again.                                          *)
PhoneActivationDidComplete ==
  /\ phoneSession = "activating"
  /\ phoneSession' \in {"activated", "failed"}
  /\ UNCHANGED <<supported, installed, phoneRunning, alert, outbox, watchVars,
                 historyVars>>

(* The user pairs another watch: sessionDidBecomeInactive(_:) only logs.    *)
SessionDidBecomeInactive ==
  /\ phoneSession = "activated"
  /\ phoneSession' = "inactive"
  /\ UNCHANGED <<supported, installed, phoneRunning, alert, outbox, watchVars,
                 historyVars>>

(* Slip: sessionDidDeactivate does not activate the session again.          *)
SessionStaysDeactivated ==
  /\ phoneSession = "inactive"
  /\ phoneSession' = "notActivated"
  /\ installed' \in BOOLEAN
  /\ outbox' = << >>
  /\ WatchAppGone(InFlight)
  /\ UNCHANGED <<supported, phoneRunning, alert>>

(* sessionDidDeactivate(_:) activates the session again, for the watch now  *)
(* paired; the watch app is not open there, and what was in flight stays    *)
(* with the old watch.                                                      *)
SessionDidDeactivate ==
  /\ phoneSession = "inactive"
  /\ phoneSession' = "activating"
  /\ installed' \in BOOLEAN
  /\ outbox' = << >>
  /\ WatchAppGone(InFlight)
  /\ UNCHANGED <<supported, phoneRunning, alert>>

(* AppDelegate.sendValue(data:) that returns true: updateApplicationContext *)
(* accepts the context, which replaces one still waiting.                   *)
sendValue(data) ==
  /\ supported
  /\ installed
  /\ phoneSession = "activated"
  /\ outbox' = <<[serial |-> Len(started'), data |-> data]>>

(* WatchController.prepareToSendValue(recipe:) that returns true.           *)
prepareToSendValue(recipe) == sendValue(sendToWatch(recipe))

(* startRecipeButtonPressed(_:) with a hand-over.  The alert is modal: the  *)
(* button is out of reach until it is dismissed.                            *)
StartRecipe(recipe) ==
  /\ phoneRunning
  /\ alert = "none"
  /\ Len(started) < MaxSends
  /\ started' = Append(started, recipe)
  /\ prepareToSendValue(recipe)
  /\ alert' = "Sucesso"
  /\ UNCHANGED <<supported, installed, phoneRunning, phoneSession, watchVars,
                 handled, lastShown, dropped>>

(* startRecipeButtonPressed(_:) with none: no session, no watch app, or     *)
(* updateApplicationContext threw, as it does when the session is not       *)
(* active and may do at any time.                                           *)
StartRecipeRefused ==
  /\ phoneRunning
  /\ alert = "none"
  /\ alert' = "Erro"
  /\ UNCHANGED <<supported, installed, phoneRunning, phoneSession, outbox,
                 watchVars, historyVars>>

(* The OK button of either alert.                                           *)
DismissAlert ==
  /\ alert # "none"
  /\ alert' = "none"
  /\ UNCHANGED <<supported, installed, phoneRunning, phoneSession, outbox,
                 watchVars, historyVars>>

(* The phone app ends.  The slot is the system's and survives.              *)
PhoneTerminate ==
  /\ phoneRunning
  /\ phoneRunning' = FALSE
  /\ phoneSession' = "notActivated"
  /\ alert' = "none"
  /\ UNCHANGED <<supported, installed, outbox, watchVars, historyVars>>

-----------------------------------------------------------------------------
(* The watch.                                                               *)

(* InterfaceController.awake(withContext:) sets up the session.  A context  *)
(* delivered to an earlier life of the app is not looked at.                *)
WatchLaunch ==
  /\ installed
  /\ watchSession = "off"
  /\ watchSession' = "activating"
  /\ UNCHANGED <<phoneVars, outbox, mainQueue, steps, presented, historyVars>>

(* session(_:activationDidCompleteWith:error:) of the watch only logs.      *)
WatchActivationDidComplete ==
  /\ watchSession = "activating"
  /\ watchSession' \in {"activated", "failed"}
  /\ UNCHANGED <<phoneVars, outbox, mainQueue, steps, presented, historyVars>>

(* Slip: the newest block goes first.                                       *)
DidReceiveInFront ==
  /\ watchSession = "activated"
  /\ outbox # << >>
  /\ mainQueue' = <<Head(outbox)>> \o mainQueue
  /\ outbox' = << >>
  /\ UNCHANGED <<phoneVars, watchSession, steps, presented, historyVars>>

(* Slip: a context that arrives while a block waits, or while pages are up, *)
(* is not handled.                                                          *)
DidReceiveWhenIdle ==
  /\ watchSession = "activated"
  /\ outbox # << >>
  /\ mainQueue' = IF mainQueue = << >> /\ presented = Nothing
                    THEN outbox ELSE mainQueue
  /\ outbox' = << >>
  /\ UNCHANGED <<phoneVars, watchSession, steps, presented, historyVars>>

(* session(_:didReceiveApplicationContext:): DispatchQueue.main.async.      *)
DidReceiveApplicationContext ==
  /\ watchSession = "activated"
  /\ outbox # << >>
  /\ mainQueue' = Append(mainQueue, Head(outbox))
  /\ outbox' = << >>
  /\ UNCHANGED <<phoneVars, watchSession, steps, presented, historyVars>>

(* Slip: the pages are built before the steps are decoded.                  *)
RunBlockStale ==
  /\ mainQueue # << >>
  /\ LET context == Head(mainQueue)
     IN  /\ steps' = decodeInWatch(context.data)
         /\ handled' = context.serial
         /\ presented' = [serial      |-> context.serial,
                          controllers |-> Controllers(steps),
                          contexts    |-> Contexts(steps)]
         /\ lastShown' = context.serial
  /\ mainQueue' = Tail(mainQueue)
  /\ UNCHANGED <<phoneVars, outbox, watchSession, started, dropped>>

(* The block of didReceiveApplicationContext, on the main queue.  What      *)
(* presentController does while pages are already up is WatchKit's: the     *)
(* new ones take their place or the call is without effect.                 *)
RunMainQueueBlock ==
  /\ mainQueue # << >>
  /\ LET context == Head(mainQueue)
     IN  /\ steps' = decodeInWatch(context.data)
         /\ handled' = context.serial
         /\ \/ /\ presented' = [serial      |-> context.serial,
                                controllers |-> Controllers(steps'),
                                contexts    |-> Contexts(steps')]
               /\ lastShown' = context.serial
            \/ /\ presented # Nothing
               /\ UNCHANGED <<presented, lastShown>>
  /\ mainQueue' = Tail(mainQueue)
  /\ UNCHANGED <<phoneVars, outbox, watchSession, started, dropped>>

(* The cook closes the pages.                                               *)
DismissPages ==
  /\ presented # Nothing
  /\ presented' = Nothing
  /\ UNCHANGED <<phoneVars, outbox, watchSession, mainQueue, steps, historyVars>>

(* The watch app ends, with the blocks its main queue had not run.          *)
WatchTerminate ==
  /\ watchSession # "off"
  /\ WatchAppGone(mainQueue)
  /\ UNCHANGED <<phoneVars, outbox>>

(* The watch app is installed, or removed while it does not run.            *)
WatchAppInstalledChanges ==
  /\ watchSession = "off"
  /\ installed' = ~installed
  /\ UNCHANGED <<supported, phoneRunning, phoneSession, alert, outbox,
                 watchVars, historyVars>>

-----------------------------------------------------------------------------
Next ==
  \/ PhoneLaunch
  \/ PhoneActivationDidComplete
  \/ SessionDidBecomeInactive
  \/ SessionDidDeactivate
  \/ \E recipe \in Recipes : StartRecipe(recipe)
  \/ StartRecipeRefused
  \/ DismissAlert
  \/ PhoneTerminate
  \/ WatchLaunch
  \/ WatchActivationDidComplete
  \/ DidReceiveApplicationContext
  \/ RunMainQueueBlock
  \/ DismissPages
  \/ WatchTerminate
  \/ WatchAppInstalledChanges

(* The systems of both devices answer the calls made to them and a queue    *)
(* with work is served.  Nobody owes a launch, a tap or a new pairing.      *)
Fairness ==
  /\ WF_vars(PhoneActivationDidComplete)
  /\ WF_vars(SessionDidDeactivate)
  /\ WF_vars(WatchActivationDidComplete)
  /\ WF_vars(DidReceiveApplicationContext)
  /\ WF_vars(RunMainQueueBlock)

Spec == Init /\ [][Next]_vars /\ Fairness

-----------------------------------------------------------------------------
TypeOK ==
  /\ supported    \in BOOLEAN
  /\ installed    \in BOOLEAN
  /\ phoneRunning \in BOOLEAN
  /\ phoneSession \in {"notActivated", "activating", "activated", "inactive", "failed"}
  /\ alert        \in {"none", "Sucesso", "Erro"}
  /\ outbox       \in Seq([serial : Nat, data : Data])
  /\ watchSession \in {"off", "activating", "activated", "failed"}
  /\ mainQueue    \in Seq([serial : Nat, data : Data])
  /\ steps        \in Seq(Step)
  /\ presented.serial \in Nat
  /\ started      \in Seq(Recipes)
  /\ handled      \in Nat
  /\ lastShown    \in Nat
  /\ dropped      \in Nat

(* The pages of a recipe, as the two arrays given to presentController.     *)
RecipePages(recipe) ==
  [controllers |-> Controllers(recipe.steps), contexts |-> Contexts(recipe.steps)]

(* The pages on the watch are those of one recipe the cook started, whole:  *)
(* no step is lost, repeated or mixed with another recipe's by the          *)
(* encoding, the slot, the two queues or a restart.                         *)
ShownOneRecipe ==
  presented.serial # 0 =>
    /\ presented.serial \in 1..Len(started)
    /\ [controllers |-> presented.controllers, contexts |-> presented.contexts]
         = RecipePages(started[presented.serial])

(* Every step of the recipe on the watch has its text page, a timed step    *)
(* has its timer page right after it with its own time, and nothing else is *)
(* there: the two arrays of didReceiveApplicationContext stay in step.      *)
PagesFollowSteps ==
  presented.serial # 0 =>
    LET recipe == started[presented.serial].steps
        timed  == {j \in 1..Len(recipe) : recipe[j].time # NoTime}
        at(i)  == i + Cardinality({j \in timed : j < i})
        page(k) == <<presented.controllers[k], presented.contexts[k]>>
        size   == Len(recipe) + Cardinality(timed)
    IN  /\ Len(presented.controllers) = size
        /\ Len(presented.contexts) = size
        /\ \A i \in 1..Len(recipe) :
             page(at(i)) = <<"StepInterfaceController", recipe[i].text>>
        /\ \A i \in timed :
             page(at(i) + 1) = <<"TimerInterfaceController", Decimal(recipe[i].time)>>

(* The contexts on their way are in the order of the taps, each newer than  *)
(* what the watch last ran, and the slot only ever holds the latest.        *)
InFlightInOrder ==
  /\ \A i, j \in 1..Len(InFlight) : i < j => InFlight[i].serial < InFlight[j].serial
  /\ \A i \in 1..Len(InFlight) : InFlight[i].serial > handled
  /\ outbox # << >> => outbox[1].serial = Len(started)

(* The recipe behind the last "Sucesso" never vanishes between the devices: *)
(* it is on its way, the watch has run it, or it went with a watch app that *)
(* ended or a watch that was unpaired.                                      *)
LastStartAccountedFor ==
  \/ started = << >>
  \/ Len(started) \in {handled, dropped}
  \/ \E i \in 1..Len(InFlight) : InFlight[i].serial = Len(started)

Screen ==
  IF presented.serial = 0
    THEN Nothing
    ELSE [controllers |-> presented.controllers, contexts |-> presented.contexts]

Handoff ==
  INSTANCE RecipeHandoff WITH PagesOf <- RecipePages, Blank <- Nothing,
    chosen <- started, newest <- lastShown, screen <- Screen

(* The whole path, with its slot, its queues, its sessions and its          *)
(* restarts, keeps the promise of RecipeHandoff.                            *)
ImplementsHandoff == Handoff!Spec

(* Once the watch app stays up, the last recipe handed over is run there,   *)
(* even one sent while the app was closed, unless it went with an earlier   *)
(* life of the app.                                                         *)
EventuallyHandled ==
  <>[](watchSession = "activated") => <>[](Len(started) \in {handled, dropped})

(* Pairing another watch does not leave the phone without a session:        *)
(* sessionDidDeactivate activates it again.                                 *)
SwitchingWatchRecovers ==
  phoneSession = "inactive" ~> (phoneSession \in {"activated", "failed"} \/ ~phoneRunning)

(* Both: a hand-over comes to its end, with this watch or another.          *)
HandOversEnd == EventuallyHandled /\ SwitchingWatchRecovers
=============================================================================
