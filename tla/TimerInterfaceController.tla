---------------------- MODULE TimerInterfaceController ----------------------
(***************************************************************************)
(* The countdown pages of the watch app (TimerInterfaceController.swift).  *)
(*                                                                         *)
(* Every recipe step that has a time is followed by a page with a          *)
(* WKInterfaceTimer label and one button.  The pages of a presentation are *)
(* awake together and each keeps its own state, so several countdowns run  *)
(* at once against one clock.                                              *)
(*                                                                         *)
(* Absolute dates are kept relative to the clock: due[p] is the number of  *)
(* seconds from now to the date last given to setDate, zero once that date *)
(* is past.  This keeps the model finite without bounding time.            *)
(***************************************************************************)
EXTENDS Integers, TLAPS

CONSTANTS
  Pages,      (* the timer pages of one presentation                       *)
  Tempo       (* Tempo[p]: the seconds in the context given to page p; the *)
              (* root controller only passes the decimal form of an Int,   *)
              (* so the page's early return on another context is not taken*)

ASSUME TempoAssumption == Tempo \in [Pages -> Int]

VARIABLES
  awake,      (* awake[p]: awake(withContext:) has run                     *)
  timeLeft,   (* the page's interval, in seconds                           *)
  isRuning,   (* the page believes that its countdown runs                 *)
  title,      (* the title of interactiveButton                            *)
  due,        (* WKInterfaceTimer: seconds to the date set, 0 when past    *)
  ticking,    (* WKInterfaceTimer: the label follows the clock             *)
  frozen,     (* WKInterfaceTimer: what a label that does not tick shows   *)
  elapsed     (* history: seconds since the last Start, at most the        *)
              (* page's whole interval                                     *)

vars == <<awake, timeLeft, isRuning, title, due, ticking, frozen, elapsed>>

-----------------------------------------------------------------------------
(* The seconds from now to Date(timeIntervalSinceNow: interval): a negative *)
(* interval is a date already past, whose label is taken to read zero.      *)
SecondsTo(interval) == IF interval > 0 THEN interval ELSE 0

(* What the label of page p shows.                                          *)
Display(p) == IF ticking[p] THEN due[p] ELSE frozen[p]

Init ==
  /\ awake    = [p \in Pages |-> FALSE]
  /\ timeLeft = [p \in Pages |-> 0]
  /\ isRuning = [p \in Pages |-> FALSE]
  /\ title    = [p \in Pages |-> "Start"]
  /\ due      = [p \in Pages |-> 0]
  /\ ticking  \in [Pages -> BOOLEAN]
  /\ frozen   = [p \in Pages |-> 0]
  /\ elapsed  = [p \in Pages |-> 0]

(* awake(withContext:): the interval is one second longer than the step's   *)
(* time, and the label gets its date.                                       *)
Awake(p) ==
  LET interval == Tempo[p] + 1
  IN  /\ ~awake[p]
      /\ awake'    = [awake EXCEPT ![p] = TRUE]
      /\ timeLeft' = [timeLeft EXCEPT ![p] = interval]
      /\ due'      = [due EXCEPT ![p] = SecondsTo(interval)]
      /\ frozen'   = [frozen EXCEPT ![p] = SecondsTo(interval)]
      /\ elapsed'  = [elapsed EXCEPT ![p] = 0]
      /\ UNCHANGED <<isRuning, title, ticking>>

(* Slip: Stop does not set the date back.                                   *)
StopPressedPauses(p) ==
  /\ awake[p] /\ isRuning[p]
  /\ title'    = [title EXCEPT ![p] = "Start"]
  /\ isRuning' = [isRuning EXCEPT ![p] = FALSE]
  /\ ticking'  = [ticking EXCEPT ![p] = FALSE]
  /\ frozen'   = [frozen EXCEPT ![p] = Display(p)]
  /\ UNCHANGED <<awake, timeLeft, due, elapsed>>

(* startTimer() on a page whose countdown runs: the label is set back to    *)
(* the whole interval and stopped.                                          *)
StopPressed(p) ==
  /\ awake[p] /\ isRuning[p]
  /\ title'    = [title EXCEPT ![p] = "Start"]
  /\ isRuning' = [isRuning EXCEPT ![p] = FALSE]
  /\ due'      = [due EXCEPT ![p] = SecondsTo(timeLeft[p])]
  /\ ticking'  = [ticking EXCEPT ![p] = FALSE]
  /\ frozen'   = [frozen EXCEPT ![p] = SecondsTo(timeLeft[p])]
  /\ UNCHANGED <<awake, timeLeft, elapsed>>

(* What a start leaves whichever calls it makes on the label.               *)
Started(p) ==
  /\ awake[p] /\ ~isRuning[p]
  /\ title'    = [title EXCEPT ![p] = "Stop"]
  /\ isRuning' = [isRuning EXCEPT ![p] = TRUE]
  /\ elapsed'  = [elapsed EXCEPT ![p] = 0]
  /\ UNCHANGED <<awake, timeLeft, frozen>>

(* Slip: Start does not set the date again.                                 *)
StartPressedNoDate(p) ==
  /\ Started(p)
  /\ ticking' = [ticking EXCEPT ![p] = TRUE]
  /\ UNCHANGED due

(* Slip: Start does not start the label.                                    *)
StartPressedNoStart(p) ==
  /\ Started(p)
  /\ due' = [due EXCEPT ![p] = SecondsTo(timeLeft[p])]
  /\ UNCHANGED ticking

(* startTimer() on a page whose countdown does not run.                     *)
StartPressed(p) ==
  /\ Started(p)
  /\ due'     = [due EXCEPT ![p] = SecondsTo(timeLeft[p])]
  /\ ticking' = [ticking EXCEPT ![p] = TRUE]

(* One second passes for every page.  Nothing of the program runs: there is *)
(* no callback when a date is reached.                                      *)
Tick ==
  /\ \E p \in Pages : due[p] > 0
  /\ due'     = [p \in Pages |-> IF due[p] > 0 THEN due[p] - 1 ELSE 0]
  /\ elapsed' = [p \in Pages |-> IF elapsed[p] < SecondsTo(timeLeft[p])
                                   THEN elapsed[p] + 1 ELSE elapsed[p]]
  /\ UNCHANGED <<awake, timeLeft, isRuning, title, ticking, frozen>>

Next ==
  \/ \E p \in Pages : Awake(p) \/ StartPressed(p) \/ StopPressed(p)
  \/ Tick

(* Time passes whatever the program does; the cook owes it no tap.          *)
Spec == Init /\ [][Next]_vars /\ WF_vars(Tick)

-----------------------------------------------------------------------------
TypeOK ==
  /\ awake    \in [Pages -> BOOLEAN]
  /\ timeLeft \in [Pages -> Int]
  /\ isRuning \in [Pages -> BOOLEAN]
  /\ title    \in [Pages -> {"Start", "Stop"}]
  /\ due      \in [Pages -> Nat]
  /\ ticking  \in [Pages -> BOOLEAN]
  /\ frozen   \in [Pages -> Nat]
  /\ elapsed  \in [Pages -> Nat]

(* A running countdown never reads zero before the step's own time has gone *)
(* by since the tap that started it, however often it was stopped and       *)
(* started and whatever the other pages do (startTimer sets the date again  *)
(* before every start).                                                     *)
NeverEarly ==
  \A p \in Pages :
    (isRuning[p] /\ Display(p) = 0) => elapsed[p] >= Tempo[p]

(* A step that stops page p, or finds it standing and does not start it,    *)
(* leaves the whole interval on its label.                                  *)
SetBack(p) ==
  LET stops    == isRuning[p] /\ ~isRuning'[p]
      standing == awake[p] /\ ~isRuning[p] /\ ~ticking[p] /\ ~isRuning'[p]
  IN  stops \/ standing => Display(p)' = SecondsTo(timeLeft[p])

(* Stop is a reset, not a pause: after a stop the label shows the whole     *)
(* interval, and time that passes does not wear it down before the next     *)
(* start (startTimer sets the date before it stops the timer).              *)
StopResets == [][\A p \in Pages : SetBack(p)]_vars

(* A countdown that is left alone reaches zero.                             *)
RunsOut ==
  \A p \in Pages : isRuning[p] ~> (Display(p) = 0 \/ ~isRuning[p])

-----------------------------------------------------------------------------
(* Proofs, for any set of pages and any step times.                         *)

(* Every page that was started counts its whole interval down: the seconds  *)
(* left and the seconds gone since the start always add up to it.  A page   *)
(* that is asleep has no countdown, an awake one keeps the interval it was  *)
(* given, and a label that stands shows that interval whole.                *)
Countdown(p) ==
  /\ isRuning[p] => awake[p] /\ ticking[p]
  /\ awake[p] => timeLeft[p] = Tempo[p] + 1
  /\ isRuning[p] => due[p] + elapsed[p] = SecondsTo(timeLeft[p])
  /\ awake[p] /\ ~ticking[p] => frozen[p] = SecondsTo(timeLeft[p])

IInv == TypeOK /\ \A p \in Pages : Countdown(p)

(* Init establishes the countdown invariant.                                *)
LEMMA InitIInv == Init => IInv
  BY TempoAssumption DEF Init, IInv, TypeOK, Countdown

(* Every tap, awakening and passing second keeps the countdown invariant.   *)
LEMMA NextIInv == IInv /\ [Next]_vars => IInv'
<1> SUFFICES ASSUME IInv, [Next]_vars PROVE IInv'
  OBVIOUS
<1> USE TempoAssumption DEF IInv, TypeOK, Countdown, SecondsTo
<1>1. ASSUME NEW p \in Pages, Awake(p) PROVE IInv'
  BY <1>1 DEF Awake
<1>2. ASSUME NEW p \in Pages, StartPressed(p) PROVE IInv'
  BY <1>2 DEF StartPressed, Started
<1>3. ASSUME NEW p \in Pages, StopPressed(p) PROVE IInv'
  BY <1>3 DEF StopPressed
<1>4. CASE Tick
  BY <1>4 DEF Tick
<1>5. CASE UNCHANGED vars
  BY <1>5 DEF vars
<1>6. QED
  BY <1>1, <1>2, <1>3, <1>4, <1>5 DEF Next

(* The countdown invariant holds in every reachable state: whatever is      *)
(* tapped on the timer pages (startTimer), time left and time gone agree.   *)
THEOREM CountdownInvariant == Spec => []IInv
  BY InitIInv, NextIInv, PTL DEF Spec

(* The variables of the timer pages keep their types.                       *)
THEOREM TypeCorrect == Spec => []TypeOK
<1>1. IInv => TypeOK
  BY DEF IInv
<1>2. QED
  BY CountdownInvariant, <1>1, PTL

(* No countdown started with startTimer reads zero before the step's own    *)
(* time has passed, for every set of pages and every time of a step.        *)
THEOREM CountdownNeverEarly == Spec => []NeverEarly
<1>1. IInv => NeverEarly
  BY TempoAssumption DEF IInv, TypeOK, Countdown, NeverEarly, Display, SecondsTo
<1>2. QED
  BY CountdownInvariant, <1>1, PTL

(* A stop sets the label back to the whole interval, and until the next     *)
(* start no step wears it down, on every page whatever the others do.       *)
THEOREM StopSetsBack == Spec => StopResets
<1>1. IInv /\ IInv' /\ [Next]_vars => [\A p \in Pages : SetBack(p)]_vars
  <2> SUFFICES ASSUME IInv, IInv', Next, NEW p \in Pages,
                      \/ isRuning[p] /\ ~isRuning'[p]
                      \/ awake[p] /\ ~isRuning[p] /\ ~ticking[p] /\ ~isRuning'[p]
               PROVE  Display(p)' = SecondsTo(timeLeft[p])
    BY DEF SetBack
  <2> USE DEF IInv, TypeOK
  <2> DEFINE Stands == awake'[p] /\ ~ticking'[p] /\ timeLeft'[p] = timeLeft[p]
  <2>1. Stands
    <3>1. ASSUME NEW q \in Pages, Awake(q) PROVE Stands
      BY <3>1 DEF Awake, Countdown
    <3>2. ASSUME NEW q \in Pages, StartPressed(q) PROVE Stands
      BY <3>2 DEF StartPressed, Started, Countdown
    <3>3. ASSUME NEW q \in Pages, StopPressed(q) PROVE Stands
      BY <3>3 DEF StopPressed, Countdown
    <3>4. CASE Tick
      BY <3>4 DEF Tick, Countdown
    <3>5. QED
      BY <3>1, <3>2, <3>3, <3>4 DEF Next
  <2>2. frozen'[p] = SecondsTo(timeLeft'[p])
    BY <2>1 DEF Countdown, SecondsTo
  <2>3. QED
    BY <2>1, <2>2 DEF Display, SecondsTo
<1>2. QED
  BY CountdownInvariant, <1>1, PTL DEF Spec, StopResets
=============================================================================
