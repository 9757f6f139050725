----------------------------- MODULE ParseWatch -----------------------------
(***************************************************************************)
(* How a recipe crosses from the phone to the watch, as pure operators:    *)
(* ParseWatch.swift turns the steps of a recipe into an application        *)
(* context and back, and InterfaceController.swift turns the decoded steps *)
(* into the two parallel arrays that WatchKit pairs up into pages.         *)
(*                                                                         *)
(* A Swift dictionary is a function whose domain is the set of its keys.   *)
(***************************************************************************)
EXTENDS Integers, Sequences, SequencesExt

CONSTANTS
  Texts,      (* the texts of recipe steps                                 *)
  Times,      (* the times of recipe steps, in seconds                     *)
  NoTime      (* Step.time = nil                                           *)

ASSUME NoTimeAssumption == NoTime \notin Times

Step == [text : Texts, time : Times \union {NoTime}]

Dict == [{"Texto"} -> Texts] \union
        {d \in [{"Texto", "Tempo"} -> Texts \union Times] :
           d["Texto"] \in Texts /\ d["Tempo"] \in Times}

Data == [{"steps"} -> Seq(Dict)]

-----------------------------------------------------------------------------
(* Slip: the time of a step is not sent.                                    *)
StepDictNoTime(step) == [k \in {"Texto"} |-> step.text]

(* The dictionary of one step: "Tempo" is a key only when the step has a    *)
(* time.                                                                    *)
StepDict(step) ==
  LET keys == IF step.time = NoTime THEN {"Texto"} ELSE {"Texto", "Tempo"}
  IN  [k \in keys |-> IF k = "Texto" THEN step.text ELSE step.time]

(* ParseWatch.sendToWatch(recipe:)                                          *)
sendToWatch(recipe) ==
  [k \in {"steps"} |-> [i \in 1..Len(recipe.steps) |-> StepDict(recipe.steps[i])]]

(* The step read back from a dictionary that has a text.                    *)
StepOf(dict) ==
  [text |-> dict["Texto"],
   time |-> IF "Tempo" \in DOMAIN dict THEN dict["Tempo"] ELSE NoTime]

(* The loop of decodeInWatch returns after n steps: they all have a text    *)
(* and the next one, if there is one, does not.                             *)
StopsAt(data, n) ==
  /\ \A i \in 1..n : "Texto" \in DOMAIN data[i]
  /\ n = Len(data) \/ "Texto" \notin DOMAIN data[n + 1]

StepsRead(data) == CHOOSE n \in 0..Len(data) : StopsAt(data, n)

(* ParseWatch.decodeInWatch(_:).  No steps without the "steps" key.         *)
decodeInWatch(dataArray) ==
  IF "steps" \notin DOMAIN dataArray THEN << >>
  ELSE [i \in 1..StepsRead(dataArray["steps"]) |-> StepOf(dataArray["steps"][i])]

-----------------------------------------------------------------------------
(* String(time): the decimal form of an Int, which no step text is equal to *)
(* here because no context is ever used as both.                            *)
Decimal(time) == [decimal |-> time]

(* Slip: the timer of a step comes before its text in one of the arrays.    *)
ContextsSwapped(steps) ==
  FlattenSeq([i \in 1..Len(steps) |->
    IF steps[i].time = NoTime
      THEN <<steps[i].text>>
      ELSE <<Decimal(steps[i].time), steps[i].text>>])

(* The arrays context and controllers of didReceiveApplicationContext: one  *)
(* entry of each for a step, a second one for its timer.                    *)
Contexts(steps) ==
  FlattenSeq([i \in 1..Len(steps) |->
    IF steps[i].time = NoTime
      THEN <<steps[i].text>>
      ELSE <<steps[i].text, Decimal(steps[i].time)>>])

Controllers(steps) ==
  FlattenSeq([i \in 1..Len(steps) |->
    IF steps[i].time = NoTime
      THEN <<"StepInterfaceController">>
      ELSE <<"StepInterfaceController", "TimerInterfaceController">>])
=============================================================================
