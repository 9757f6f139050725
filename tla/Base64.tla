------------------------------- MODULE Base64 -------------------------------
(***************************************************************************)
(* The base 64 of the web socket that Firebase opens: the key of the hand- *)
(* shake and what is expected in answer to it (SocketRocket's fbase64.c).  *)
(*                                                                         *)
(* A character of the alphabet is its place in it, 0..63; Pad64, Space and *)
(* Other stand for the rest.  A text ends where its sequence ends.         *)
(***************************************************************************)
EXTENDS Integers, Sequences, FiniteSets, SequencesExt

CONSTANTS
  Inputs,          (* byte strings that are encoded                        *)
  Texts,           (* texts that are decoded as they come                  *)
  TargSizes        (* sizes of the target                                  *)

Pad64 == 64
Space == 65
Other == 66
Refused == << >>                               (* returns -1               *)

VARIABLES
  text,            (* what is decoded                                      *)
  src, target, targsize, tarindex,
  state,           (* of the decoder: characters of a group                *)
  result           (* "reading", "accepted" or "refused"                   *)

base64Vars == <<text, src, target, targsize, tarindex, state, result>>

-----------------------------------------------------------------------------
(* f_b64_ntop: three bytes to four characters, the rest padded.             *)
Output(a, b, c) == <<a \div 4, ((a % 4) * 16) + (b \div 16), ((b % 16) * 4) + (c \div 64), c % 64>>
Padded(rest) ==
  CASE Len(rest) = 0 -> << >>
    [] Len(rest) = 1 -> SubSeq(Output(rest[1], 0, 0), 1, 2) \o <<Pad64, Pad64>>
    [] Len(rest) = 2 -> SubSeq(Output(rest[1], rest[2], 0), 1, 3) \o <<Pad64>>
Encoded(s) ==
  FlattenSeq([g \in 1..(Len(s) \div 3) |-> Output(s[(3 * g) - 2], s[(3 * g) - 1], s[3 * g])])
    \o Padded(SubSeq(s, 3 * (Len(s) \div 3) + 1, Len(s)))
(* One more character ends the string.  The callers make a buffer of half   *)
(* as much again as the data, for a key of 16 bytes or a digest of 20.      *)
Buffer(s) == ((3 * Len(s)) + 2) \div 2
f_b64_ntop(s, size) == IF Len(Encoded(s)) >= size THEN Refused ELSE Encoded(s)

-----------------------------------------------------------------------------
(* f_b64_pton, a character at a time.                                       *)
Refuse == result' = "refused" /\ UNCHANGED <<src, target, tarindex, state>>
Fits(n) == tarindex + n <= targsize
Write(i, v) == [target EXCEPT ![i + 1] = v]
At(i) == target[i + 1]

Skip == src # << >> /\ Head(src) = Space /\ src' = Tail(src) /\ UNCHANGED <<target, tarindex, state, result>>
NotBase64 == src # << >> /\ Head(src) = Other /\ Refuse

First(pos) ==
  /\ state = 0
  /\ IF ~Fits(1) THEN Refuse
     ELSE target' = Write(tarindex, (pos * 4) % 256) /\ state' = 1 /\ src' = Tail(src) /\ UNCHANGED <<tarindex, result>>
Inner(at, pos, high, low, next) ==
  /\ state = at
  /\ IF ~Fits(2) THEN Refuse
     ELSE /\ target' = [Write(tarindex, At(tarindex) + (pos \div high)) EXCEPT ![tarindex + 2] = ((pos % high) * low) % 256]
          /\ tarindex' = tarindex + 1 /\ state' = next /\ src' = Tail(src) /\ UNCHANGED result
Fourth(pos) ==
  /\ state = 3
  /\ IF ~Fits(1) THEN Refuse
     ELSE /\ target' = Write(tarindex, At(tarindex) + pos)
          /\ tarindex' = tarindex + 1 /\ state' = 0 /\ src' = Tail(src) /\ UNCHANGED result
Character ==
  /\ src # << >> /\ Head(src) < Pad64
  /\ \E pos \in {Head(src)} : First(pos) \/ Inner(1, pos, 16, 16, 2) \/ Inner(2, pos, 4, 64, 3) \/ Fourth(pos)

(* After a pad: a second one where one byte is left, nothing but spaces     *)
(* else, and no bits in the byte that is cut off.                           *)
WithoutSpaces(s) == SelectSeq(s, LAMBDA ch : ch # Space)
PadsAreRight(rest) == IF state = 2 THEN rest = <<Pad64>> ELSE rest = << >>
(* Slip: the bits that are cut off are not looked at.                       *)
AnyBits == TRUE
NoBitsLeft == At(tarindex) = 0
Pad ==
  /\ src # << >> /\ Head(src) = Pad64
  /\ result' = IF state \in {2, 3} /\ PadsAreRight(WithoutSpaces(Tail(src))) /\ NoBitsLeft THEN "accepted" ELSE "refused"
  /\ UNCHANGED <<src, target, tarindex, state>>
EndOfText ==
  /\ src = << >>
  /\ result' = IF state = 0 THEN "accepted" ELSE "refused"
  /\ UNCHANGED <<src, target, tarindex, state>>

Init ==
  /\ text \in Texts \union {Encoded(s) : s \in Inputs}
  /\ src = text
  /\ targsize \in TargSizes
  /\ target = [i \in 1..targsize |-> 255] /\ tarindex = 0
  /\ state = 0 /\ result = "reading"

Next ==
  /\ result = "reading"
  /\ Skip \/ NotBase64 \/ Character \/ Pad \/ EndOfText
  /\ UNCHANGED <<text, targsize>>

Spec == Init /\ [][Next]_base64Vars

-----------------------------------------------------------------------------
(* What is accepted is the one text of the bytes it gives, but for spaces:  *)
(* two texts never stand for the same bytes.  The text of any bytes is      *)
(* accepted by a target with one byte more, and keys and digests fit the    *)
(* buffers they get.                                                        *)
OneTextForBytes ==
  /\ result = "accepted" => WithoutSpaces(text) = Encoded(SubSeq(target, 1, tarindex))
  /\ result = "refused" => \A s \in Inputs : text = Encoded(s) => targsize <= Len(s)
  /\ \A s \in Inputs : Len(s) \in {16, 20} => f_b64_ntop(s, Buffer(s)) = Encoded(s)
=============================================================================
