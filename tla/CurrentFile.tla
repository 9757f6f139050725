----------------------------- MODULE CurrentFile ----------------------------
(***************************************************************************)
(* leveldb: how CURRENT is made to name a manifest (SetCurrentFile of      *)
(* db/filename.cc with WriteStringToFileSync of util/env.cc) and how it is *)
(* read (ReadFileToString), with calls that fail and losses of power.      *)
(*                                                                         *)
(* The text of a file is cut into Pieces pieces; a write that fails leaves *)
(* any number of them.  Nothing syncs the directory here: a loss of power  *)
(* leaves it as it is or as it was after any earlier step.                 *)
(***************************************************************************)
EXTENDS Integers, Sequences, FiniteSets, SequencesExt

CONSTANTS
  Numbers,         (* of manifests                                         *)
  Pieces,
  kBufferSize,     (* pieces that one Read returns at most                 *)
  MaxFiles

NumbersAssumption == Numbers \subseteq Nat \ {0}
SizesAssumption == Pieces \in Nat \ {0} /\ kBufferSize \in Nat \ {0}

VARIABLES
  content, durable, (* file -> its text; what of it survives               *)
  directory,       (* name -> file, or NoFile                              *)
  kept,            (* the directories of which one survives                *)
  pc,              (* of SetCurrentFile                                    *)
  number,          (* descriptor_number                                    *)
  set,             (* the number that CURRENT was last set to              *)
  space,           (* what ReadFileToString has read, or NotReading        *)
  result           (* of the last read: a text, or NotReading              *)

currentVars == <<content, durable, directory, kept, pc, number, set, space, result>>

NoFile == 0
NoNumber == 0
NotReading == <<NoNumber>>
CURRENT == NoNumber
FileNames == Numbers \union {CURRENT}          (* n stands for n.dbtmp     *)
Contents(n) == [i \in 1..Pieces |-> n]         (* MANIFEST-n and a newline *)
File == directory[number]

Init ==
  /\ content = << >> /\ durable = << >>
  /\ directory = [name \in FileNames |-> NoFile] /\ kept = {directory}
  /\ pc = "idle" /\ number = NoNumber /\ set = NoNumber
  /\ space = NotReading /\ result = NotReading

Directory(d) == directory' = d /\ kept' = kept \union {d}

-----------------------------------------------------------------------------
(* WriteStringToFileSync.                                                   *)
NewWritableFile(n) ==
  /\ pc = "idle" /\ space = NotReading
  /\ number' = n /\ pc' = "append"
  /\ \/ /\ directory[n] # NoFile
        /\ content' = [content EXCEPT ![directory[n]] = << >>]
        /\ UNCHANGED <<durable, directory, kept>>
     \/ /\ directory[n] = NoFile /\ Len(content) < MaxFiles
        /\ content' = Append(content, << >>) /\ durable' = Append(durable, << >>)
        /\ Directory([directory EXCEPT ![n] = Len(content) + 1])
  /\ UNCHANGED <<set, space, result>>

Written(text) == content' = [content EXCEPT ![File] = text]
AppendData ==
  /\ pc = "append"
  /\ Written(Contents(number)) /\ pc' = "sync"
  /\ UNCHANGED <<durable, directory, kept, number, set, space, result>>

(* Slip: should_sync is not looked at.                                      *)
OnlyClosed(text) == durable
Synced(text) == [durable EXCEPT ![File] = text]
Sync ==
  /\ pc = "sync"
  /\ durable' = Synced(content[File]) /\ pc' = "close"
  /\ UNCHANGED <<content, directory, kept, number, set, space, result>>

Close ==
  /\ pc = "close" /\ pc' = "rename"
  /\ UNCHANGED <<content, durable, directory, kept, number, set, space, result>>

(* Append, Sync or Close fails: the file is deleted at once, and again,     *)
(* where there is nothing left, by SetCurrentFile.                          *)
DeleteFile(name) == Directory([directory EXCEPT ![name] = NoFile])
Part(text, n) == [i \in 1..n |-> text[i]]
WriteFails ==
  /\ pc \in {"append", "sync", "close"}
  /\ IF pc = "append" THEN \E i \in 0..Pieces : Written(Part(Contents(number), i)) ELSE UNCHANGED content
  /\ DeleteFile(number) /\ pc' = "idle"
  /\ UNCHANGED <<durable, number, set, space, result>>

-----------------------------------------------------------------------------
(* SetCurrentFile.                                                          *)
RenameFile ==
  /\ pc = "rename" /\ pc' = "idle"
  /\ Directory([directory EXCEPT ![CURRENT] = File, ![number] = NoFile])
  /\ set' = number
  /\ UNCHANGED <<content, durable, number, space, result>>
RenameFails ==
  /\ pc = "rename" /\ pc' = "idle"
  /\ DeleteFile(number)
  /\ UNCHANGED <<content, durable, number, set, space, result>>

-----------------------------------------------------------------------------
(* ReadFileToString, until a fragment is empty.                             *)
NewSequentialFile ==
  /\ pc = "idle" /\ space = NotReading /\ directory[CURRENT] # NoFile
  /\ space' = << >>
  /\ UNCHANGED <<content, durable, directory, kept, pc, number, set, result>>
Fragments(text) ==
  IF Len(space) = Len(text) THEN {<< >>}
  ELSE {SubSeq(text, Len(space) + 1, to) : to \in (Len(space) + 1)..(IF Len(space) + kBufferSize < Len(text) THEN Len(space) + kBufferSize ELSE Len(text))}
Read ==
  /\ space # NotReading
  /\ \E fragment \in Fragments(content[directory[CURRENT]]) :
       /\ space' = IF fragment = << >> THEN NotReading ELSE space \o fragment
       /\ result' = IF fragment = << >> THEN space ELSE result
  /\ UNCHANGED <<content, durable, directory, kept, pc, number, set>>
ReadFails ==
  /\ space # NotReading /\ space' = NotReading
  /\ UNCHANGED <<content, durable, directory, kept, pc, number, set, result>>

-----------------------------------------------------------------------------
(* The power fails: what was not synced is lost, the directory goes back to *)
(* one it may have gone back to.  What is then CURRENT is what was set.     *)
PowerFails ==
  /\ content' = durable
  /\ \E d \in kept :
       /\ directory' = d /\ kept' = {d}
       /\ set' = IF d[CURRENT] = NoFile \/ durable[d[CURRENT]] = << >> THEN NoNumber ELSE Head(durable[d[CURRENT]])
  /\ pc' = "idle" /\ space' = NotReading
  /\ UNCHANGED <<durable, number, result>>

Next ==
  \/ \E n \in Numbers : NewWritableFile(n)
  \/ AppendData \/ Sync \/ Close \/ WriteFails \/ RenameFile \/ RenameFails
  \/ NewSequentialFile \/ Read \/ ReadFails
  \/ PowerFails

Spec == Init /\ [][Next]_currentVars

-----------------------------------------------------------------------------
(* CURRENT, when there is one, is the whole text of a manifest's name,      *)
(* wherever SetCurrentFile stopped or failed and whatever of the directory  *)
(* a loss of power left; as long as the power does not fail it is the one   *)
(* that was set last, and a reader that does not fail gets it whole.        *)
Whole(text) == \E n \in Numbers : text = Contents(n)
CurrentIsWhole ==
  /\ \A d \in kept : d[CURRENT] # NoFile => Whole(durable[d[CURRENT]])
  /\ directory[CURRENT] # NoFile => content[directory[CURRENT]] = Contents(set)
  /\ result # NotReading => Whole(result)
=============================================================================
