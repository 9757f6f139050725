----------------------------- MODULE PosixFiles -----------------------------
(***************************************************************************)
(* leveldb: the files that the POSIX environment writes                    *)
(* (util/env_posix.cc): what is only in a stream's buffer, what is in a    *)
(* file and what a machine that loses its power leaves of it.              *)
(*                                                                         *)
(* A file is a sequence of records.  A record of a manifest is the set of  *)
(* the files, with their names, that there were when it was appended: it   *)
(* may speak of them.  A name leads to a file until the directory is       *)
(* changed; a descriptor keeps its file.                                   *)
(***************************************************************************)
EXTENDS Integers, Sequences, FiniteSets, FiniteSetsExt

CONSTANTS
  Names,
  Manifests,       (* names that start with MANIFEST                       *)
  Writers,
  MaxFiles,        (* files made                                           *)
  MaxRecords       (* in each                                              *)

VARIABLES
  content,         (* file -> its records                                  *)
  durable,         (* file -> the records that survive a loss of power     *)
  directory,       (* name -> file, or NoFile                              *)
  kept,            (* the directory that survives                          *)
  writer,          (* writer -> [name, file, buffer, at], or Closed        *)
  vouched,         (* <<name, file>> that a synced manifest may speak of   *)
  removed          (* <<name, file>> deleted or renamed                    *)

fileVars == <<content, durable, directory, kept, writer, vouched, removed>>

NoFile == 0
Closed == [file |-> NoFile]
Exists(name) == directory[name] # NoFile
InUse(file) == \E w \in Writers : writer[w].file = file

Init ==
  /\ content = << >> /\ durable = << >>
  /\ directory = [n \in Names |-> NoFile] /\ kept = directory
  /\ writer = [w \in Writers |-> Closed]
  /\ vouched = {} /\ removed = {}

-----------------------------------------------------------------------------
(* PosixWritableFile.                                                       *)
OpenWriter(w, name, file) ==
  writer' = [writer EXCEPT ![w] = [name |-> name, file |-> file, buffer |-> << >>, at |-> "open"]]

Make(w, name) ==
  /\ Len(content) < MaxFiles
  /\ content' = Append(content, << >>) /\ durable' = Append(durable, << >>)
  /\ directory' = [directory EXCEPT ![name] = Len(content) + 1]
  /\ OpenWriter(w, name, Len(content) + 1)

(* fopen "w" cuts the file of that name to nothing, "a" goes on with it.    *)
(* The database does not write a file twice at once.                        *)
NewWritableFile(w, name) ==
  /\ writer[w] = Closed
  /\ \/ ~Exists(name) /\ Make(w, name)
     \/ /\ Exists(name) /\ ~InUse(directory[name])
        /\ content' = [content EXCEPT ![directory[name]] = << >>]
        /\ OpenWriter(w, name, directory[name])
        /\ UNCHANGED <<durable, directory>>
  /\ UNCHANGED <<kept, vouched, removed>>

NewAppendableFile(w, name) ==
  /\ writer[w] = Closed
  /\ Exists(name) /\ ~InUse(directory[name])
  /\ OpenWriter(w, name, directory[name])
  /\ UNCHANGED <<content, durable, directory, kept, vouched, removed>>

Open(w) == writer[w] # Closed /\ writer[w].at = "open"

RecordFor(name) == IF name \in Manifests THEN {<<n, directory[n]>> : n \in {n \in Names : Exists(n)}} ELSE {}
AppendRecord(w) ==
  /\ Open(w)
  /\ Len(content[writer[w].file]) + Len(writer[w].buffer) < MaxRecords
  /\ writer' = [writer EXCEPT ![w].buffer = Append(@, RecordFor(writer[w].name))]
  /\ UNCHANGED <<content, durable, directory, kept, vouched, removed>>

Flushed(w) == content[writer[w].file] \o writer[w].buffer
Flush(w) ==
  /\ Open(w) /\ writer[w].buffer # << >>
  /\ content' = [content EXCEPT ![writer[w].file] = Flushed(w)]
  /\ writer' = [writer EXCEPT ![w].buffer = << >>]
  /\ UNCHANGED <<durable, directory, kept, vouched, removed>>

Close(w) ==
  /\ Open(w)
  /\ content' = [content EXCEPT ![writer[w].file] = Flushed(w)]
  /\ writer' = [writer EXCEPT ![w] = Closed]
  /\ UNCHANGED <<durable, directory, kept, vouched, removed>>

(* Sync: SyncDirIfManifest, and then the stream and its file.               *)
DirectorySynced(name) == IF name \in Manifests THEN directory ELSE kept
(* Slip: a manifest is synced like any other file.                          *)
NothingSynced(name) == kept
SyncedFor(name) == DirectorySynced(name)
SyncDirIfManifest(w) ==
  /\ Open(w)
  /\ kept' = SyncedFor(writer[w].name)
  /\ writer' = [writer EXCEPT ![w].at = "directory synced"]
  /\ UNCHANGED <<content, durable, directory, vouched, removed>>
SyncData(w) ==
  /\ writer[w] # Closed /\ writer[w].at = "directory synced"
  /\ content' = [content EXCEPT ![writer[w].file] = Flushed(w)]
  /\ durable' = [durable EXCEPT ![writer[w].file] = Flushed(w)]
  /\ writer' = [writer EXCEPT ![w].buffer = << >>, ![w].at = "open"]
  /\ vouched' = vouched \union UNION {Flushed(w)[i] : i \in DOMAIN Flushed(w)}
  /\ UNCHANGED <<directory, kept, removed>>
(* The directory, the stream or the file cannot be synced.                  *)
SyncFails(w) ==
  /\ writer[w] # Closed
  /\ writer' = [writer EXCEPT ![w].at = "open"]
  /\ UNCHANGED <<content, durable, directory, kept, vouched, removed>>

-----------------------------------------------------------------------------
(* The directory.                                                           *)
Gone(names) == removed' = removed \union {<<n, directory[n]>> : n \in names}
DeleteFile(name) ==
  /\ Exists(name)
  /\ directory' = [directory EXCEPT ![name] = NoFile]
  /\ Gone({name})
  /\ UNCHANGED <<content, durable, kept, writer, vouched>>
(* The database renames what it has written and closed, never a manifest,   *)
(* and never gives a file a name back it has had.                           *)
RenameFile(src, target) ==
  /\ Exists(src) /\ ~InUse(directory[src]) /\ {src, target} \intersect Manifests = {}
  /\ src # target /\ <<target, directory[src]>> \notin removed
  /\ directory' = [directory EXCEPT ![target] = directory[src], ![src] = NoFile]
  /\ Gone({src, target})
  /\ UNCHANGED <<content, durable, kept, writer, vouched>>

-----------------------------------------------------------------------------
(* The power fails: what was not synced is lost.                            *)
PowerFails ==
  /\ directory' = kept /\ content' = durable
  /\ writer' = [w \in Writers |-> Closed]
  /\ UNCHANGED <<durable, kept, vouched, removed>>

Next ==
  \/ \E w \in Writers, n \in Names : NewWritableFile(w, n) \/ NewAppendableFile(w, n)
  \/ \E w \in Writers : AppendRecord(w) \/ Flush(w) \/ Close(w) \/ SyncDirIfManifest(w) \/ SyncData(w) \/ SyncFails(w)
  \/ \E n \in Names : DeleteFile(n)
  \/ \E n, m \in Names : RenameFile(n, m)
  \/ PowerFails

Spec == Init /\ [][Next]_fileVars

-----------------------------------------------------------------------------
(* When a manifest has been synced, the files its records speak of are      *)
(* still there after a loss of power, though nobody synced the directory    *)
(* for them, until they are deleted or renamed.                             *)
VouchedFilesSurvive == \A p \in vouched \ removed : kept[p[1]] = p[2]
=============================================================================
