---------------------------- MODULE PosixReaders ----------------------------
(***************************************************************************)
(* leveldb: the files that the POSIX environment reads (util/env_posix.cc) *)
(* and the limits on the maps and descriptors it holds for them.  Some     *)
(* readers have a map of the file, others a descriptor, and when there are *)
(* too many of both a reader opens the file by its name on every read;     *)
(* meanwhile the file may be deleted.                                      *)
(*                                                                         *)
(* A file is FileSize bytes under one name, and is complete when it is     *)
(* opened for reading; leveldb never gives a name to a second file.        *)
(***************************************************************************)
EXTENDS Integers, FiniteSets

CONSTANTS
  Names,
  Readers,
  FileSize,
  MmapLimit, FdLimit           (* what MaxMmaps and MaxOpenFiles return    *)

(* What the constants are.                                                  *)
SizesAssumption == FileSize \in Nat /\ MmapLimit \in Nat /\ FdLimit \in Nat
ReadersAssumption == IsFiniteSet(Readers)

VARIABLES
  files,           (* names that lead to their file                        *)
  reader,          (* reader -> how it reads, where it is, what it got     *)
  mmap_limit_, fd_limit_       (* what is left of the limits               *)

readerVars == <<files, reader, mmap_limit_, fd_limit_>>

Failed == <<-1, -1>>                           (* IOError              *)
Nothing == <<0, 0>>                            (* got: <<from, to>>        *)
Closed == [by |-> "nothing"]

Init ==
  /\ files = Names
  /\ reader = [r \in Readers |-> Closed]
  /\ mmap_limit_ = MmapLimit /\ fd_limit_ = FdLimit

Begin(r, name, by) ==
  /\ reader[r] = Closed /\ name \in files
  /\ reader' = [reader EXCEPT ![r] = [by |-> by, name |-> name, length |-> 0, pos |-> 0, asked |-> Nothing, got |-> Nothing]]

DeleteFile(name) ==
  /\ name \in files /\ files' = files \ {name}
  /\ UNCHANGED <<reader, mmap_limit_, fd_limit_>>

-----------------------------------------------------------------------------
(* Limiter.                                                                 *)
Acquire(limit) == limit > 0
(* Slip: what is given back is lost.                                        *)
Forget(limit) == limit
Release(limit) == limit + 1

NewSequentialFile(r, name) == Begin(r, name, "stream") /\ UNCHANGED <<files, mmap_limit_, fd_limit_>>

(* The file is open, and there may be room for a map.  GetFileSize follows. *)
NewRandomAccessFile(r, name) ==
  /\ \/ Acquire(mmap_limit_) /\ Begin(r, name, "opened") /\ mmap_limit_' = mmap_limit_ - 1 /\ UNCHANGED fd_limit_
     \/ ~Acquire(mmap_limit_) /\ Acquire(fd_limit_) /\ Begin(r, name, "fd") /\ fd_limit_' = fd_limit_ - 1 /\ UNCHANGED mmap_limit_
     \/ ~Acquire(mmap_limit_) /\ ~Acquire(fd_limit_) /\ Begin(r, name, "name") /\ UNCHANGED <<mmap_limit_, fd_limit_>>
  /\ UNCHANGED files

Map(r) ==
  /\ reader[r].by = "opened" /\ reader[r].name \in files
  /\ reader' = [reader EXCEPT ![r] = [@ EXCEPT !.by = "mmap", !.length = FileSize]]
  /\ UNCHANGED <<files, mmap_limit_, fd_limit_>>

(* The name is gone, or mmap fails.                                         *)
MapFails(r) ==
  /\ reader[r].by = "opened"
  /\ mmap_limit_' = Release(mmap_limit_)
  /\ reader' = [reader EXCEPT ![r] = Closed]
  /\ UNCHANGED <<files, fd_limit_>>

CloseReader(r) ==
  /\ reader[r].by \in {"stream", "fd", "name", "mmap"}
  /\ mmap_limit_' = IF reader[r].by = "mmap" THEN Release(mmap_limit_) ELSE mmap_limit_
  /\ fd_limit_' = IF reader[r].by = "fd" THEN Release(fd_limit_) ELSE fd_limit_
  /\ reader' = [reader EXCEPT ![r] = Closed]
  /\ UNCHANGED files

-----------------------------------------------------------------------------
(* Read: n bytes from an offset, or as many as there are.                   *)
AtMost(i) == IF i < FileSize THEN i ELSE FileSize
Piece(offset, n) == <<AtMost(offset), AtMost(offset + n)>>
Got(r, offset, n, got) ==
  /\ reader' = [reader EXCEPT ![r] = [@ EXCEPT !.asked = <<offset, offset + n>>, !.got = got]]
  /\ UNCHANGED <<files, mmap_limit_, fd_limit_>>

ReadMmap(r, offset, n) ==
  /\ reader[r].by = "mmap"
  /\ Got(r, offset, n, IF offset + n > reader[r].length THEN Failed ELSE <<offset, offset + n>>)
ReadRandomAccess(r, offset, n) ==
  \/ reader[r].by = "fd" /\ Got(r, offset, n, Piece(offset, n))
  \/ reader[r].by = "name" /\ Got(r, offset, n, IF reader[r].name \in files THEN Piece(offset, n) ELSE Failed)

(* A stream goes on from where it is; Skip may take it past the end.        *)
ReadSequential(r, n) ==
  /\ reader[r].by = "stream"
  /\ LET from == reader[r].pos
         to   == IF from < FileSize THEN AtMost(from + n) ELSE from
     IN  reader' = [reader EXCEPT ![r] = [@ EXCEPT !.pos = to, !.asked = <<from, from + n>>, !.got = Piece(from, n)]]
  /\ UNCHANGED <<files, mmap_limit_, fd_limit_>>
Skip(r, n) ==
  /\ reader[r].by = "stream" /\ reader[r].pos <= FileSize
  /\ reader' = [reader EXCEPT ![r] = [@ EXCEPT !.pos = reader[r].pos + n]]
  /\ UNCHANGED <<files, mmap_limit_, fd_limit_>>

Next ==
  \/ \E n \in Names : DeleteFile(n)
  \/ \E r \in Readers, n \in Names : NewSequentialFile(r, n) \/ NewRandomAccessFile(r, n)
  \/ \E r \in Readers : Map(r) \/ MapFails(r) \/ CloseReader(r)
  \/ \E r \in Readers, n \in 1..2 : ReadSequential(r, n) \/ Skip(r, n)
  \/ \E r \in Readers, offset \in 0..FileSize, n \in 1..2 : ReadMmap(r, offset, n) \/ ReadRandomAccess(r, offset, n)

Spec == Init /\ [][Next]_readerVars

-----------------------------------------------------------------------------
(* The limits count the maps and descriptors that readers hold, also after  *)
(* an opening that failed half-way: the room is not used up in the course   *)
(* of many openings.  A read with room for all it asks for is the same      *)
(* whatever way the reader reads, unless it says that it failed, and a      *)
(* reader that holds its file is not disturbed by its deletion.             *)
By(kinds) == {r \in Readers : reader[r].by \in kinds}
LimitsHold ==
  /\ mmap_limit_ >= 0 /\ mmap_limit_ + Cardinality(By({"opened", "mmap"})) = MmapLimit
  /\ fd_limit_ >= 0 /\ fd_limit_ + Cardinality(By({"fd"})) = FdLimit
ReadsAreRight ==
  \A r \in By({"mmap", "fd", "name", "stream"}) :
    reader[r].asked[2] <= FileSize =>
      \/ reader[r].got = reader[r].asked
      \/ reader[r].got = Failed /\ reader[r].by = "name" /\ reader[r].name \notin files
ReadersKeepLimits == LimitsHold /\ ReadsAreRight
=============================================================================
