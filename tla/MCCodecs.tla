------------------------------ MODULE MCCodecs ------------------------------
(***************************************************************************)
(* What is written as bytes by one part of the program and read by another *)
(* (nanopb, the log, the formats and the checksum of leveldb, base64), for *)
(* the run of MCStructures: a behaviour is one of one of the modules, which *)
(* codec names.  They share no state, so they share the variables of the    *)
(* check; those a part has no use for stay 0.                              *)
(***************************************************************************)
EXTENDS PbField, TLC

VARIABLES codec, v1, v2, v3, v4, v5, v6, v7, v8, v9, v10, v11

AfterNine   == <<v10, v11>>
AfterEight  == <<v9, AfterNine>>
AfterSeven  == <<v8, AfterEight>>
AfterSix    == <<v7, AfterSeven>>
AfterFive   == <<v6, AfterSix>>
AfterFour   == <<v5, AfterFive>>
AfterTwo    == <<v3, v4, AfterFour>>
Shared      == <<v1, v2, AfterTwo>>

ZeroAfterNine   == v10 = 0 /\ v11 = 0
ZeroAfterEight  == v9 = 0 /\ ZeroAfterNine
ZeroAfterSeven  == v8 = 0 /\ ZeroAfterEight
ZeroAfterSix    == v7 = 0 /\ ZeroAfterSeven
ZeroAfterFive   == v6 = 0 /\ ZeroAfterSix
ZeroAfterFour   == v5 = 0 /\ ZeroAfterFive
ZeroAfterTwo    == v3 = 0 /\ v4 = 0 /\ ZeroAfterFour

-----------------------------------------------------------------------------
(* nanopb: the types of messages, and messages and readers of each.         *)
Number(tag, kind, rules, size) == PB_FIELD(tag, kind, rules, "static", size, 0, 0)
Text(tag, kind, rules, size, max, default) == PB_FIELD(tag, kind, rules, "static", size, max, default)
Array(tag, kind, size, max) == PB_FIELD(tag, kind, "repeated", "static", size, max, 0)
Part(tag, rules, sub) == PB_FIELD(tag, "MESSAGE", rules, "static", 0, 2, sub)
Callback(tag) == PB_FIELD(tag, "STRING", "optional", "callback", 0, 0, TRUE)

Counters == <<Number(1, "UINT64", "required", 16), Number(2, "SINT32", "optional", 8),
              Number(3, "INT32", "optional", 4), Array(4, "INT64", 16, 2),
              Number(6, "FIXED64", "optional", 16)>>
Texts == <<Text(1, "STRING", "optional", 3, 0, << >>), Text(2, "BYTES", "optional", 3, 0, << >>),
           Text(3, "FIXED_LENGTH_BYTES", "singular", 2, 0, <<0, 0>>),
           Text(5, "STRING", "repeated", 2, 2, << >>),
           PB_FIELD(9, "STRING", "optional", "pointer", 0, 0, << >>)>>
Inner == <<Number(1, "INT32", "singular", 8), Array(2, "FLOAT", 8, 2)>>
Nested == <<Part(1, "singular", Inner), Part(2, "repeated", Inner)>>
Mixed == <<PB_ONEOF_FIELD(1, 1, "ENUM", 8, 0), PB_ONEOF_FIELD(1, 2, "MESSAGE", 0, Inner), Callback(5),
           PB_FIELD(10, "EXTENSION", "optional", "callback", 0, 0, FALSE)>>
Wrapped == <<Part(1, "optional", <<Callback(1)>>)>>
Needed(n) == [i \in 1..n |-> Number(i, "UINT32", "required", 8)]
Ext(v) == <<[field |-> Number(11, "BOOL", "optext", 8), slot |-> <<v>>],
            [field |-> Number(12, "SINT64", "optext", 16), slot |-> <<300>>]>>

Schemas == {Counters, Texts, Nested, Mixed, Wrapped, Needed(2), Needed(3), << >>}
Slots(S) == {<< >>} \union {<<x>> : x \in S}
Inners == {(1 :> a @@ 2 :> b) : a \in {<<0>>, <<-1>>}, b \in {<< >>, <<0>>, <<7, 0>>, <<0, 5>>}}
MessagesOf(t) ==
  CASE t = Counters -> {(1 :> <<a>> @@ 2 :> b @@ 3 :> c @@ 4 :> d @@ 6 :> e) :
          a \in {0, 300, 65535}, b \in Slots({-128, 127}), c \in Slots({-8, 7}),
          d \in {<< >>, <<-1>>, <<0, 200>>}, e \in Slots({515})}
    [] t = Texts -> {(1 :> a @@ 2 :> b @@ 3 :> <<c>> @@ 5 :> d @@ 9 :> e) :
          a \in Slots({<< >>, <<65, 66>>}), b \in Slots({<< >>, <<0, 9>>}), c \in {<<0, 0>>, <<1, 0>>},
          d \in {<< >>, <<<< >>>>, <<<<65>>, <<66>>>>}, e \in Slots({<<65, 0, 66>>})}
    [] t = Nested -> {(1 :> <<a>> @@ 2 :> b) : a \in Inners, b \in {<< >>} \union {<<x>> : x \in Inners}}
    [] t = Mixed -> {(1 :> u[1] @@ 2 :> u[2] @@ 5 :> c @@ 10 :> Ext(e)) :
          u \in {<< <<>>, <<>> >>, << <<5>>, <<>> >>} \union {<< <<>>, <<x>> >> : x \in Inners},
          c \in Slots({<<1, 2>>}), e \in {0, 1}}
    [] t = Wrapped -> {(1 :> <<(1 :> c)>>) : c \in {<< <<1>> >>, << <<1>>, <<2>> >>, << <<1>>, <<2, 3>> >>, << <<1, 2>>, <<3>> >>}}
    [] t = << >> -> {<< >>}
    [] OTHER -> {[i \in 1..Len(t) |-> <<x>>] : x \in {0, 5}}
Without(t, tag) == SelectSeq(t, LAMBDA f : f.tag # tag)
ReadersOf(t) ==
  IF t = Texts THEN {Without(t, 9)}
  ELSE {t} \union {Without(t, f.tag) : f \in {g \in ToSet(t) : g.ltype # "extension"}}

Pb == INSTANCE Nanopb WITH Width64 <- 16, Width32 <- 8, WordBits <- 2, Rooms <- {4, 40}, allbits <- v1, type <- v2,
  message <- v3, reader <- v4, delimited <- v5, sent <- v6, cut <- v7, received <- v8, phase <- v9

-----------------------------------------------------------------------------
(* The log.                                                                 *)
Log == INSTANCE LogFormat WITH BlockSize <- 7, HeaderSize <- 3, Offsets <- {0, 6, 8}, Lengths <- {0, 4, 9},
  MaxRecords <- 2, Failures <- 1, Damages <- {"payload", "length", "zeroed"}, fragments <- v1, size <- v2,
  block_offset <- v3, written <- v4, failures <- v5, damage <- v6, garbage <- v7, initial_offset <- v8, reader <- v9,
  read <- v10, reports <- v11

-----------------------------------------------------------------------------
(* Edits, batches, footers and names of files.                              *)
Numbers == {0, 7, 8, 511, 65535}
Some(S) == {<< >>} \union {<<x>> : x \in S}
Edits ==
  {[comparator |-> c, log_number |-> l, prev_log_number |-> << >>, next_file_number |-> n, last_sequence |-> s,
    compact_pointers |-> << >>, deleted_files |-> {}, new_files |-> << >>] :
     c \in Some({<<1, 2>>}), l \in Some(Numbers), n \in Some({9}), s \in Some(Numbers)}
  \union
  {[comparator |-> << >>, log_number |-> << >>, prev_log_number |-> p, next_file_number |-> << >>, last_sequence |-> << >>,
    compact_pointers |-> c, deleted_files |-> d, new_files |-> f] :
     p \in Some({0, 8}), c \in {<< >>, << <<0, <<1>>>>, <<2, << >>>> >>}, d \in {{}, {<<2, 511>>, <<1, 9>>}},
     f \in {<< >>, << <<0, 7, 511, <<1>>, <<2, 3>>>> >>, << <<1, 8, 1, <<1>>, <<1>>>>, <<2, 65535, 8, << >>, <<15>>>> >>}}
V(k, v) == <<1, k, v>>
D(k) == <<0, k>>
Groups == {<< >>, <<V(<<1>>, <<2>>)>>, <<D(<<1, 0>>)>>, <<V(<<0>>, << >>), D(<<0>>)>>, <<V(<<1, 1>>, [i \in 1..9 |-> i])>>}
Batches == [seq : {0, 8, 65530}, first : Groups, second : Groups]
Handles == {<<a, b>> : a \in {0, 8, 65534}, b \in {1, 511, 65534}}
Footers == [metaindex : Handles, index : Handles]
FileNames ==
  [prefix : {"", "MANIFEST-"}, digits : UNION {[1..n -> {0, 3, 5, 6}] : n \in 0..5} \union [1..6 -> {0, 5, 6}],
   suffix : {"", ".log", ".ldb", ".sst", ".dbtmp", "x"}]
  \union [prefix : {"CURRENT", "LOCK", "LOG", "LOG.old", "lost"}, digits : {<< >>, <<1>>}, suffix : {"", ".log"}]

Agreed == INSTANCE Formats WITH Base <- 8, Size32 <- 2, Size64 <- 4, Digits32 <- 3, Digits64 <- 6, kNumLevels <- 3,
  FirstWidth <- 3, Magic <- <<87, 219>>, Names <- FileNames, kind <- v1, original <- v2, rep <- v3, whole <- v4,
  input <- v5, decoded <- v6, found <- v7, status <- v8

Ordered == INSTANCE InternalKeys WITH Base <- 8, Size32 <- 2, Size64 <- 3, Digits32 <- 3, Digits64 <- 5,
  Keys <- {<< >>, <<1>>, <<1, 0>>, <<1, 0, 0, 0, 0>>}, Values <- {<<3, 8>>}, Sequences <- {0, 15, 16, 255}, MaxEntries <- 3,
  entries <- v1, written <- v2

-----------------------------------------------------------------------------
(* Checksums and base64, at their true widths.                              *)
Sum == INSTANCE Crc32c WITH Addresses <- 0..3,
  Strings <- {[i \in 1..n |-> (k * i) % 256] : n \in {0, 1, 2, 3, 4, 5, 7, 9, 16, 19, 22}, k \in {0, 37, 255}},
  pval <- v1, data <- v2, first <- v3, p <- v4, e <- v5, l <- v6, pc <- v7

Keys64 == UNION {[1..n -> {0, 1, 200, 255}] : n \in 0..3} \union {[i \in 1..n |-> (37 * i) % 256] : n \in {4, 5, 6, 16, 20}}
(* Of 66 characters, 64 is the pad, 65 a space and 66 none of the alphabet. *)
Texts64 == UNION {[1..n -> {0, 16, 63, 64, 65, 66}] : n \in 0..4} \union {<<0, 16, 64, 64, x>> : x \in 63..66}
Sixty == INSTANCE Base64 WITH Inputs <- Keys64, Texts <- Texts64, TargSizes <- {1, 3, 4, 21}, text <- v1, src <- v2,
  target <- v3, targsize <- v4, tarindex <- v5, state <- v6, result <- v7

-----------------------------------------------------------------------------
CodecsInit ==
  \/ codec = "nanopb" /\ Pb!Init /\ ZeroAfterNine
  \/ codec = "log"    /\ Log!Init
  \/ codec = "format" /\ Agreed!Init /\ ZeroAfterEight
  \/ codec = "keys"   /\ Ordered!Init /\ ZeroAfterTwo
  \/ codec = "crc"    /\ Sum!Init /\ ZeroAfterSeven
  \/ codec = "base64" /\ Sixty!Init /\ ZeroAfterSeven

NanopbNext == codec = "nanopb" /\ Pb!Next /\ UNCHANGED AfterNine
LogNext    == codec = "log" /\ Log!Next
FormatNext == codec = "format" /\ Agreed!Next /\ UNCHANGED AfterEight
KeysNext   == codec = "keys" /\ Ordered!Next /\ UNCHANGED AfterTwo
CrcNext    == codec = "crc" /\ Sum!Next /\ UNCHANGED AfterSeven
Base64Next == codec = "base64" /\ Sixty!Next /\ UNCHANGED AfterSeven

CodecsNext == NanopbNext \/ LogNext \/ FormatNext \/ KeysNext \/ CrcNext \/ Base64Next

-----------------------------------------------------------------------------
(* nanopb: a message that arrives whole is decoded to what was sent, and    *)
(* one that is cut is refused or has only whole fields.                     *)
ReadsWhatWasSent == codec = "nanopb" => Pb!ReadsWhatWasSent

(* leveldb's log: what is read was written, once and in order, and what was *)
(* written is read or reported.                                             *)
LogIsReadRight == codec = "log" => Log!EveryRecordReadWasWritten /\ Log!NothingIsLostInSilence

(* leveldb's encodings are read as they were written, internal keys sort so *)
(* that a lookup meets the newest visible entry first, the crc is that of   *)
(* the data however it lies and is cut, and a text in base64 stands for its *)
(* bytes alone.                                                             *)
EncodingsAgree ==
  /\ codec = "format" => Agreed!FormatsAgree
  /\ codec = "keys" => Ordered!KeysAreRight
  /\ codec = "crc" => Sum!CrcIsOfTheData
  /\ codec = "base64" => Sixty!OneTextForBytes

ASSUME WidthAssumption == Pb!WidthAssumption
(* The check value of util/crc32c_test.cc for 32 zeros.                     *)
ASSUME CheckValue == Sum!Crc([i \in 1..32 |-> 0]) = Sum!WordOf(13994, 35473)
=============================================================================
