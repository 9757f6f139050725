# Chef Yourself in TLA+

Chef Yourself is an iPhone app with an Apple Watch companion. The phone loads a
book of recipes from Firebase, offers them in a catalogue and shows the details
of one; its *Start recipe* button hands the recipe to the watch, which shows a
page for each step and, after a step that has a time, a page with a countdown.
Into the phone app is linked, from `Pods/`, what Firebase stands on: the leveldb
storage engine under its local cache, the nanopb codec of its messages, and the
client of its database with the connection and the base 64 of its web socket.

This directory holds a model of that program: TLA+ modules translated from the
Swift, C and C++ sources, TLC configurations that check them on small instances,
and theorems that TLAPS checks for all instances. Paths below are relative to
`src/WatchAndSee/`; `app/` stands for `WatchAndSee/`, `watch/` for
`WatchAndSee Watch Extension/` and `leveldb/` for `Pods/leveldb-library/`, `firebase/` for
`Pods/FirebaseDatabase/Firebase/Database/`.

## The system

The app:

| Part | State | Operations | Talks to |
|---|---|---|---|
| Catalogue (`app/Controllers/ViewController.swift`, `Cells/CategoryCell.swift`, `Services/ObjectsManager.swift`, `Supporting Files/InternetConnection.swift`) | recipes, categories, highlight, `rec`, touches on or off, loading view; `categoryList` and `recipeList` of the manager; the category of each cell | `viewDidLoad`, the completion, `createCategories`, `getElements`, `setupHighlightRecipe`, cell data sources, taps | database (callback), details (segue), network |
| Database and parser (`app/Services/DatabaseService.swift`, `ParseManager.swift`) | a singleton and its parser, whose `ingredients` and `steps` outlive a call | `createRecipeObject`, `parseRecipe` | Firebase (single-event read) |
| Details (`app/Controllers/RecipesDetailsViewController.swift`) | the recipe, its rows, an alert | `viewDidLoad`, `startRecipeButtonPressed` | watch controller |
| Hand-over, phone (`app/Controllers/WatchController.swift`, `Supporting Files/AppDelegate.swift`) | activation state of the `WCSession` | launch, activation, change of watch, `sendValue` | WatchConnectivity |
| Encoding (`app/Services/ParseWatch.swift`) | none | `sendToWatch`, `decodeInWatch` | both ends of the hand-over |
| Hand-over, watch (`watch/InterfaceController.swift`) | `steps`, session, main queue, pages presented | activation, `didReceiveApplicationContext` and its block | WatchConnectivity, WatchKit |
| Timer pages (`watch/TimerInterfaceController.swift`) | `timeLeft`, `isRuning`, button title, the label's date | `awake`, `startTimer` | WatchKit timer label |
| Text pages (`watch/StepInterfaceController.swift`) | a label | `awake` | |
| Core Data stack, extension delegate, notifications, views | template code | | |

The engine of the phone's local store, and the codecs:

| Part | State | Operations | Talks to |
|---|---|---|---|
| Writers (`leveldb/db/db_impl.cc`) | `writers_`, `mem_`, `log_`, last sequence | `Write`, `BuildBatchGroup`, `MakeRoomForWrite`, `TEST_CompactMemTable` | log, memtable, background thread (`mutex_`, `bg_cv_`) |
| Background thread (`leveldb/db/db_impl.cc`) | `imm_`, `manual_compaction_`, `bg_error_`, `bg_compaction_scheduled_`, `shutting_down_` | `MaybeScheduleCompaction`, `BackgroundCall`, `CompactRange`, the destructor | `Env::Schedule`, writers |
| Levels (`leveldb/db/version_set.cc`, `version_set.h`) | the files of each level, `compact_pointer_`, seek counts, snapshots | `Get`, `PickCompaction`, `SetupOtherInputs`, the merge of `DoCompactionWork`, `LogAndApply` | tables, background thread |
| Files, recovery, repair (`leveldb/db/db_impl.cc`, `version_set.cc`, `repair.cc`) | logs, tables, manifests, `CURRENT`, `pending_outputs_` | `DB::Open`, `Recover`, `RecoverLogFile`, `LogAndApply`, `DeleteObsoleteFiles`, `RepairDB` | environment |
| Lifetimes (`leveldb/db/version_set.cc`, `db_impl.cc`, `memtable.h`) | reference counts | `Ref`, `Unref`, iterators' clean-up, the destructor | background thread, readers |
| Memtable (`leveldb/db/skiplist.h`, `memtable.cc`, `util/arena.cc`) | nodes, links, heights; blocks | `Add`, searches without a lock, `Allocate` | one writer, many readers |
| Tables and iterators (`leveldb/table/`, `db/db_iter.cc`, `util/bloom.cc`) | blocks, restarts, filters; an iterator's place and direction | building, `Seek`, `Next`, `Prev`, `Get` | caches, environment |
| Caches (`leveldb/util/cache.cc`, `db/table_cache.cc`) | hash table, LRU and in-use lists, counts | `Lookup`, `Insert`, `Release`, `Erase`, `Prune` | threads that read |
| Log files (`leveldb/db/log_writer.cc`, `log_reader.cc`) | a place in a block | `AddRecord`, `ReadRecord` | recovery |
| Encodings (`leveldb/util/coding.cc`, `logging.cc`, `crc32c.cc`, `db/version_edit.cc`, `write_batch.cc`, `filename.cc`, `dbformat.cc`) | none | encode and decode | everything with a file |
| Environment (`leveldb/util/env_posix.cc`) | lock table, queue and thread, limits, streams | `LockFile`, `Schedule`, `Sync`, `NewRandomAccessFile` ... | the system |
| nanopb (`Pods/nanopb/pb_encode.c`, `pb_decode.c`, `pb_common.c`) | streams, field iterators | `pb_encode`, `pb_decode` | Firebase's analytics messages |
| Base 64 (`Pods/FirebaseDatabase/.../fbase64.c`) | none | `f_b64_ntop`, `f_b64_pton` | web socket handshake |
| Connection of the database client (`firebase/Core/FPersistentConnection.m`, `Realtime/FConnection.m`, `Realtime/FWebSocketConnection.m`, `Core/Utilities/FIRRetryHelper.m`) | connection state, reasons of interruption, the credential and its fetches, listens, outstanding writes, requests awaiting an answer, the task of the retry helper | `open`, interrupt and resume, the retry block, the delegate calls of socket and connection, `listen`, `unlisten`, `put`, on-disconnect operations, `refreshAuthToken`, `purgeOutstandingWrites`, the answers | service, token provider, the repository above |

What is hard here. In the app, two programs live and die independently, with
one slot between them that a newer context overwrites; a delegate callback hands
its work to another queue; sessions fail, deactivate and come back; several
countdowns run against one clock; parsers and managers keep instance variables
between calls; and force unwraps turn a missing recipe, field, photo or
connection into the end of the app. In the engine, one mutex is let go in the
middle of writes, flushes, compactions and the destructor; readers walk a list
without it; files are deleted by counts and sets that have to be right; a crash
can come between any two calls of the system; and the data are reordered by
compactions while old versions must stay readable. In the connection, everything
is a block of one queue, but retries, tokens, handshakes and answers arrive when
what they were for may be over. In the codecs, lengths come from the bytes being
read. `PROJECT.json` lists each hazard at its line, with the
properties that cover it.

What makes each part correct:

* hand-over: the watch shows one started recipe, whole, never one older than it
  showed before; the recipe behind the last *Sucesso* does not vanish;
* encoding for the watch: it reads what the phone wrote, and pages pair up with
  their controllers;
* timers: never early, a stop is a reset, a countdown left alone runs out;
* start of the app: a recipe is made of its own child of the database and nothing
  else; the completion is called once, with all of them; what is offered is what
  came, a tap opens what was tapped, the start comes to an end;
* writers: answered in turn, batches whole, the log gives the memtable back, an
  acknowledged sync was a sync, nobody waits for ever;
* background: work is never forgotten, nothing runs after the destructor;
* levels: newer entries stay in front of older ones, so that reads are right;
* recovery: what was promised is there after a crash, and the database opens;
* structures: what is used is alive, what nobody uses is gone, searches and
  iterators miss nothing;
* connection: nobody sends before the handshake or after a close, a connection that
  is wanted is always being worked on; writes go out in their order and complete
  once, a transaction is not repeated; listens are asked for and counted;
* codecs: what is read is what was written, or an error.

## Modules

The app:

| Module | Models | State and actions |
|---|---|---|
| `WatchTransfer` | both ends of the hand-over, and what lies between | phone: `PhoneLaunch`, `PhoneActivationDidComplete`, `SessionDidBecomeInactive`, `SessionDidDeactivate`, `StartRecipe` (through `prepareToSendValue` and `sendValue`), `StartRecipeRefused`, `DismissAlert`, `PhoneTerminate`; watch: `WatchLaunch`, `WatchActivationDidComplete`, `DidReceiveApplicationContext`, `RunMainQueueBlock`, `DismissPages`, `WatchTerminate`. `outbox` is WatchConnectivity's slot |
| `ParseWatch` | the encoding, and the two arrays given to `presentController` | operators `sendToWatch`, `decodeInWatch`, `Contexts`, `Controllers` |
| `RecipeHandoff` | abstract: what *Start recipe* promises | `Choose`, `Show`, `Clear` |
| `TimerInterfaceController` | the timer pages of one presentation and the clock | `Awake`, `StartPressed`, `StopPressed` (the two halves of `startTimer`), `Tick` |
| `ParseManager` | one fetch: the loop of `createRecipeObject` and every path through `parseRecipe` | `CreateRecipeObject`, `Answered`, `Cancelled`, `PassOver`, `TrapOnIngredients`, `BlankOnShape`, `ReadRecipe`, `Complete` |
| `Catalog` | the first two screens | `ViewDidLoad`, `Received`, `ReceivedTraps`, `Cancelled`, `FillCell`, `HighlightPressed`, `DidSelectItem`, `Back`, `NetworkChanges` |
| `StartUp` | `ParseManager` and `Catalog` together: the catalogue gets the book the parser made | `LoadScreen`, `Answers`, `Refuses`, `Parses`, `Delivers`, `DeliveryTraps`, `Fills`, `Touched`, `Network` |

The engine and the codecs:

| Module | Models | State and actions |
|---|---|---|
| `BackgroundWork` | the one background thread, the calls it serves, the destructor | one action for the code between two releases of `mutex_`: `BackgroundCall`, `TableBuilt`, `FlushApplied`, `Merged`, `CompactionInstalled`, their failures, `CompactRange...`, `Destroyed` ... |
| `WriteQueue` | `Write` by several threads, on top of `BackgroundWork` | `Write`, `Woken`, the branches of `MakeRoomForWrite`, `AddRecord`, `Sync`, `InsertEntry`, `EndOfWrite`, `FlushAwaited` |
| `PosixSchedule` | `Env::Schedule` and its thread | `Schedule` in its steps, `Wait`, `Pop`, `FunctionReturns` |
| `VersionSet`, `LsmTree` | the computations on levels; the database that they serve | `Write`, `SwitchMemTable`, `CompactMemTable`, `GetSnapshot`, `UpdateStats`, `RecordReadSample`, `PickCompaction`, `CompactSomeRange`, `InstallCompactionResults` |
| `Recovery` | the directory, its files, `DB::Open` and `RepairDB` | writes, flushes, compactions, edits of the manifest, each call of the system a step; `ProcessStops`, `PowerFails` at any of them |
| `Lifetimes` | counts of versions, file metadata, memtables; `pending_outputs_`; obsolete tables | readers come and go between every step of flushes and compactions, which may fail |
| `MemTable`, `Arena`, `InternalKeys` | the skip list link by link, the memory under it, the keys in it | `Add`, `Link`, steps of a reader; `Allocate`, `AllocateAligned`; entries and lookup keys in bytes |
| `Cache` | a sharded cache of open tables used by threads | `FindTable`, `OpenedTable`, `Release`, `Erase`, `PruneShard`, `Destroy` |
| `SortedTable`, `Iterators` | building a table; block, two-level, merging and level iterators; the database iterator, `Get`, `ApproximateOffsetOf` | functions from an iterator to the iterator after the call; `Step` walks the database iterator |
| `PosixFiles`, `CurrentFile`, `PosixReaders`, `PosixLock` | files and power failures, `SetCurrentFile`, limited file handles, file locks | one action per call of the system |
| `LogFormat` | log and manifest files fragment by fragment | `AddRecord`, `LoseTheEnd`, `GoBad`, `Open`, `ReadRecord` |
| `Coding`, `Formats` | varints, words and decimal numbers; edits, batches, handles, footers, file names | one thing is written, perhaps cut, and read field by field |
| `Crc32c`, `Base64` | the checksum; the web socket's base 64 | `Extend` and the masks; both directions |
| `PbField`, `Nanopb` | field descriptions; nanopb | `EncodeMessage`, `LoseTheEnd`, `DecodeMessage` |
| `PersistentConnection` | the client's connection, its retries, requests and writes | the app's and the system's calls (`Open`, `GoOffline`, `GoOnline`, `ReachabilityCallback`, `Listen`, `Unlisten`, `PutInternal`, `OnDisconnectData`, `RefreshAuthToken`, `PurgeOutstandingWrites`); `RetryBlock` and the fetches (`FetchSucceeded`, `FetchFailed`, `FetchFailedForGood`); the socket (`WebSocketDidOpen`, `OnHandshake`, `OnClosed`, `OnReset`, `OnConnectionShutdown`, `OnAuthRevoked`, `OnListenRevoked`); the answers (`AuthAnswered`, `AuthRefused`, `PutAnswered`, `OpAnswered`, `ListenAnswered`, `AckPuts`) |
| `...Proofs` | theorems; those of `TimerInterfaceController` are in the module | |
| `MC...` | the instances TLC checks; `LsmTree`, `Recovery` and `PersistentConnection` need none | |

How they fit together. `WatchTransfer` extends `ParseWatch`; its property
`ImplementsHandoff` is the specification of `RecipeHandoff` under a refinement
mapping: what was started (`started`), the newest recipe shown (`lastShown`) and
the pages on screen. `StartUp` extends `ParseManager` and instantiates `Catalog`,
whose view of the call is a function of the parser's state. `WriteQueue` extends
`BackgroundWork`: a writer's steps change its variables through
`SwitchMemTable` and `RecordBackgroundError`. `LsmTree` extends `VersionSet`,
`Iterators` extends `SortedTable`; `Formats` and `InternalKeys` extend `Coding`;
`Nanopb` extends `PbField`. `MCEngine` and `MCStructures`, which extends
`MCCodecs`, put several modules that share no state into one run: `part` says
which one a behaviour is of.

`PosixSchedule` is what lets `BackgroundWork` say that what is scheduled runs,
`PosixFiles` and `CurrentFile` what `Recovery` assumes of `Sync`, of the
directory and of `CURRENT`, `LogFormat` that a log is a sequence of records, and
`Lifetimes` that a version that is read has its files: each is the level below
of the other, checked on its own.

Definitions whose comment starts with *Slip* are mistakes that could be made in
the definition below them. No action uses them. Each is there to be put in that
definition's place, where the property named in `PROJECT.json` must then fail.

### How the code is abstracted

The app:

* A recipe name is a set of words and `contains` is inclusion; texts, photos and
  the four header strings of a recipe are model values.
* A Swift dictionary is a function from its keys. The keys of steps and
  ingredients are strings with a common prefix and a number (plain numbers would
  come back from Firebase as an array and make every recipe blank), and the
  order of such strings is computed from the numbers, digit by digit.
* What a block or handler does on the main thread is one step, synchronous photo
  loads included. A force unwrap that fails ends the app in that step.
* Code outside `src/` is modelled from the calls made to it: WatchConnectivity
  keeps one context, the last, until it is delivered, and may refuse an update at
  any time; WatchKit presents the new pages or, when pages are up, may ignore the
  call; a timer label counts to its date and then reads zero; Firebase answers a
  single-event read once, or refuses it and calls nothing.
* `PersistentConnection` is below all that, at its own grain: `Catalog` sees of it
  only that an answer comes, or a refusal, or nothing. A block of the client's
  queue is one step; a block that calls back into the client is a call of its own.
  Request numbers start again with each connection, which no answer can tell: an
  answer that belongs to a closed connection reaches nobody.
* Serial numbers of contexts, `dropped`, `lastShown`, `elapsed`,
  `origin`, `completions` and `tapped` are history: no guard reads them.
  (`started` is history too, except for the bound on its length.)

The engine and the codecs:

* Each module has its own grain. A write is entries of one call in `WriteQueue`,
  one record in `Recovery`, an entry with a sequence number in `LsmTree`; a table
  is a set of them, its size their number. Bytes appear in `SortedTable`,
  `Coding`, `Formats`, `InternalKeys`, `Nanopb`, `Crc32c` and `Base64` alone.
* What happens with `mutex_` held is one step, up to the next release or wait.
* The skip list's `max_height_` is read without a barrier: a reader may still get
  any earlier value.
* In `Recovery`, names in the directory are durable at once and in order;
  deletions of one kind happen all or not; `SetCurrentFile` is one step
  (`CurrentFile` has its steps); `RepairDB` runs to its end. Appends and syncs of
  a log and of a manifest may fail, and an append that failed may have left a
  part of its record, behind which the program goes on: whether a reader finds a
  later record is open (it does not when both lie in one block, `LogFormat` has
  the blocks). In a log such a record is dropped, because `paranoid_checks` is
  off; in a manifest it is a `Corruption`, or the end.
* `InsertInto` does not fail in `WriteQueue`: it does so only for a batch that is
  malformed, and `WriteBatch` makes none.
* Locks of `fcntl` belong to a process and end with the first close of any
  descriptor of the file, as POSIX has it.
* nanopb is what the pods build: without `PB_ENABLE_MALLOC`, with
  `PB_FIELD_32BIT`. The checksum has no hardware: `port::AcceleratedCRC32C`
  returns 0.

## Runs

| Run | Instance | Shows |
|---|---|---|
| `transfer` | three recipes (timed first step; one step; none), up to 3 hand-overs | the invariants of the hand-over, the refinement of `RecipeHandoff`, and under fairness (`HandOversEnd`) that a watch app that stays up runs the last recipe and that a phone gets its session back after a change of watch |
| `timers` | three pages with times 2, 1 and -2 | never early, stop resets, a countdown runs out |
| `startup` | every book of up to three of ten children, two categories, a network that comes and goes | recipes from their own children; screens that show the book; what ends the app; where the start ends |
| `engine` | three writers, one of which may ask for a flush instead; or two threads in `CompactRange`, switches, errors and the destructor; or two callers of `Schedule` | no work is forgotten, writes are whole and in turn, a replay of the log gives the memtable, acknowledgements are honest, and every flush, request, write and scheduled item comes to its end |
| `lsm` | three keys, three writes, one snapshot, three levels, requested compactions of one key | order of the tree, and every read |
| `range_overlap` | three keys, five writes of one entry, two levels, requested compactions of everything | **violated**: `version_set.cc:765` asserts that the files of a level do not overlap; a flush during a requested compaction of level 0 is put on level 1 in between |
| `stale_read` | files of one entry, four writes, four levels, no requested compactions | **violated**: `version_set.cc:346` says entries never hop across levels; with two versions of a key in neighbouring files of one level a compaction takes the newer away and leaves the older in front |
| `recovery` | two writes, memtables of two, two crashes or failed calls | promised writes survive, tables in use exist, sequence numbers go on, the database opens |
| `torn_log` | the same | **violated**: `options.h:194` says that a crash of the process alone loses no write; one that returned behind an append that failed half-way is dropped at recovery |
| `structures` | lock file, skip list, arena, cache, lifetimes, files, limits, `CURRENT`, iterators; nanopb, log files, formats, internal keys, checksum, base 64 | each holds under its own interleavings and faults, and what is read is what was written, or an error |
| `lock_file` | two threads of a process and one of another | **violated**: `env.h:112` says LockFile keeps other processes out; a second attempt of the same process gives the lock away |
| `connection` | two queries, two writes, five calls, two fetches of a token | the connection, its writes and its listens are kept through every order of calls, answers, losses and refusals |

### Bounds, and why they are enough

The app:

* `MaxSends` = 3 bounds the hand-overs of a behaviour: the fewest with one
  context run, one on the main queue and one in the slot that replaces another.
  Launches, terminations and changes of watch repeat freely.
* Recipes of at most two steps: a timed step before another step is the smallest
  recipe where a page and its step have different positions.
* Timer pages: two different times run out in either order. Dates are kept
  relative to the clock, so time itself is not bounded.
* Books of three children: one to leave something in the parser, one to be
  spoiled by it, one on either side. The keys 2 and 10 are the smallest pair
  whose string order is not numerical. Categories of two elements and of one:
  with equal lengths a list that is not emptied would be harder to see.

The engine:

* `MaxWrites` = 3 calls by three threads: one writes a synced batch of one entry,
  one an unsynced batch of two, and the third asks for a flush or writes a synced
  entry. So there is a first writer, one that joins its group, and one that must
  not (a sync behind a write without one, a null batch, or more than `MaxGroup` =
  3 entries). `BufferSize` = 1 fills a memtable within those calls; `Trigger` = 1,
  `SlowdownTrigger` = 1 and `StopTrigger` = 2 make every branch of
  `MakeRoomForWrite` happen. `MaxRounds` = 2: a request to compact is split once.
* `lsm` has three writes of three keys so that an overwrite, a deletion and a
  snapshot between them meet in three levels, and a file may lie between two
  others; `TargetFileSize` = 4 keeps the outputs of one compaction in one file,
  so that the order of the tree is that of the levels. `Ranges` are the ranges
  given to `CompactRange`: of one key each, so that the files of level 0 it takes
  are connected, with nothing between them. Those of a wider range need not be, which
  breaks the order of the tree once there are three keys: that is `range_overlap`, which
  asks for all keys (`Ranges` = {{}}), needs no deletions (`Deletes` = {FALSE}) and compacts
  nothing by itself (`L0Trigger` = 9). `stale_read` has
  `TargetFileSize` = 1, which cuts between the versions of a key, a level more and
  no requested compactions.
* `recovery` and `torn_log`: two writes, and two crashes or failures, so that one
  crash falls into the Open that follows another, or behind a failed append or
  edit; `MaxMem` = 2 makes memtables and logs rotate; `MaxFiles` = 10 numbers are
  more than those behaviours need, and from `MaxOutputs` = 7 on a table is not
  compacted by itself once more. `Faults` = {FALSE}: power fails, and edits are cut short,
  only without `reuse_logs`; the process stops and logs are torn also with it (see *What
  the models say*).
* `connection`: five calls are the fewest with a query, a write and a going off
  line and back on around an answer; two writes have an order, two queries a
  count; `Specs` = {s, t} lets a query be dropped and made again while the answer
  to its first listen is out; two fetches are a first one and a forced one. The
  retry delays 1, 2 and 2 reach the largest.
* `structures`: one reader beside one background thread in `Lifetimes`, with three
  tables and three memtables; two threads, two shards of one table each in `Cache`
  with four keys, three of them in one shard, so that `Insert` evicts, two tables in
  use go beyond the capacity, and the table, which starts with one bucket, grows; blocks of 16 and alignment
  4 in `Arena`; two keys, heights of two, three sequence numbers in `MemTable`;
  iterators over a memtable and three files of three user keys in two versions,
  with every assignment of types, damaged and unreadable blocks, filters; a log
  and a manifest in `PosixFiles`, two manifests in `CurrentFile`; three readers
  for one map and one descriptor in `PosixReaders`.
* The codecs in `structures`: nanopb with 64-bit numbers of 16 bits and 32-bit ones of 8, required
  fields counted in words of 2 bits, so that every overflow is reached; log
  blocks of 7 bytes with headers of 3, so that a record spans blocks and a trailer
  can be too short for a header, with two records of lengths 0, 4 and 9; formats in base 8 with words of 2 and 4 digits
  (2 and 3 for internal keys), whose last varint digit is wider than the word, as
  in the code. Checksum and base 64 have their true widths.

Deadlock is checked for `transfer` and `timers`. In the other
runs the system really stops: an app that trapped, a destroyed database, a bound
reached, a message decoded. No run uses symmetry.

### Fairness

* `WatchTransfer`: the systems complete an activation they began, report the
  deactivation that follows inactivity, deliver a waiting context to an active
  session and serve the main queue. A launch, a tap, a change of watch are
  nobody's duty. `EventuallyHandled`, a part of `HandOversEnd`, assumes that the watch app stays up, because
  the code cannot keep it up.
* `TimerInterfaceController`: time passes.
* `StartUp`: the database answers or refuses; the main thread starts the screen,
  parses and fills the cells the table asks for. That an answer comes at all is
  Firebase's; the app has no timeout of its own, and without an answer its spinner
  turns for ever.
* `WriteQueue`, `BackgroundWork`: a thread that is not asleep on a condition
  variable runs (weak fairness of its steps), file operations end in success or
  failure, and the background thread runs when it is scheduled. No new call and
  no failure is owed. A compaction may leave more to do (`Finalize` looks at the
  levels afterwards, and its score is any in the model), but not for ever: without new
  files the levels below run out of work, so that again and again one leaves nothing
  (strong fairness of `LevelsRunOut`). `CompactRangeEnds`, a part of `BackgroundWorkEnds`, is
  conditional on memtables that stop
  filling and no rival request: flushes go before a compaction, and the one slot
  of `manual_compaction_` may be taken by another first. In `MCEngine` the
  conditions of the parts are joined into one for each thread: the part never
  changes, so that this is the same fairness.
* `PersistentConnection` has none: the service, the socket and the token provider
  owe nothing, and its three properties are invariants.
* `PosixSchedule`: strong fairness of taking the mutex (a thread that waits for it
  gets it in the end), weak fairness of what a thread does with it.

## Proofs

TLAPS checks these for every value of the constants, from the assumptions stated
in the modules.

* `WatchTransferProofs!RoundTrip`: `decodeInWatch(sendToWatch(recipe))` is
  `recipe.steps`. The dictionary of a step reads back as the step, and a list
  whose entries all have a text is read to its end.
* `WatchTransferProofs!TransferInvariant`: `IInv`, the inductive invariant. None
  of the properties is inductive on its own. `ShownOneRecipe` needs to know what
  the next block will decode, hence that every context in flight is *genuine*:
  the encoding of the recipe of its serial, newer than anything run or lost.
  `InFlightInOrder` needs that the slot is never behind the queue, and
  `LastStartAccountedFor` that the last hand-over is the slot's, the last of the
  queue, run, or dropped. From it: `TypeCorrect`, `ShowsOneRecipe`,
  `StaysInOrder`, `NeverVanishes`, and `HandoffImplemented`, the refinement: a tap
  maps to `Choose`, a block to `Show` or a stutter, a dismissal, an ended app or a
  change of watch to `Clear`, every other step to a stutter. That `Show` only goes
  forward is where *genuine* is used.
* `WatchTransferProofs!PagesAreInStep`: `PagesFollowSteps`, that a page for each
  step and each timed step's timer stand in the order of the steps. The arrays
  given to `presentController` are flattened sequences; the place of a step's
  pages in them is a recursive function of the step (`PlaceOf`), and that each
  step has one or two pages at its place (`OneOrTwo`, `InPlace`) goes by least
  counterexample.
* `TimerInterfaceController`, at its end: `TypeCorrect`, `CountdownNeverEarly` and
  `StopSetsBack`, from the invariant that for a running page the seconds left and
  the seconds gone add up to the interval, and that a label that stands shows the
  whole interval.
* `StartUpProofs!BookIsComplete`: the completion is called once, with one recipe
  for each child that is a dictionary, in order, for any answer. The invariant is
  the same said of the children passed so far.
* `StartUpProofs!CatalogueShowsTheBook` and `CatalogueOnlyPhotosTrap`, for any
  book, categories and highlight: `ScreensInv` says that the screens are in one of
  three stages (not loaded, set up, offered), that in the last the highlight and
  every list of a category are what a search of the received book gives, and that
  cells and details agree with them. Assumed, in `StartUp`: that the elements of
  the categories and the highlight are names (`CatalogAssumptions`), and that a
  card is a recipe to the catalogue (`CardsAssumption`). That only a photo can end
  the app once the book is received needs the whole of it: every force unwrap is
  of something the stage has.
* `StartUpProofs!BookHoldsTheAnswer`: each recipe of the book has the card, the
  ingredients and the steps of its own child, the steps in the order of their keys
  as strings, whatever the parser had read before. The invariant (`BookInv`) says
  it of each recipe appended so far, and the work is in one child: that the
  comparison of keys digit by digit is a total order (`KeyLess`, from the powers of
  ten), that the sorted keys list each key once, and that what the loop over
  them reads is what they hold. Dictionaries are finite and of any size.
* `EngineProofs`, the background thread: `TypeCorrect`, `NoWorkIsForgotten`,
  `NothingRunsAfterDestruction`, `NoSleeperIsLeft`. The properties need each
  other, and two facts more: `RequestInSlot`, the slot `manual_compaction_` holds
  the request of a thread that is in its loop, and `CallIsScheduled`, a
  background call that is under way is one that was scheduled, so that its end
  looks for more work and signals the sleepers. The invariant is stated for any
  set of sleepers, because writers sleep on the same condition variable.
* `EngineProofs`, the writers: each step of a writer is for the background a stutter, a
  sleep while there is work, a switch of the memtable or an error
  (`StepForBackground`), so the same invariant holds with any number of writers:
  `WritersWorkIsScheduled`, `NoWriterIsLeft`. The latter needs
  `StopAssumption`, that the number of level-0 files that stops writers is not
  below the one that makes a compaction due (12 and 4 in the code): otherwise a
  writer would sleep for files nobody compacts. `LogHasOneWriter` is about
  `OneLogger`, that the log and the memtable have one writer at a time without the
  mutex: the inductive part is that every thread in a call stands for a call of
  its own and is at work only as the first of the queue.
* `EngineProofs`, the data of the writers: `AnswersInTurn`, `BatchesComeWhole`,
  `ReplayGivesMemtable` and `SyncedAcks`, for any number of writers, calls and
  entries in a batch, from `DataInv` on top of `OneLogger`. Its parts: the queue is
  the end of the calls in the order they were made and a group is the beginning of
  the queue; the log's records are batches in that order (`LogIsInOrder`); the
  memtable is a replay of the log but for the group being inserted, of which it
  has the first entries (`MemIsReplayed`, `ProgressOfGroup`, `InsertedOnce`); and a
  group whose first writer syncs is durable before anybody is answered, after a
  failed sync nobody gets that far (`GroupIsSynced`).
* `RecoveryProofs`, for any number of writes, file numbers and crashes:
  `WritesSurvive`, `TablesExist`, `Reopens` and `SequenceFollows`. The inductive
  invariant speaks of what a crash would leave. Wherever the manifest that
  `CURRENT` names may be cut, the edits up to there must make a *good* state
  (`EndsAreGood`): its tables exist and are whole, every promised write is in one
  of them or in a log not older than its log number, the synced ones in the synced
  part. To this `IInv` adds a part for each stage of the program: asleep,
  creating, the steps of Open (read, log by log, applying), up, and the flush,
  compaction or edit under way with its pending outputs. Each of the actions has
  its lemma. `SeqInv` is a second invariant on top: as long as no repair was made,
  records are in the order of the writes at every such end, tables hold nothing
  newer than the last sequence number of the edit that names them, and nothing on
  the disk is newer than the program's counter. (`RepairDB` may bring back a write
  that a crash had taken, and `SequenceFollowsWrites` does not speak of a database
  that was repaired.) Appends may fail and leave torn records. What is written behind one in the
  same log (`exposed`) is not promised by `WritesSurvive`, and `torn_log` shows that it
  gets lost; everything else is, whatever failed. A manifest may get an edit
  behind one that was cut short, by a compaction that went on after a failed
  flush: a reader then stops before it or refuses. So after an error the edits of
  the manifest may be ahead of the version, by those of failed flushes, which only add
  tables (`WorkInv`), and `Reopens` says that nothing else makes Open refuse. Assumed:
  `TRUE \notin Faults`, as in the run, and that `None` is none of the numbers.
* `ConnectionProofs`: `ConnectionStaysKept`, `WritesStayKept` and
  `ListensStayKept`, for any queries, writes, fetches and delays. `IInv` has three
  parts. The link by itself: a disconnected client has a task for a retry exactly when
  nothing interrupts it, one that gets a token awaits the answer to the latest
  fetch, and data are sent on a connected socket only. The requests:
  numbers are unique, nothing is awaited without a connection, and the first
  credential of a connection goes before everything (`RestoresFirst`), so that
  the answer which restores the state comes before any write. The writes: each
  sent one is awaited once, in order.
* `StructuresProofs`, for the structures and files of leveldb that
  `Structures` puts side by side, each under an invariant of its own part:
  * `LockTypeCorrect`, `LockKeepsOut`. A process is *crowded* once two of its
    threads were in `LockFile` or `UnlockFile` at a time; the invariant is that
    the lock table has one thread of a process, that a process that is not
    crowded has one thread at it, and that such a holder has the system's lock.
  * `LimitsAreKept`: the limits and what readers hold add up, and a read is right
    whatever the way, from the sizes being natural numbers and the readers
    finitely many.
  * `SyncedFilesSurvive`, for any number of files, writers and records. Of the
    written files (`FilesInv`): what the records of a file, or of a writer's buffer,
    speak of stands in the directory; what the durable part of any file speaks
    of stands in every directory that may survive; and a manifest whose
    directory was synced waits for its data. That needs `ManifestsApart`, that a
    file which any name of a table leads to speaks of nothing. Of `CURRENT`
    (`CurrentInv`): in any directory that may survive a file has one name, and
    the file that is `CURRENT` there is whole, synced and nobody's to write.
  * `SearchesAndPiecesAreRight`. Of the skip list (`MemInv`): on each level the
    links lead in order from a node to the next that is linked (`ListIsSorted`), an
    insertion has for each level still to link a place with nothing between
    (`InsertInOrder`), and a search is at a node before its target on a level where that
    node is linked, so that one that is done has passed over nothing that was there
    when it began. Of the arena (`ArenaInv`): blocks lie one after another, each
    piece in one of them, apart from the others and from the rest of the
    current block, and the bytes said to be used are those of the blocks.
    Assumed: that user keys are natural numbers and nodes have a level
    (`MemTableAssumptions`), that sizes are natural and the alignment divides the
    size of a block (`ArenaAssumptions`).

* `LsmTreeProofs`: `TreeStaysInOrder` and `ReadsStayRight`, that `TreeIsInOrder` and
  `ReadsAreRight` hold for any keys, writes, snapshots, files, levels and sizes, under two hypotheses on the steps
  (`Unpinned`): no snapshot is open when a compaction is picked, and no range is
  compacted by hand. The Firebase client calls neither `GetSnapshot` nor
  `CompactRange`. Without the first, `stale_read` is a behaviour of the code in which
  a read gives an old value, and without the second `range_overlap` is one in which a
  level gets files that overlap. The argument goes from the bottom up:
  * sorted sequences and the recursive functions of `VersionSet`: what `Met`, `Widened`,
    `FindFile`, `FilesFor`, `Applied` and `Outputs` compute, by least counterexample;
  * the widening of a range of level-0 files ends with files that span it, every user
    key between its ends in the range of one of them (`Spans`), and no file left
    that meets it. Hence what a compaction takes (`Taken`): files of a level that are
    apart from those left, or older on level 0, and every file of the next
    level that their range meets;
  * the outputs of the merge are in the order of their user keys, each behind the last
    (`OutsAre`): all entries have a number no greater than the smallest
    snapshot, so the drop rule leaves one entry of each user key, and
    no output can end between two;
  * a version edit that puts such outputs in the place of what was taken
    leaves the levels disjoint and layered (`InstalledAre`);
  * the inductive invariant `TreeInv`: entries have numbers of their own, the version is
    well-formed and layered below the memtables, and a compaction under way has
    inputs that are still there and still taken, in the range of which a flush that goes
    past level 0 finds an overlap;
  * in levels in order a read finds what all entries together say (`GetIs`): of the
    entries of the key that it may see, the one with the greatest number (`Answer`);
  * a merge leaves of each user key the newest entry, or, if that is a deletion and
    nothing of the key lies further down (`GoneBelow`), none (`MergeGives`). A flush that
    happens meanwhile puts nothing of such a key below, because it would
    overlap an input. So the outputs answer what the inputs answered, at any
    number that sees all of the inputs (`InstalledAnswers`);
  * the inductive invariant `StoreInv`: all entries together answer what was last
    written, at each open snapshot what it was when it was taken, every open snapshot sees
    all inputs of the compaction under way, and its outputs are resolved in this way.
    That a snapshot is taken between the two steps of a compaction is part of it.

`OneLogger` and the type invariants of `WatchTransfer`,
`TimerInterfaceController`, `BackgroundWork`, `PosixLock` and `Recovery` are proved only; TLC checks the rest of what is proved, too.

Induction over numbers and over the lengths of sequences is by least
counterexample: the lemmas `LeastNumber` and `LeastOf`, which the library's `WFMin` and
`NatLessThanWellFounded` give without an operator as a parameter. What a recursive
function of the models computes (`TenTo`, `StepsRead`, `Usage`, `PlaceOf`) is shown so, one function at
a time.

Only model-checked:

* every liveness property (the prover has no support for fairness and `ENABLED`);
* what recursive operators compute: the iterators and `SortedTable`, nanopb,
  `LogFormat`, the formats (`ReadsAreRightOrTell`, `ReadsWhatWasSent`,
  `LogIsReadRight`, `EncodingsAgree`);
* `TreeIsInOrder` and `ReadsAreRight` of `LsmTree` while snapshots are open when a
  compaction is picked: true only while no compaction cuts between two versions
  of a key, as `stale_read` shows;
* `Cache` and `Lifetimes` (`HoldersHaveTheirs`).

## What the models say

The four disagreements that runs show are listed as findings (`range_overlap`,
`stale_read`, `torn_log`, `lock_file`). In `torn_log`, an `AddRecord` fails half-way, the
write returns its error, the next is acknowledged, and recovery drops it, in the
same block, with the torn record. In `range_overlap`, a `CompactRange` at level 0 takes
two files that are not connected, and while they are merged a memtable whose
keys lie between them is flushed to level 1 by `PickLevelForMemTableOutput`, which
sees no overlap (`version_set.cc:502`): the output of the compaction then overlaps
it there ("Must not overlap"), and `Get` may look into the wrong one.

Two more can be seen without a run. `ParseManager.swift:35` says that steps are sorted by
"numerical order", but their keys are compared as texts, so that `step10` goes before
`step2` (`KeyLess`). And `src/README.md:7` says that the app reminds the cook of
the next step, but no code runs when a countdown ends: the wearer feels a haptic only
when a page awakes.

Other behaviour that the models have, worth knowing:

* App: a refused read leaves the spinner turning for ever; a photo that does not
  load ends the app; a failed activation is not retried before the next launch or
  change of watch; a new recipe's pages take running countdowns away.
* A sync error of a writer that makes `CompactRange` give up resets
  `manual_compaction_` while the background thread may still be merging for it
  (`trapped` in `BackgroundWork`).
* With `reuse_logs` a loss of power, or an edit that failed half-way, may leave a
  manifest that Open appends to after a torn end, so that a later Open does not
  find what was appended; `NewDB` does not sync the first manifest
  (`db_impl.cc:277`); `SetCurrentFile` does not sync the directory.
* When the edit of a flush inside a compaction fails half-way, the compaction
  goes on and its own edit goes to the same manifest behind the torn one
  (`db_impl.cc:884`, `version_set.cc:868`). The next Open refuses with a `Corruption`, or
  stops before both; no write is lost, because nothing is deleted after an error,
  and `RepairDB` brings the database back.
* A table that was built while the database is being destroyed stays on the disk
  until the next `DeleteObsoleteFiles`.
* The log reader does not report damage that lies before the offset it starts at,
  nor a length that runs past the end of the last block.
* `VersionEdit::Clear` leaves `compact_pointers_`. A batch that is cut is found
  corrupt only after its first records went to the handler.
* A reader that opens its file by name at every read fails once it is deleted.
* nanopb: a proto3 array is skipped as default by its first entry alone
  (`[0, 5]` is lost in a submessage); a tag that is cut at the end is taken for
  the end of the message; the wire type of a known field that is not packed is
  not looked at; a message type whose number of required fields is a multiple of
  32 shifts by 32.
* Connection: a credential that was refused may be sent again, because
  `tryScheduleReconnect` moves `forceAuthTokenRefresh` into a block that a later
  cancellation drops (`FPersistentConnection.m:395`; the comment at 529 wants a new
  one). The blocks of writes held in `putsToAck` wait for the answer to a listen,
  and when that is lost with its connection, for a later one. The callback of an
  on-disconnect operation that was sent is never called when the connection is
  lost. Once the socket opened nothing ends the wait for a handshake.
* `f_b64_pton` needs a target one byte longer than what it writes.

## Not modelled

* Table rows, headers, fonts, sizes, shadows and logging.
* Layout: that a collection view asks its cell for items only after the cell was
  set up (`CategoryCell.swift:38` would trap) is UIKit's order of calls.
* Core Data, the extension delegate and the notification controller: template
  code that the app never gives anything to do.
* Firebase above its connection (the repository, the synchronisation tree, the
  persistence that stores in leveldb), the Google libraries, and those pods of
  which there are only headers and binaries. The app makes one read of the
  database, and the model has its answer.
* The frames and the keep-alive of the web socket; of the connection, statistics,
  the clock offset, the session and the data the service pushes. That it
  reconnects in the end is not checked: attempts are bounded, and nothing outside
  owes an answer.
* leveldb: compression, the logger, `c.cc`, options, statistics, dumps and tools,
  Windows; a whole database that composes writers, levels, recovery and
  lifetimes, which is beyond what TLC can explore: each module has the others'
  part at the grain it needs.
* nanopb's allocation with malloc, which the pods do not build.
* Whether WatchConnectivity delivers an update that equals the last one: the
  source does not say, and the model delivers it.

## Plan

1. *Done:* the hand-over, its encoding, its abstract promise; the timer pages; the
   fetch and the catalogue and their composition; the storage engine, the codecs,
   the connection of the database client; and the proofs above.
2. Proofs: the counts of `Lifetimes`, equal to the holders, for any number of readers; the lists and
   counts of `Cache`.
3. `Cooking`, the pages on the watch with their timer pages, and the rows of the
   details screen.
