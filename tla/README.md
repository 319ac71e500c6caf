# vldb-lancedb in TLA+

vldb-lancedb wraps LanceDB as an embeddable Rust engine, a gRPC service and a C
library. LanceDB stores the tables; the code here decides who may touch a table
when, which connection an engine works on, what a caller is told, and what
happens when a request fails, times out or is given up. That is what these
modules describe. Paths are relative to the repository; line numbers refer to
its files under `src/`.

Contents: 1 inventory, 2 modules, 3 runs, 4 disagreements, 5 proofs,
6 limits of the models, 7 plan.

## 1. Inventory

| Component | State | Operations | Interacts by | Hard part |
|---|---|---|---|---|
| **TableAccessCoordinator**, `engine.rs:113` | a mutex around a map from trimmed names to `Arc<RwLock<()>>` | `lock_for`, `acquire_read`, `acquire_write`, drop of a guard or of a waiting future | shared by all requests of an engine | the `Arc` is cloned under the mutex and polled later; tasks are dropped while they wait |
| **LanceDbEngine**, `engine.rs:98` | connection, coordinator, semaphore, options | `create_table`, `vector_upsert`, `vector_search`, `delete`, `drop_table` | awaits LanceDB; decodes and encodes on blocking threads | schema, version and rows are read before an await and used after it; any await may be the last |
| **Codec and limits**, `engine.rs:483-1021` | none | schema building, JSON and Arrow in both directions, payload and search limits | called by the engine | widths of integers and floats, null and missing fields, texts read inexactly, defaults that differ by interface |
| **DatabaseManager**, `manager.rs`; **LanceDbRuntime**, `runtime.rs` | the map of cached connections | `open_named`, `open_default`, path resolution | makes engines on shared connections | first opens race outside the mutex |
| **C interface**, `ffi.rs` | the worker in a `OnceLock`, its channel, `LAST_ERROR` per thread, handles | engine and runtime calls, destroy and free, last error | host threads, one worker thread, one channel per answer | start by whoever calls first, panics in jobs, destroy during a call |
| **Go binding**, `examples/go-ffi/lancedbffi` | handles | the C calls | foreign calls from goroutines | two foreign calls of a goroutine may run on two threads |
| **gRPC service**, `service.rs` | `NEXT_REQUEST_ID`, configuration | five handlers | the engine, the logger | timeout against answer, client gone |
| **ServiceLogger**, `logging.rs` | the open file and its date, under a mutex | `log`, rotation | all handlers | midnight between stamp, date and write; failed rotation; a panic of `eprintln!` |
| **Configuration**, `config.rs` | none | `load`, validation, path resolution | read once by `main` | precedence, files that change between look and read, relative paths |
| **main**, `main.rs` | none | start-up | all of the above, other processes through the file system and ports | every step may end it |

What makes each correct:

* *Coordinator*: a write has its table to itself whatever spelling names it; no
  place in a queue is lost or left behind; nobody waits for another table, or
  for ever.
* *Engine*: each operation takes effect at one instant between call and answer
  and the answer is about that instant; guards are held exactly as long as they
  protect something; the limit on concurrent requests holds.
* *Manager*: one database, one connection, on the path its name stands for.
* *C interface*: one worker; a panic stays in its call; a caller that asks why
  its call failed is told about that call; an engine lives as long as a call
  uses it and no longer.
* *Service and logger*: numbers are unique, the log files tell the outcome in
  order and under their day, and a timeout ends a request.
* *Codec*: what is stored fits its column, is read as it was written, survives
  being read and written back, in the format and number the caller asked for.
* *Start-up*: a process follows the configuration it was told to and no other;
  equal configurations name equal databases.

Hazards, each with its line and the properties that cover it, are in
`PROJECT.json`.

## 2. Modules

```
TableStore            what an engine promises          TableLocks
     ^                                                     ^
     | refined by          uses as its coordinator         |
     +------------------------- Engine --------------------+
GrpcService (around an engine) ---- logs through ---- Logger
FfiWorker (around engines, from a C host or Go)
RowTrip (rows through all three interfaces) ---- converts by ---- RowCodec
DatabaseManager (makes an engine's connection)
Startup (the service process until it serves)
*_proofs: theorems about the module of the name      MC*: instances for TLC
```

An operator under a comment `Faulty:` is a plausible mistake in the one that
follows it and is not used; the properties are known to fail with it in place.

### TableLocks
`locks` is the coordinator's map, `queue[l]` the RwLock at address `l`. tokio's
RwLock is a fair semaphore, so a lock is modelled as its queue of requests in
arrival order, the admitted ones in front: a writer only at the very front, a
reader when no writer is before it. `Resolve` is `lock_for` and the clone of
the Arc; `Enqueue` is the first poll of `read_owned` or `write_owned`; `Enter`
its completion; `Release` the end of the guard; `Abandon` the drop of a future
that waits. `LockIds` bounds the heap; with fewer locks than tables the
addresses run out, so a run gives at least one per table.

### TableStore
The abstract specification. `db` is the database, `input`, `outcome` and
`reply` are one call each: `Call`, then `Apply` at one instant, then an answer.
`Succeed` gives the outcome, `Refuse` says that the table cannot serve the
request, `GiveUp` covers errors and dropped calls: the effect may have happened
or not, and does not happen afterwards. The effects are LanceDB's, which is
outside the repository; they are as detailed as the answers the engine passes
on (version, inserted, updated and deleted rows, rows found).

### Engine
One action per await of the five operations. `Call` checks the arguments;
`AcquirePermit` and `DropPermit` are `acquire_concurrency_permit`; `LookUpLock`,
`QueueForLock`, `EnterLock` are actions of the coordinator; `OpenTable` takes a
handle; `Decode` is the blocking task of `vector_upsert`; `Commit` is the call
into LanceDB taking effect and `Return` its future being ready, with the second
call an append makes for its version; `RunQuery` ends with the guard of a
search, `Encode` comes after it. `Fail` is an error from LanceDB or a panic of
a blocking task; `Drop` is the future dropped at any await. What a handle shows
is `Views`: the version opened or the latest one, because the read consistency
interval of the connection may be anything.

### DatabaseManager
One action per segment of `open_named` between awaits. A connection is named by
the open that made it. `Trim`, `ValidNames` and `Join` stand for the string
functions. `Abort` covers I/O errors and dropped tasks.

### FfiWorker
Nothing exists at first: `CreateRuntime` is `vldb_lancedb_runtime_create`, and
an engine is opened by a `Call` on a runtime. A call clones its engine, or the
runtime, out of the handle, gets the worker (`StartWorker` through `NoWorker`
are `get_or_init` and its blocked callers), sends its job and waits. `CallLocal`
is every call that ends on the caller's thread. The worker takes jobs in order
and finishes each or panics in it; `Receive` makes the handle of an engine that
was opened. `made`, `open`, `uses` and `freed` follow every runtime and engine
from there to `Destroy` and to its last reference. `ReadError` is
`vldb_lancedb_last_error_message`. `Locked` says whether a caller makes all its
calls on one thread, as a C host thread does, or is a goroutine.

### Logger and GrpcService
`Logger` is `log()` in its steps: the line is stamped and goes to stderr
(`Begin`, or `Panics` when stderr is gone), the mutex is taken and the file of
the day opened (`Lock`), the line is written and the mutex released (`Write`).
`NextDay` comes whenever it likes. `GrpcService` is the frame all five handlers
share; a handler is inside `log()` until its line is written, and only then at
its next step (`At`). The log is read day after day: the place of a line is its
day and its number in the file of the day (`Places`). The engine is a future that is ready with any result, or
never; whether its effect agrees with its answer is `Engine`'s. `config` is any of `Configs`, so that one run covers several
settings. The timeout races the answer; `tokio::time::timeout` polls the future
before the timer, so an answer that is ready wins.

### RowCodec and RowTrip
`RowCodec` has the pure conversions, one operator per function of `engine.rs`,
for rows of one column. A number is a count of units; the integer types are
ranges and the float types sets of magnitudes given as constants, so that small
ones have the same holes and ends as the real ones: values with no exact float,
values beyond each type, f32 values several steps of f64 apart. serde_json
without `float_roundtrip` multiplies the digits as an f64 by a power of ten as an
f64 and so rounds up to three times: 9223372036854776831e31 is read 1.3 units of
the last place too low, with another f64 between. So a decimal text may be read
as any f64 with at most `Slip` others between it and the number (`ReadAs`), and
near the end of f64 it may overflow, which fails the whole text (`Beyond`); a
text of few digits (`Short`) is exact. `RowTrip` sends rows through the
program: `CreateTable`, `Upsert`, `Search` and `WriteBack` by a caller of any of
the three interfaces, whose defaults and format codes are the operators before
them. A row remembers the text it came from, the cell it first was and how often
it was written back; these are history and no code.

### Startup
`Launch` is the command line, `Look` one candidate of `find_default_config_file`,
`Load` the reading, resolution and validation, then one action per step of
`main` to `Serve`. `Edit` changes or removes a file at any moment, `Kill` ends a
process at any. `settings` is what each process that has loaded runs on. A path
is a sequence of segments; `was` remembers what a file
has held.

## 3. Runs

| Run | Bounds | Checks |
|---|---|---|
| `locks` | 3 tasks, 2 tables, 3 spellings, 3 lock objects | `TableExclusion`, `NoLeakedRequest`, `BlockedOnlyByOwnTable`, `EntryIsPermanent`, `WaiterAdmitted` |
| `engine` | 3 requests, 10 inputs, 2 spellings, limit 1 | `GuardScope`, `HandleIsCurrent`, `Linearizable` (refines `TableStore`), `EveryRequestAnswered`, `AnsweredIsSettled` |
| `manager` | 3 opens, 5 names | `OneConnectionPerDatabase`, `OpensNamedPath`, `CacheIsStable` |
| `ffi` | 3 host threads, 4 calls, 1 runtime, 2 engines | `OneWorker`, `LastErrorIsLatest`, `ErrorReadIsOwn`, `EngineInUse`, `NoEngineLeaked`, `PanicIsIsolated`, `EveryCallReturns` |
| `service` | 2 requests, 4 configurations, 1 tick, 2 days, 1 fault | `IdsAreUnique`, `LogTellsOutcome`, `TimeoutEndsRequest`, `FiledUnderItsDay`, `FinishedDaysAreClosed` |
| `codec` | 10 column types, 40 payloads, 3 rows, 2 trips, integers of 3 to 6 bits, floats of 2 and 5 bits of precision, a slip of 2 | `RowsFitColumn`, `ReadBack`, `WrittenBackIsSame`, `WriteBackIsAccepted`, `AnswerIsAsAsked` |
| `startup` | 2 processes, 6 ways to start, 23 disks, 1 edit | `FollowsItsConfig`, `SameConfigSameDatabase`, `WarnedOfPlainS3` |

The first five also check their type invariants. Five more runs expect a
violation, see section 4.

Why the bounds are enough. Three tasks make the queue *reader, writer, reader*,
in which a fair lock differs from an unfair one, and a drop in the middle of a
queue. One table is enough for the engine because locks of different tables
share nothing, which `locks` (and its proof) shows with two. Two requests reach
every pair of operations on that table; three are needed for a request that is
admitted by the drop of another one while a third is at work. `Mixed` keeps the
run small: the first request may be anything, the second is an append, a search
or a drop, the third an append, the operation with most awaits. Three racing
opens are one more than the two a lost insert needs. Four calls make a runtime,
open an engine with it and leave two calls that meet on it, of which one may
fail, panic or be overtaken by a destroy.

In `service`, `OneThingAtATime` lets midnight pass only in the configuration
without a timeout, in which the clocks stand still; the logger may fail in every
one. Two days are enough for a line stamped before midnight to meet the file of
the next day, and one fault for a rotation, a write or stderr to fail.
`SlowThreshold` is one tick, so that a request may be slow or not. In `codec`,
`MCSpec` takes rows from one upsert, because rows do not influence each other's
conversion, and asks in every way there is for one column type only, because how
rows are asked for does not depend on what they are. A slip of two is what three
roundings make; its f32 numbers are eight steps of f64 apart, the least that
such a slip cannot bridge. The scaled types keep every relation between the real
ones that the code's branches see: u64 beyond i64, both beyond the exact floats,
f64 beyond and between f32. In `startup` two processes are what
`SameConfigSameDatabase` compares; the disks have each candidate alone, two that
compete, a malformed one that hides a good one, and none; one edit is enough to
change, remove or make any of them between two looks.

`CHECK_DEADLOCK FALSE` stands where behaviours end because every request was
made and answered, processes have exited, or the bounds are used up. `locks` has
none of these and is checked for deadlock.

Fairness. `TableLocks`: a runnable task is polled, and no guard is held for
ever (`Release`). `Engine`: `Poll` of every request, that is, the runtime polls
tasks, calls into LanceDB return, blocking tasks run; one weak fairness per
request is enough, because whatever step of `Poll` is enabled stays enabled
until the request takes a step or waits for a lock. Errors and drops are never
forced. `FfiWorker`: threads are scheduled and every job ends by completing or
panicking. `GrpcService`: time passes, handlers are polled and a handler inside
`log()` goes on; nothing makes the engine ready, which is why the liveness
property asks for a timeout. `RowTrip` and `Startup` state no liveness: the one
has nothing to wait for, and every step of the other may end in an error.

## 4. Where the code and its documents disagree

Each of these runs expects TLC to find the property violated.

* `engine_limit`, `ConcurrencyLimited`: `acquire_concurrency_permit` drops the
  permit it acquired (`engine.rs:459`), so `max_concurrent_requests` limits
  nothing (README.en.md:146).
* `manager_default`, `OpensNamedPath`: a database named `default` and the
  default database share a cache key (`manager.rs:154`); the second to be
  opened gets the connection of the first (LIBRARY_USAGE.zh-CN.md:341).
* `ffi_go`, `ErrorReadIsOwn`: the Go binding does not lock the goroutine to its
  thread between the failed call and the call for its message
  (`lancedbffi.go:501`), which is thread-local.
* `service_unlogged`, `FailuresAreLogged`: a timed-out request is logged as
  started and never again (`service.rs:121`; README.en.md:155).
* `service_zero`, `ZeroDisablesTimeout`: `grpc_request_timeout_ms = 0` makes a
  timeout of zero (`main.rs:84`) where concurrency_optimization_plan.md:106 says
  that it disables the timeout.

One disagreement has no run of its own. LIBRARY_USAGE.zh-CN.md:307-308 calls
`max_search_limit` the upper bound of one search (单次 search limit 上限), and a
search with limit 0, which is also what gRPC and the raw interface send for no
limit, returns up to ten rows whatever the option is (`engine.rs:331`): with a
`max_search_limit` below ten it exceeds the bound. `AnswerIsAsAsked` states the
bound, and holds in `codec` and in `AnswersAreAsAsked` where the default is within
it, which is their hypothesis; with `MaxSearchLimit = 1` and `DefaultLimit = 2` in
MCRowTrip.cfg TLC finds it violated by one search. A limit *above* the largest
one is cut down silently, as README.en.md:322 and :515 say;
concurrency_optimization_plan.md:79-83 promises `Status::invalid_argument` for it,
so one of the two documents is wrong, and `EngineLimit` is the code.

Seen, and no disagreement with a document: a column left without `nullable` may
be null when made over JSON and not when made over gRPC (`ffi.rs:1044`); two
engines opened on one database have separate coordinators (`runtime.rs:47`), so
writes through both overlap: `HandleIsCurrent` and `Linearizable` are about one,
and the service opens one; a float64 that is read as JSON and written back may be
off by a few numbers each time, and one at the very end of its range may be
refused.

## 5. Proofs

Eight modules hold theorems, for every value of the constants that satisfies the
named assumptions, which TLC evaluates on the runs. They state every safety
property and every action property of the passing runs, and both refinements.
Each component has one inductive invariant, written at the end of its module
under "Why these hold" and checked by TLC on the bounds of section 3 before it
was proved; its conjuncts are named for what they say. The proof that a step
keeps it has a lemma per action; what an action leaves alone is the business of
one or two frame lemmas (`OneMoves`, `Untouched`, `UntouchedStays`).

**TableLocks_proofs.** `TableExclusion` is not inductive: nothing in it says
why the two holders stand in one queue. `LockInv` does: distinct names have
distinct locks, created before (`EntriesDistinct`); an active client works with
the entry of its table (`ArcIsEntry`); what is queued belongs to a client that
is there, once (`EntryOfClient`, `OneEntryEach`), and the other way round
(`ClientHasEntry`); a holder is admitted in its queue (`HolderAdmitted`). Two
lemmas on queues carry the proof: an arrival at the end and a removal at any
position leave the admission of the others as it was, or better. From it:
`TypeCorrect`, `TablesAreExclusive`, `NothingLeaks`, `EntriesArePermanent` and
`OnlyOwnTableBlocks`: who is not admitted has somebody before it in a queue that
only its own table uses.
Assumed: trimming twice is trimming once (`TrimAssumption`); `None` is no lock
and no request.

**Engine_proofs.** `EngineInv` is `LockInv` of the engine's locks with the types,
`GuardScope`, the count of permits (`PermitsCounted`), what a request asked the
locks for (`AskIsInput`) and how far it is, with what of handle, outcome and
answer there is by then (`StageOfCall`, `HandleOfStage`). It holds for any number
of engines on one database. `EngineUsesLocks` is the refinement of `TableLocks`, a lemma
rather than a property, as every action of `Engine` is written with one of the
coordinator's: each step is one of the coordinator's or leaves it alone, so `LockInv` is kept by
the lemmas of TableLocks_proofs and `TableExclusion` comes with it. With one
engine (`OneEngine`, a hypothesis of the next two) that exclusion is all that is
needed for `HandlesAreCurrent`, because only `Commit` changes a table and it is
done under the write guard; and for `EngineIsLinearizable`, the refinement of
`TableStore`, in which `Commit` and `RunQuery` map to `Apply`, answers to
`Succeed`, `Refuse` and `GiveUp`, and all else to stutters. Without the
hypothesis both fail for good reasons: see `runtime.rs:47` in section 4. A
request that was answered has no effect any more with any number of engines
(`AnswersAreSettled`).

**FfiWorker_proofs.** `FfiInv` says where a call is: its number is one caller's
(`CallsNumbered`), and it and its clone of an engine or runtime are with the
caller, in the channel, with the worker, or over (`PlaceOfCall`); whatever was
made is referred to by a handle, by calls or by an answer on its way, or is
freed (`ObjectsCounted`). From it `WorkerIsOne`, `MessagesAreLatest`,
`EnginesOutliveCalls`, `NothingLeaks`, `PanicsAreIsolated`; and `MessagesAreOwn`
for callers locked to their threads (`Locked`), which `ffi_go` shows to be
needed.

**GrpcService_proofs.** `LogTellsOutcome` says what the files hold in the end;
`ServiceInv` says what they hold on the way: a handler's lines are behind it in
order (`LinesInOrder`), and they are those of its story up to its stage unless a
write failed or it was cut off (`StorySoFar`). That a line written now comes
after the request's earlier ones, although other files are written in between,
needs of the logger that nobody has written ahead of the open file
(`LaterFilesEmpty`). `FiledUnderItsDay` is not inductive either: the writer with
the mutex has a line that fits the open file (`HolderMayWrite`). These are
`LoggerInv`, which `Logger` keeps by itself; `ServiceUsesLogger` proves that
every step of the service is one of `Logger` or none it sees. Further theorems:
`NumbersAreUnique`, `DaysAreClosed`. Assumed: `None` is no
request and no line, the logger's clock goes forward.

**RowCodec_proofs and RowTrip_proofs.** The first is about numbers. `NearestIs`
is what rounding gives, from the existence of a smallest number in any set of
numbers; `Reading` is what the f64 read from a decimal text is to the number it
spells: near it, by `Slip`. A number near another is near all on the way to it
(`NearOnTheWay`), so an f32 on that way is, by the assumption on floats, the one
the f64 is rounded to: hence `F32OfReading`, what f32 a text becomes, and
`F32SurvivesText`, that an f32 is not moved by its detour over an inexactly read
text. `WrapIs` is the cast of a dimension to i32. The second has what a column of
each type makes of each text (`TextTells`) and what is left of a cell that is read
and written back (`CellSurvivesText`). `RowInv` then says of every row that it is
what its origin was decoded to or what that may have become, and of an answer that
it shows rows that are still there, as many as the engine allows. From it all five
properties of `codec`, `AnswersAreAsAsked` under the hypothesis that the default
limit is within the largest one. Assumed of the floats (`FloatsAssumption`): every
64-bit integer is within f64; and whatever is as near to an f32 as `Slip` allows
is an f64, and nearer to it than to any other f32, as those lie 2^29 f64 apart. Of
the widths (`WidthsAssumption`): u32 and i32 are of one size, f64 ends, and no
text from so far beyond its end is read as one. Texts are assumed to be JSON
values (`PayloadsAssumption`).

**Startup_proofs.** `FollowsItsConfig` speaks of processes that have loaded;
`StartupInv` adds what one knows before: files held what `was` remembers
(`ContentsAreRemembered`), every candidate before the one looked at was missing
at some moment since the start (`SearchIsInOrder`), and what was loaded is not
changed (`LoadedOnce`). `SameConfigSameDatabase` follows without a further step,
as `Settings` depends on the file, its text and the home only. Assumed: `None` is no file
(`FilesAssumption`).

**DatabaseManager_proofs.** `ManagerInv` adds to the types what an open on its
way knows (`OnItsWay`, `ConnectedToPath`), that an entry was made under its own
key by an open that is over (`EntryOfItsKey`), and that what was returned is
what the cache has (`ReturnedIsCached`). All actions but `Insert` go through
one lemma, `OpenStep`. From it: `TypeCorrect`, `ConnectionsAreShared`,
`CacheNeverReplaced`, and `NamedPathIsOpened` under the hypothesis that no
database is named like the default key, which is the one `manager_default`
drops. Assumed: no named database lies where another or the default one lies
(`JoinAssumption`); the code does not look, and with a `default_db_path` inside
`db_root` two connections to one directory are possible.

Model-checked only: the four liveness properties, `WaiterAdmitted`,
`EveryRequestAnswered`, `EveryCallReturns` and `TimeoutEndsRequest`, because
liveness under fairness and ENABLED are beyond this prover; for the same reason
the refinements are proved of the safety part, which is all that `TableStore`
and the uses of `TableLocks` and `Logger` state.

## 6. What the models leave out

* LanceDB commits a change at one instant between call and answer of its API,
  and a dropped future changes nothing any more. Writers of other processes are
  not modelled: the service is the only writer of its tables.
* In `TableStore` and `Engine` a row is a key with the request that inserted it
  and the one that wrote it; a schema is a value; a payload fits a schema or not.
* Blocking tasks that outlive a dropped request, and the 128 threads they share.
* In `FfiWorker` result strings and byte buffers are not modelled: each is given
  to one caller and freed by it, so there is nothing that two steps could
  disagree on. Hosts use handles and the pointer to the message as the header
  demands. Names of databases are `DatabaseManager`'s; every call that opens an
  engine opens another one, as the code does, and the connection it shares is
  not seen. The worker's runtime runs one job at a time, so the engine's
  concurrency does not arise behind it.
* In `GrpcService` a tick may pass anywhere, but the timer of the timeout starts
  with the first poll of the engine. Lines are categories; `preview_text` is left
  out.
* In `Logger` the clock goes forward. A mutex is not poisoned, because nothing
  panics under it.
* `RowTrip` has one column and one caller at a time. Payloads in Arrow IPC are
  LanceDB's to judge; answers in Arrow IPC are the arrays themselves. Which rows
  a vector search finds is LanceDB's: any, up to the limit. That a row's JSON is
  read by a caller without loss is assumed; the texts are serde_json's shortest.
* `Startup` takes the directory of the program and the working directory to
  exist, and ends at `serve()`. Any file may be edited between two steps, but one
  read sees one content.
* Generated code (`proto`, `build.rs`) and the Go client example are not
  modelled: the former is prost's and tonic's, the latter calls in sequence.

## 7. Plan

Every part of the inventory that is not excluded in section 6 is modelled, and
every safety property of the runs is proved. What could be added:

1. To the proofs: that a waiting client's place in its queue only ever
   decreases, and that a request's stage only ever advances: the measures by
   which `WaiterAdmitted` and `EveryRequestAnswered` hold, as action properties.
2. To `RowTrip`: rows of several columns. Fields are converted one by one, but
   one that fails refuses the whole batch.
