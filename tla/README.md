# A TLA+ model of explore-cpp

explore-cpp is a collection of small programs around C++ libraries: asio servers, timers and
coroutines (`asio/`), Apache Arrow (`arrow/`), brpc, thrift, stdexec, oatpp. There is no single
system; there are a dozen small ones. This directory models the ones that have control of their own
(threads, coroutines, callbacks, shared state, failure paths) and proves what it can about them.

Every module is a translation of code, which `PROJECT.json` (`map`) names line by line. Libraries
are modelled only as far as the programs use them and are marked external.

## 1. Inventory

| Part | State it keeps | Operations | Interacts with | What is hard | What makes it correct |
|---|---|---|---|---|---|
| I/O context pool (`asio/benchmark/io_context_pool.hpp`) | contexts, work guards, round-robin index, worker threads | constructor, `get_io_context`, `run`, `stop`, destructor | one thread per context; user code in handlers | no lock anywhere; `stop()` racing thread start, joins in index order | balanced dispatch; no loop ends before `stop()`; `stop()` ends `run()`; nothing runs in a destroyed pool |
| Coroutine tasks (`task.hpp`, `runtime.hpp`) | frame per coroutine, `caller_`, handle per `Task` | create, move, assign, `take`/`spawn`, `co_await`, `co_return`, destroy, `resume` | handlers of pending operations resume frames | ownership moves between `Task`, caller and the frame itself, on several threads; nothing guards `resume()` or `take()` | without misuse each frame is destroyed once, resumed only while suspended for that reason, never lost |
| Multi-threaded benchmark server (`benchmark_mt.cpp`) | `listen()` and a `process()` per connection | accept, read, write, failing paths | pool, coroutine tasks, clients | a coroutine starts on one thread and continues on another, even before its `await_suspend` has returned; accept errors; exceptions; a client that does not read | one pending operation per waiting coroutine; connections dealt out evenly; requests read and connections ended, where the client takes its answers |
| `asio::awaitable` servers (`benchmark_st.cpp`, `test_cpp20_coroutine.cpp`) | one context, `listen()`, a coroutine per connection | the same | clients | an exception ends a detached coroutine silently; no work guard | echo returns what was sent; serves out connections, then exits |
| Resource limits (`resource_limit.hpp`) | `initial_fd_limit` | raise, restore | kernel limits | failing calls leave zeros; finite and infinite hard limits | never lowers, never asks for the impossible, restores exactly |
| Timer printer (`test_multithread.cpp`) | `count_`, two timers | `print1`, `print2` | two threads in one `run()` | unsynchronised counter | bounded overshoot, no early exit, termination |
| Callback servers (`test_async_tcp_server.cpp`, `test_async_tcp_udp_server.cpp`, `test_async_udp_server.cpp`) | connection objects, receive buffer | accept, receive, send handlers | clients, `test_*_client.cpp` | lifetime of the connection under a raw `this`; buffer reuse; two servers on one thread | nothing used after it is freed; always one accept and one receive pending |
| Single-thread timers (`test_timer.cpp`, `test_async_timer.cpp`, `test_binding_arguments.cpp`, `test_member_function.cpp`) | counter, timer | wait, re-arm | `io.run()` | the chain of re-armed waits must end | the handler runs exactly as often as counted |
| Logger (`learn_asio/log.hpp`, `debug.hpp`) | level, per-thread date prefix | log | `localtime`'s shared `tm` | a prefix built from a racy read is kept for a second | the date printed is that of the call |
| Print (`learn_asio/print.hpp`) | none | overload dispatch | - | - | layout |
| Flight storage (`arrow/cookbook/flight.cc`) | directory of parquet files | DoPut, DoGet, ListFlights, GetFlightInfo, DoAction | concurrent RPCs | no locking; truncation before the upload is read | readers see whole datasets |
| Cookbook recipes (`arrow/cookbook/common.cc`, `main.cc`, `datasets.cc`, `TestPutGetDelete` of `flight.cc`) | current recipe, recorded outputs, two output files | start, end, merge, dump, search for test data | gtest, the file system, earlier runs in the same directory | early returns; read-truncate-write of a file, with crashes; a file that cannot be opened passes for an empty one; two dumps that share the builders | a run that exits with 0 is recorded in full, the newest output wins and nothing is silently lost, unless a file could not be opened |
| Arrow datasets (`dataset_example.cpp`, `03_arrow_dataset.cpp`) | files under a directory that formats and programs share | create, write, list, scan | other runs, the file system | overlapping and killed runs; modes that do or do not look into subdirectories | a run that no other overlaps reads every row its mode promises exactly once |
| brpc echo and http (`brpc/echo`, `brpc/http`) | pending calls, closures, after-response callbacks | call, retry, timeout, Echo, quit | network, signals | late and duplicate answers; a coroutine that outlives `Echo`; stack-owned service | a caller gets the answer of its call; no call of `Echo` outlives its request or the server, and none is forgotten; who is asked to quit quits |
| Arrow task experiments (`arrow/async_task`) | arrow's schedulers | submit, wait | worker threads of arrow | - | - |
| thrift calculator | none | add | one connection at a time | 32-bit overflow | - |
| stdexec run loop (`stdexec/`) | library's `run_loop` | one sender, waited for | - | - | - |
| straight-line arrow demos, oatpp, rang | - | - | - | - | not modelled, see section 7 |

How they are connected: `benchmark_mt.cpp` stands on the pool, the coroutine tasks and the resource
limits; `benchmark_st.cpp` on the resource limits; the asio tests on the logger. The cookbook runs
the flight service inside a test whose output the recipes record; `dataset_example` and
`03_arrow_dataset` meet in one directory; the brpc clients call the servers. Everything else is a
program of its own.

## 2. Modules

| Module | Code | State and actions |
|---|---|---|
| `PoolService` | abstract | what a pool promises: least-loaded dispatch, loops that end only while closing |
| `IOContextPool` | `io_context_pool.hpp` | variables named after the members (`next_io_context`, `work_guards`), the state of every worker thread, and `main`, the place of the main thread. One action per loop round of the constructor, `run()` and `stop()`, since a thread can be anywhere between two rounds of another. The `io_context` is external: `ops` pending operations, `busy` in a handler, `stopped` |
| `CoroutineTask` | `task.hpp`, `runtime.hpp` | frames, `handle` per Task object, `scope` it lives in, and for each thread the `stack` of coroutines being resumed and the frame whose `await_suspend` it has not `leaving`. Code at the top of a stack may use the Tasks in its scope in every way the class allows, whatever state they are in: `spawn`, `resume` and `co_await` do not ask. An operation completes on any thread as soon as it is started. A step that is undefined in C++ (double destroy, destroying a running frame, resuming one that is not suspended for that) sets `fault`; the uses that can lead there are remembered in `misused` |
| `CoroutineTask_proofs` | - | the theorems about the ownership of frames, and about the `asio::awaitable` servers |
| `ConnectionService` | abstract | what a TCP server promises: waiting clients are admitted, connections end only if the client hung up, and then do, unless it holds up what is written to it |
| `BenchmarkServer` | `benchmark_mt.cpp` | EXTENDS `IOContextPool`: every action of `listen()` and `process()` is joined with the action of the pool it uses (`GetIoContext`, `PostOp`, `BeginHandler`, `EndHandler`), on the thread that executes it. A client sends, hangs up, and may stop reading (`stalled`), which blocks the write to it |
| `BenchmarkServer_proofs` | - | the theorems about the pool, the server on it and the resource limits |
| `AwaitableServer` | `benchmark_st.cpp`, `test_cpp20_coroutine.cpp` | one module for both; `program` says which |
| `Logger` | `learn_asio/log.hpp` | `log` is where each thread is in `log()`: look at the clock, test `last_second`, `localtime`, read the fields of `tm` one by one, print. `buf` and `last_second` are per thread, `tm` is not. `raced` is history |
| `TimerPrinter` | `test_multithread.cpp`, `test_member_function.cpp`, `test_async_timer.cpp` | EXTENDS `Logger`: test, log, load, store and re-arm of each handler are separate steps; `program` says which program runs |
| `TimerPrinter_proofs` | - | the theorems about the counter and the logger |
| `ResourceLimit` | `resource_limit.hpp` | getrlimit and setrlimit succeed or fail, as the kernel's rules say; one change by somebody else |
| `TcpDaytime` | `test_async_tcp_server.cpp`, `test_tcp_server.cpp`, the TCP half of `test_async_tcp_udp_server.cpp`, `test_tcp_client.cpp` | `program` says which server runs. The event loop is one thread, so a handler is a sequence of steps of `server`; `objects` are the `tcp_connection`s that exist, `queue` the write handlers still to be called. The kernel's side of a connection is `unread`, `daytime`, `fin`, `rst` |
| `UdpDaytime` | `test_async_udp_server.cpp`, `test_udp_server.cpp`, the UDP half of `test_async_tcp_udp_server.cpp`, `test_udp_client.cpp` | `remote_endpoint` named after the member, `inbox` of the socket, `unsent` answers that wait for its send buffer; the network is external |
| `DaytimeServers` | `main` of `test_async_tcp_udp_server.cpp` and the others | composes the two: in the combined program a step of one server is taken only when the thread is not inside a handler of the other |
| `DaytimeServers_proofs` | - | the theorems about both kinds of daytime servers |
| `DatasetStore` | abstract | what a store of whole datasets promises to clients that keep out of each other's way |
| `FlightStorage` | `arrow/cookbook/flight.cc` | one action per call of the file system, for each of any number of concurrent RPCs; a file is which tables its columns and its footer come from; `exclusive` says whether clients keep uploads and drops apart |
| `FlightStorage_proofs` | - | the theorems about the storage service |
| `RecipeLedger` | `common.cc`, `common.h`, `main.cc`, `datasets.cc`, `TestPutGetDelete` | the program is a single thread at `at`; tests run in any order and number. `recorded` are the builders, `rout` whose output the stream holds, `disk` the two files. Every test step may fail, a file may refuse to be opened for reading, `Crash` may come anywhere. `dumped`, `hurt`, `ran`, `lost` and the field `afresh` of a dump are history |
| `RecipeLedger_proofs` | - | the theorems about the recipes |
| `DatasetExample` | `dataset_example.cpp`, `03_arrow_dataset.cpp` | a run of a program is a record in `job`; its writes are `todo`, sequences of calls of the file system, its reads go file by file. Of a file there is its partition directory, the file, its data, its footer: in any combination, as writers may truncate one another's. `Iris.parquet` of `examples/parquet_dataset` is there or not |
| `DatasetExample_proofs` | - | the theorems about the dataset programs |
| `EchoRpc` | `brpc/echo`, `brpc/http` | `client` per process, `handlers` calls of `Echo` whose closure has not run, `after` callbacks to come; tries, answers, refusals and the connection are brpc's and external |
| `EchoRpc_proofs` | - | the theorems about the RPCs |
| `MC...` | - | TLC instances |

Operators named "A variant with a bug" are altered forms of the definition that follows them. No
specification uses them; each property is known to fail when its variant is put in place of the
original, so that it does say something about the code.

Notes on the code, found while translating it:

- `benchmark_mt` never calls `stop()`: the pool runs until the process is killed. `stop()` is
  therefore modelled for the uses the class allows: by the destructor, and by a handler
  (`HandlersMayStop`).
- Three uses of `Task` are undefined and nothing in the class prevents them; nothing in `src/` has
  them. A coroutine started with `Task::resume()` destroys its own frame at the end while the `Task`
  still holds it. `spawn(std::move(t))` after `co_await t` resumes a coroutine at its final suspend:
  `take()` asks for null only. An empty `Task` may be resumed, and is awaited up to an assertion.
  `CoroutineTask` has all three and remembers them (`misused`).
- `await_suspend` of `AsioCallbackAwaiter` starts its operation while it still runs in the coroutine's
  frame. The thread of the connection may resume the coroutine and destroy that frame before it has
  returned. It gets away with it because it touches nothing of the frame afterwards (`LeaveSuspend`;
  the variant `LeaveSuspendWrites` shows the difference).
- `Task::operator=(Task &&)` does not destroy the frame it overwrites: that frame is leaked.
- In `benchmark_mt`, `remote_endpoint()` of a connection that was reset after the accept throws inside
  a `Task`, whose `unhandled_exception` terminates the process. In the awaitable servers the same
  exception ends `listen()` silently: the program goes on with the connections it has.
- No server has a timeout: a client that neither reads its answer nor goes away keeps its connection
  and descriptor for good, and so does one that starts an upload to the storage service and stalls.
- `benchmark_mt` and `benchmark_st` answer each read, not each request: a read that holds two
  requests gets one response.
- `test_async_tcp_server` calls the write handler of a connection through a raw `this` when the
  connection is already destroyed: nobody but the caller of `handle_accept` holds it. A comment at
  that place names the danger and the capture that would avoid it, which is commented out. The run
  `tcp_callback` shows it. The handler only logs its arguments, so nothing visible follows, and the
  model lets it run.
- The buffer of an asynchronous answer is a temporary string that dies with the statement. A TCP
  answer is in the empty send buffer by then; a UDP answer that has to wait for the send buffer is
  sent from freed memory (`Flush`, with text "garbage"). No property says that it is not.
- `test_tcp_client` sends a hello that no server reads, so the close usually becomes a reset and
  the client may end with an error instead of the daytime. `test_udp_client` waits for ever when
  its datagram or the answer is lost.
- `DoPut` truncates the old dataset before it has received the new one, and two uploads of one
  dataset may mix. What still holds in general is `WholeUnlessMixed` and `AcknowledgedIsStored`;
  atomicity (`StoreRefinement`) only holds for clients that keep out of each other's way.
- `get_timestamp` fills the date prefix of a thread from the `tm` all threads share and keeps it for
  the rest of the second: after a race every message of that second carries the wrong date.
- `FindTestDataFile` goes up while `has_parent_path()`, which is true of `/` as well: outside a
  directory with test data the search never reaches the error at `common.cc:185`. `RunEnds` therefore
  holds only where the data can be found.
- `LoadExistingRecipeOutputTable` takes every error of `OpenInputFile` for a missing file
  (`common.cc:92-94`): a file that exists and cannot be opened for reading, but can for writing, is
  started afresh and what it held is lost. This is the one way in which a run that exits with 0 may
  miss recipes: the two dumps of `DatasetRead` go to one file, and the second starts it afresh.
- `DumpRecipeOutput` empties the builders before it reads the old file, so a dump that fails loses the
  outputs recorded. A dump that is killed after the schema leaves a stream that reads as an empty
  table: the recipes of earlier runs are lost without an error. One that is killed at any other
  moment leaves a file that cannot be read, and every later dump that opens it fails
  (`UnreadableStays`).
- A recipe that returns early leaves `current_recipe` set. The next recipe fails to start but prints,
  and if it has the same name its output is recorded together with the earlier one's. Only the
  failure of the test keeps such an output from `recipes_out.arrow`, not from `TEST_DatasetRead.txt`.
- A `parquet_hive` run of `dataset_example` leaves `existing_data_behavior` at Arrow's default, kError.
  What Arrow counts as existing data is not in the repository, so the model lets such a run be refused
  or go on whenever there is anything in the directory, which is what a killed run leaves. With the
  default mode it reads back no rows, as that mode does not look into the partition directories.
- The usage that `dataset_example` prints, run where it suggests (`` file://`pwd`/ `` in `examples`),
  lists the `Iris.parquet` of the repository along with its own files: `filter`, `project` and
  `select_project` fail, since the first file decides the schema, and `no_filter` reads its rows too.
- Runs that overlap truncate one another's files, and what one of them has written afterwards may leave
  a file with its footer and a hole. Such runs are modelled; the repository's own guide denies any
  guarantee for them (`07_tabular_dataset.md:237-239`), and none is claimed.
- `coroutine_server` sleeps for a second, `client` waits for a tenth: with the default flags no call
  succeeds. Both are flags, so the model lets an answer arrive before or after the call is over. A call
  that has timed out is not tried again.

## 3. What each run checks

All runs but `tcp_callback` pass; that one shows a bug. Sizes are those of the `.cfg` files.

| Run | Instance | States | Shows |
|---|---|---|---|
| `pool` | 3 contexts, 1 operation per context, two dispatches of a context before the last call, any handler may call `stop()` | 34,289 | `RoundRobin`; `NoThreadOutlivesRun`; `StopEndsRun` (liveness); the pool implements `PoolService` |
| `coroutine` | 3 frames, 3 Task objects, 2 threads | 69,208 | `FaultNeedsMisuse`, `OneOwner`, `OnlyAssignmentLeaks` for every mix of operations: nothing undefined happens without one of the three uses above, and with them only to the frame so used and those it awaited |
| `server` | 2 contexts, 2 clients that may stall, 2 units of data each, 1 or 2 descriptors | 126,230 | `OpsAccounted`, `OneCallerOfGetIoContext`, `Spread`; `RequestsAreRead` and the refinement of `ConnectionService`, with its fairness, also when an accept fails and `listen()` ends |
| `awaitable` | 2 clients that may stall, 2 units of data each, 1 or 2 descriptors | 28,079 | `EchoConserves`, `ExitsAfterListenEnds` and the refinement of `ConnectionService` |
| `timers` | 2 timers, 2 threads, limit 3, three seconds, minutes of two seconds | 150,576 | `FinalCount`, `DateIsOwnUnlessRaced`, `BothThreadsLeave` (liveness), and no deadlock |
| `limits` | RLIM_INFINITY 6, wanted 3 | 7,708 | `RaisedEnough`, `RestoredExactly` from every initial pair of limits |
| `daytime` | 2 clients (1 of each kind for the combined server), 2 copies of each datagram, room for 2 in the socket, all five servers | 24,656 | `CleanMeansPrinted`, `AnsweredOnceToSender`; `ClientsEnd`, `EveryDatagramAnswered` (liveness) |
| `tcp_callback` | 2 clients | - | `CallbackOnLiveObject` is violated in a few steps |
| `flight` | 3 RPCs of any kind on 2 datasets, 2 tables | 352,690 | `WholeUnlessMixed`, `AcknowledgedIsStored`; where uploads and drops are kept apart from other calls, the service implements `DatasetStore` and every call but an upload is answered |
| `dataset` | 2 processes, 3 runs, 4 rows | 5,176,554 | `ReadsExactly`, `PlainRunsRecover` |
| `recipes` | 2 runs of up to 3 tests, 2 recipes each | 226,841 | `PassMeansRecorded`, `OutputsAreOwn`, `DumpsAreKept`, `UnreadableStays`; `RunEnds` (liveness) |
| `rpc` | 1 client, 2 calls, 1 retry, 1 break of the connection, each of the three servers | 60,626 | `AnswersAreOwn`, `DoneEndsEcho`, `RepeatedOnlyAfterBreak`; `AskedMeansQuit` (liveness) |

Why these bounds are enough:

- Pool: three contexts make first, middle and last differ in each of the loops, and let one thread
  be in `stop()`, one in a handler and one not started. The safety properties are proved for all
  sizes.
- Coroutines: three frames give a caller, a callee and a bystander, or a chain of two awaits; three
  Tasks allow a move and an assignment over a Task that still holds a frame. Two threads let an
  operation complete while the `await_suspend` that started it still runs.
- Servers: connections interact through the listener, the descriptors and the contexts. Two on two
  contexts put one on the context of the acceptor, and with one descriptor one has to wait or be
  refused, which ends `listen()` (`fd_limit` is chosen at the start). The merging of sends into a read
  needs two units of data.
- Timers: the limit only moves the overlap of the two handlers to a later count; three leaves room for
  a stale store that sets the count back. Three seconds make a date be kept, rebuilt, and rebuilt with
  a carry into its second field.
- Daytime servers: one client is served while the other connects, writes or asks; a second copy of a
  datagram makes the sender of the last one differ from the receiver of a waiting answer, and fills
  the socket. In the combined server the two share only the thread, so one client of each kind does.
- Flight storage: a conflict is between two calls on one dataset, and the third sees what they left
  or makes one of them a second upload; two names are needed for a listing that breaks off. There are
  as many files as calls, so a dropped file never comes back.
- Datasets: three runs are two that overlap and are killed, which is what leaves holes, and one that
  meets what they left.
  With two rows per file an off-by-one at the border of the slices shows.
- Recipes: the second run meets whatever the first has left, dumped or cut short; a test may end or
  be killed at every step, so a longer history leaves no other files. Two recipes per test let one be left
  open and another follow; with three tests `TestPutGetDelete` can be followed by `DatasetRead` twice, the
  shortest run in which a dump starts afresh over recipes of its own run and the exit code is still 0.
- RPC: two calls let an answer come late for the next one; one retry and one break exercise the last
  and the first try. Clients share nothing but the server, which treats tries one by one.
- Limits: below, between and above the wanted value and infinity are all present.

Deadlock is checked only for `timers`, where the end is an action (`Done`). The other programs may
really stop: clients stop acting, the process was terminated or its `main` returned, undefined
behaviour ended the model, or a bound is used up.

## 4. Fairness

- Threads of the program are scheduled: weak fairness for each step a thread can take by itself.
- In `BenchmarkServer`, the completion of an operation competes with other handlers of the same
  context, which may disable and enable it over and over. asio executes ready handlers in first-in
  first-out order, so an operation that is completable again and again completes: strong fairness
  for `Accept` and for the completions of a connection. A write is not completable while its client is
  `stalled`.
- In `AwaitableServer` one action completes an operation and runs the coroutine to its next await,
  so an enabled step stays enabled and weak fairness is enough; but for a write, whose client may stall
  and read again, which is strongly fair.
- Timers expire (`TimerPrinter`).
- In `DaytimeServers` accepting, receiving, sending and calling a write handler compete with other
  handlers on the thread and with errors, and are strongly fair for the same reason: what is possible
  again and again happens, since the event loop executes what is ready in its order and the kernel's
  queues are first-in first-out.
- Every RPC of `FlightStorage` has a thread, which is scheduled except in `ToTable`: `DoPut` waits there
  without a timeout for a client that may send everything, break off, or do neither.
- `RecipeLedger` is one thread that is scheduled: weak fairness for its steps, whatever they decide.
  Nothing is assumed of crashes and starts.
- In `EchoRpc` the threads of clients and server are scheduled and timers expire (`TimeOut`). Messages
  need not arrive, connections may break, nobody has to ask anybody to quit.
- `DatasetExample` states no fairness, as its properties are about what a run reads.
- The clients of the TCP servers and of the storage service are free: they need not connect, send,
  read or go away. Liveness is therefore claimed only as far as it depends on nobody else: of a
  connection whose client takes, again and again, what it is sent (`k \notin stalled` in
  `RequestsAreRead`, `ExitsAfterListenEnds` and the fairness of `ConnectionService`), and of calls other
  than uploads. The daytime servers write a few bytes to a connection that has just been made, which
  does not wait for the client. The network and callers of `stop()` are free too.
- The daytime clients and the clients of `EchoRpc` are programs of the repository themselves; once
  started, their threads are scheduled as the others are.

## 5. What is proved

TLAPS checks the following for every value of the constants under the ASSUMEs of the modules. The
assumptions are about the constants only: sizes are naturals, the values that stand for "none", "error"
and the like are none of the others, and what is said of a program below (two timers, at least one
context). A bound (`MaxOps`, `MaxCalls`, `MaxBreaks`, ...) is any number, but for the server, whose pool
bounds must be out of reach of its connections. The properties are seldom
inductive; each section names what had to be added and why.

**The pool** (`BenchmarkServer_proofs`, from `PoolAssumption`: at least one context). `RoundRobin` is
inductive by itself. The rest need to know how far the constructor, `run()` and `stop()` are, so the
invariant is `IInv = TypeOK /\ RoundRobin /\ GuardInv /\ ThreadInv`:

- `GuardInv`: while the constructor runs, exactly the contexts made so far are guarded; afterwards,
  and before `stop()`, all are; in the second loop of `stop()` none is; a stopped context has no
  guard, and a thread that left `run()` had its context stopped.
- `ThreadInv`: which threads exist while `run()` spawns and joins; a handler runs on a running
  thread; `stop()` runs inside a handler or in the destructor.

There is a lemma per conjunct with one step per action. `TypeCorrect`, `RoundRobinCorrect`,
`ServesUntilStoppedCorrect`, `GuardsResetFirstCorrect` and `NoThreadOutlivesRunCorrect` follow.
`Refinement` shows that every step is a step of `PoolService` or leaves its variables alone; that a
dispatched context is a least loaded one follows from `RoundRobin`. `ServesUntilStopped` and
`GuardsResetFirst` are proved and in no run: the run checks the refinement, which has loops end only
while the pool is closing.

**The benchmark server** (the same module, from `ServerAssumption`: finitely many connections, at least
one descriptor, and bounds of the pool that the connections cannot reach). `ServerRunsPool` shows that
the server uses its pool only as the pool's specification allows, so all theorems about the pool hold
under it. The invariant `SrvInv` adds to `IInv`:

- `ServerTypeOK`, and `ListenInv`: nobody stops the pool; `listen()` runs on the main thread before
  `run()` and in handlers of the acceptor's context afterwards, a connection it holds is accepted and no
  more; a coroutine sees the end of a connection only when its client is not there any more.
  `OneCallerOfGetIoContextCorrect` follows.
- `OpsInv`: the operations pending on a context are one for each coroutine that waits on it and one
  for `accept`. This is `OpsAccountedCorrect`; it is inductive with the two above.
- `HandoutInv`: what a context was dispatched is the connections on it, the acceptor, and the context
  that `listen()` holds, which was the last. With `RoundRobin` of the pool it gives `SpreadCorrect`,
  which counts what was dealt out, closed connections included, and says nothing of those open at one
  time.

`ServerImplementsService`: each step is a step of `ConnectionService` or a stutter. A close with its
client still there, or an admission after a failed accept, would be none; `ListenInv` excludes it.

**Resource limits** (the same module, from `LimitAssumption`: 0 < Wanted < Infinity). `LimitInv` says what
the process knows about the kernel's limits at each place of `main`, as long as nobody else changes them:
it has read them (`LimitRead`) or has zeros because getrlimit failed (`LimitUnread`), and after raising the
soft limit it is `LimitHigh`. The arithmetic is in `RaisedLimits` and `RaisedZero`. `LimitTypeCorrect`,
`RaisedEnoughCorrect`, `FailsOnlyByGetCorrect` and `RestoredExactlyCorrect` follow.

**Coroutine tasks** (`CoroutineTask_proofs`, any number of frames, Tasks and threads). Whether an operation
is defined depends on who else refers to a frame. `IInv` is `OnlyAssignmentLeaks`, `FaultNeedsMisuse` and

- `StackInv`: a stack holds running coroutines only, and each is on one stack and there once.
- `FreshInv`: Tasks and frames before their first use are held by nobody and awaited by nobody.
- `HolderInv`: no two Tasks hold one frame, and one that is held and was started without a caller was
  misused: `resume()` started it.
- `AwaitInv`: an awaited frame is held by a Task among the locals of its one caller, which is suspended
  for it or gone. This is what makes the destruction of the caller destroy the callee once.
- `GuiltInv`: a frame that is gone while a Task, an operation or a callee still refers to it is in
  `Tainted`: a misused frame, or one it awaits, directly or not. An operation that completes finds its
  coroutine waiting for it, on whatever thread, or tainted.

`Doomed` (the Tasks destroyed together) and `Tainted` are least fixed points; the proofs use only that a
closed set contains them (`DoomedProps`, `TaintedProps`). `TypeCorrect`, `OneOwnerCorrect`,
`OnlyAssignmentLeaksCorrect` and `FaultNeedsMisuseCorrect` follow.

**The `asio::awaitable` servers** (the same module, from `AwaitableAssumption`: finitely many connections, at
least one descriptor). `EchoConserves` says that what came back, what is being written and what is unread
is what the client sent. `AwaitableInv` adds to it

- `ReadInv`: what is unread and what is in a buffer is no more than was sent, and a coroutine has
  something in its buffer only while it writes it, or has ended.
- `RunInv`: at most one connection is accepted and has no coroutine yet, and then `listen()` holds it;
  `io_context.run()` returns only when `listen()` has ended and no socket is open.

`AwaitableTypeCorrect` and `EchoConservesCorrect` follow. `AwaitableImplementsService` shows that each step
is a step of `ConnectionService` or a stutter; by `RunInv` the server goes down with no connection open,
and what ends a coroutine closes the connection of a client that is gone. The order of the cases of the
refinement mapping matters here: when `run()` has returned, `listen()` has ended as well, and the service
is down, not draining.

**Timers and logger** (`TimerPrinter_proofs`, from `PrinterAssumption` and `LoggerAssumption`: two
timers, as in the programs, any number of threads, any limit). Two handlers between load and store may
each set the count back, so what bounds the overshoot is what a thread can still store:

- `ChainInv`: a timer is armed or handled by one thread. `LeaveInv`: a thread leaves `run()` when
  nothing is left to do. `AliveInv`: as long as the count is too small, some timer will count.
- `RaceInv`: of two handlers past the test at most the later can count to the limit and beyond; only
  while both timers are there can the count be one above it. With `AliveInv`, `FinalCountCorrect`.
- `DateInv`: where each thread is in `get_timestamp`, the part of the date read so far is of the
  second it asked for unless another thread called `localtime` in between. `DateIsOwnUnlessRacedCorrect`.

**Daytime servers** (`DaytimeServers_proofs`, any number of clients, copies and buffer sizes). `TcpInv`:
a connection is accepted and served once (`OnceInv`), and what was written is under way, printed or lost
by an error of the client before the connection is closed (`DaytimeInv`); hence
`CleanMeansPrintedCorrect`. `UdpInv`: datagrams received and in the socket are no more than arrived, and
`AnsweredOnceToSender`, which counts the answers that wait. The lemmas on counting in sequences (`Count...`)
say what appending and removing the head does to a count. `AnsweredOnceToSenderCorrect`.

**Flight storage** (`FlightStorage_proofs`, from `StorageAssumption`, any number of calls, datasets and
tables). `IInv = TypeInv /\ CallInv /\ FileInv /\ WriterInv /\ SettledInv /\ ReaderInv`:

- `FileInv`: a file belongs to one dataset, and only uploads of that dataset have it.
- `WriterInv`: a file nobody truncated under a writer (not in `torn`) has one writer, and its contents are
  what that writer has written so far.
- `SettledInv`: nobody writes to the file of a dataset whose last upload was acknowledged alone:
  `AcknowledgedIsStoredCorrect`.
- `ReaderInv`: what a download whose file was not written meanwhile has read goes with what it is going
  to read: `WholeUnlessMixedCorrect`.

`ServiceImplementsStore` shows that each step is a step of `DatasetStore` or a stutter. Where clients keep
uploads and drops apart from other calls (`exclusive`) it needs `Undisturbed` as well: no file is torn,
calls under way are apart, and what each has read of the directory and the file is still so
(`IsCurrent`), which moves the effect of a call of many steps to one of them. There is a lemma per
action (`...Serves`).

**Cookbook recipes** (`RecipeLedger_proofs`, any number of recipes, tests and runs). A dump has its rows
before it looks at the disk, and what it does depends on what the stream held when a recipe ended:

- `PlaceInv`: where the program is, and which file a dump is about.
- `DiskInv`: a file is opened for writing when what was read of it was not torn, or when it could not be
  opened for reading and is started afresh. `UnreadableStaysCorrect`.
- `StreamInv`: as long as no test has failed, the stream holds the output of the one recipe that runs,
  and what is recorded is each recipe's own.
- `OutInv`: `recipes_out.arrow` is dumped only while no test has failed; its rows, and those about to be
  written to it, are own. A merge of own rows is own (`MergeOwn`). `OutputsAreOwnCorrect`.
- `TableInv` and `NewerInv`: no row is of a later run; what a dump is about to write holds everything the
  file held, or newer, unless it starts the file afresh: `DumpsAreKeptCorrect`.
- `SavedInv`: as long as no test has failed, the output of each recipe that ran is in memory, in a file
  that is not being dumped, in the rows of the dump, or was in a file a dump has started afresh over
  (`lost`): `PassMeansRecordedCorrect`.

**Datasets** (`DatasetExample_proofs`, from `DatasetAssumption`, tables of any size, any number of
processes and runs). What a run reads depends on what all runs have left at its paths, so `IInv` follows a
file from the call that will write it to the scan that reads it. For each run:

- `LaneInv`: what is opened is filled later in the same lane, and a hive run writes into its partitions
  only.
- `FileInv`: each file a run reads back exists or is still to be opened, since nobody deletes; while no
  other run has overlapped it, each has its data and its footer or is still to get them, since they are
  lost only when somebody opens the file. A hive run that is alone and found no other data finds only
  what it writes.
- `ScanInv`: what is left to read and what has been read of a run that is alone are together the files of
  its mode. `FailInv`: why a plain run that is alone has failed: Iris.parquet.

`AloneInv` (a run that nothing has overlapped is the only one active) is needed for the step of any other
run. `CallProps` and `RestProps` say what a call of the file system does to the files and to what is still
to come. `PlainRunsRecoverCorrect` follows; for `ReadsExactlyCorrect` a row is
read as often as there are files read that hold it (`TimesOf`), and the slices share no row
(`ContentOf`).

**RPC** (`EchoRpc_proofs`, any number of clients, calls, retries and breaks):

- `ClosureInv`: the requests given to `Echo` and not answered are those of the calls of `Echo`, or of the
  coroutines, that are under way, one each; neither calls nor callbacks exist before the server runs or
  after it is gone, since `Join()` has seen every `done` run: `DoneEndsEchoCorrect`. That `Join()` counts
  those is brpc's part; that nothing goes on after its `done` is the program's.
- `MessageInv`: a response has the message of its request when its closure runs, as the guard
  lives in the coroutine and not in `Echo`, and so has every
  answer under way. `ResultInv`: a client that waits has no result; one that has a result has that of
  its call: `AnswersAreOwnCorrect`.
- `PlaceInv`: the places of clients, server and handlers: `TypeCorrect`.
- `RetryInv`: no try is ahead of its client; a try is on its way, accepted or refused, but one of them
  only; and the tries of a call that reached `Echo`, may still reach it, or were refused and will be made
  up for, are one more than the breaks at most. `RepeatedOnlyAfterBreakCorrect`.

## 6. What is only model-checked

- Liveness: `StopEndsRun`, `RequestsAreRead`, `ExitsAfterListenEnds`, `BothThreadsLeave`, `ClientsEnd`,
  `EveryDatagramAnswered`, `RunEnds`, `AskedMeansQuit`. The proof system does not handle ENABLED and
  fairness.
- The liveness half of the refinements of `ConnectionService` and `DatasetStore`, for the same reason.
  Their steps are proved for `BenchmarkServer`, `AwaitableServer` and `FlightStorage`.

Every safety property of the runs that pass is proved, as are the steps of every refinement.

Each module states the types of its variables (`TypeOK`, in `DaytimeServers` `BothTypeOK`). The
properties listed say more, so the runs check only that of the pool; all of them are proved
(`TypeCorrect`, `LimitTypeCorrect`, `AwaitableTypeCorrect`).

## 7. What is not modelled

- Arrow task experiments, stdexec, the straight-line arrow demos: calls of a library on constant data,
  waited for one after the other. Whatever can interleave is in the library.
- thrift calculator, oatpp, `HelloWorldServiceImpl` in `flight.cc`: handlers without state behind a
  framework's server.
- `print.hpp`: overloads chosen at compile time; its properties are about layout.
- rang: a vendored header.
- `test_timer` (a blocking wait) and the second log call per count of `test_binding_arguments`.
- The parts of `flight.cc` that are commented out.

Abstracted: contents of requests and responses (a unit of data is what fits a buffer), values of
columns other than by row, addresses, log output but for its date, the kind of an error; in
`BenchmarkServer` the coroutine frames, which are `CoroutineTask`'s subject; in `CoroutineTask` the
value returned, and which thread a context belongs to; in `EchoRpc` what brpc does
with a connection, and the attachment and log id of a call; in `DatasetExample` `table.csv` and
`write_dataset`, which no program reads, and the columns of `Iris.parquet`, which are only known to be
others; in `FlightStorage` an error when the output stream is closed by its destructor. Exceptions
thrown by a coroutine body terminate the process (`unhandled_exception`) and are modelled where a program can meet them (`RemoteEndpoint`).

## 8. Plan

All components with control of their own are modelled, and their safety properties proved. What could
follow: the liveness properties by hand-made ranking arguments, should the proof system learn fairness;
and the straight-line arrow programs, should they get control of their own.
