# A TLA+ verification project for libstx

libstx is a C++ toolkit: threads and schedulers, files and pages, HTTP, RPC,
statistics, JSON, CSV and protobuf helpers. This directory models it, checks the
models with TLC and proves the central invariants with TLAPS. Paths below are
relative to `src/src/stx/`.

## 1. Inventory

| Part | State | Operations | What is hard about it |
|---|---|---|---|
| `thread/threadpool.cc` | run queue, `free_threads_`, `num_threads_` | `run`, `runOnReadable/Writable/Wakeup`, the pool threads | a thread is created only if the queue is longer than the idle threads; `notify_one` after the unlock; thread creation may throw |
| `thread/queue_impl.h` | deque, `length_` | `insert`, `pop`, `interruptiblePop`, `poll`, `waitUntilEmpty`, `wakeup` | three kinds of waiters on one condition variable |
| `thread/FixedSizeThreadPool.cc` | `running_`, a Queue, threads | `start`, `stop`, `run` | stop races the workers' loop test; tasks submit tasks |
| `thread/wakeup.cc` | generation, callbacks | `wakeup`, `waitFor*`, `onWakeup` | registration races the wakeup; callbacks outside the lock |
| `thread/future_impl.h` | `PromiseState` | `success`, `failure`, `wait`, `waitFor`, `get`, `onX` | slots read after the unlock; callbacks under the lock |
| `thread/eventloop.cc` | descriptor sets, one callback per descriptor, run queue, pipe | `run*`, `cancelFD`, `poll`, `shutdown` | a select() snapshot that callbacks outdate; a pipe that fills up |
| `thread/DelayedQueue_impl.h`, `thread/CoalescingDelayedQueue_impl.h` | ordered multiset, `length_`, index | `insert`, `interruptiblePop`, `wakeup` | timed sleeps against earlier jobs; moves of queued jobs |
| `io/pagemanager.cc` | end of file, free list, mapping, file size | `allocPage`, `freePage`, `getPage`, `shrinkFile` | reuse of pages; references that outlive mappings; a mutex without a guard |
| `util/PersistentHashSet.cc` | a file of hash slots, `nslots_` | `addRecordID(s)`, `hasRecordID`, `grow` | growth into a new file and a rename, crashes in between, readers of the old file |
| `io/file.cc`, `io/fileutil.cc`, `io/FileLock.cc` | descriptors, paths, locks | open, clone, move, cp, cat, mkdir_p, lock | owners of a descriptor; processes that make the same path; a lock whose holder crashes |
| `io/inputstream.cc`, `io/outputstream.cc`, `csv/` | buffer, position, file offset | reads, skips, seeks, rows | a read-ahead buffer and the file offset must move together; short reads |
| `rpc/RPCRequest.cc`, `rpc/RPC.cc`, `rpc/RPCClient.cc` | ready flag, error, callbacks, references | `run`, `cancel`, `wait`, `onReady`, `call` | cancel races completion; who keeps the call alive |
| `http/httpserverconnection.cc`, `http/HTTP*Stream.cc` | connection states, buffers, callbacks, reference counts | read and write handlers, streams, `close` | a service thread and a loop share a connection; who frees it |
| `http/httpclient*.cc`, `http/httpconnectionpool.cc` | connections, promises, gauges | `executeRequest`, park, error paths | one promise, many ways to end it |
| `http/httpparser.cc`, `http/HTTPSSEParser.cc`, generators | parser state, buffer | `parse`, `generate` | input split at any byte; the end of a body |
| `executor/` (not part of the build) | tasks, timers, watchers, threads | `execute*`, `cancel`, `wait`, `runLoop` | intrusive lists in time order; predicates tested without the mutex that guards them |
| `net/` | sockets, accept tasks, DNS cache | listen, accept, connect, close, resolve | descriptor numbers that are reused |
| `stats/` | counters, last reported values | `incr`, the agent's report, packets | deltas of counters that move; lost packets |
| `buffer.cc`, `autoref_impl.h`, `option_impl.h` | allocations, reference counts | copy, move, assign, append, drop | who frees what, in several threads |
| `json/` | tokens with sizes | write, parse, look up, flatten, JSON-RPC | navigation by sizes; escapes |
| `protobuf/` | schemas, messages | encode, decode, JSON, schema evolution | a message read with another version of its schema |
| `util/BitPack*`, `util/binarymessage*`, `uri.cc`, `UTF8.cc`, `util/Base64.cc`, `web/SecureCookie.cc`, `stringutil.cc`, `cli/` | none shared | conversions | characters that mean something to the other side; sizes at a boundary |
| `ISO8601.cc`, `UnixTime.cc`, `human.cc` | none | parsing, detection of types | leap years, zones, order of the values |

How the parts interact: a `TaskScheduler` (EventLoop, CachedThreadPool or
FixedSizeThreadPool) runs `std::function`s; `Wakeup` and `Future` carry results
between threads, and a Wakeup hands a task to a scheduler (`runOnWakeup`); the
HTTP server reads and writes on an EventLoop and runs services on a pool; a
remote call is an HTTP request whose future settles an `AnyRPC`, which wakes its
callers through a Wakeup; the server side of a call is an `RPCRequest`; the
statsd agent sends counters in UDP packets, which a server's loop hands to a
pool; the page manager and the hash set sit on `File`. `PROJECT.json` lists
every part with its status under `components`, and under `hazards` every place
where this code can go wrong in a way that a test would hardly reach.

What makes the parts correct:

* pools and executors: every accepted task starts, once and in order; the
  counters that decide on new threads are exact; a cancelled task does not run;
* queues: a bounded FIFO (or time order) without lost wakeups;
* Wakeup, Future and remote calls: nobody sleeps through the event, every
  callback runs, the outcome is one and stays;
* EventLoop: no task is overlooked, a cancelled callback stays silent, a
  callback runs for its own event;
* pages and records: no byte belongs to two pages, none is lost; an id whose
  insertion was reported is found, whatever crashes;
* the HTTP server: every byte of the body and of the response once and in order,
  no deadlock between its two threads, and an answer ends in a closed connection;
* memory, references, descriptors and sockets: one owner each, released once;
* formats: what was written is read back, however it is cut.

## 2. Modules and how they correspond to the code

Every module keeps the source's names. A section that the code runs under a
mutex from lock to unlock is one step; what comes after the unlock
(`notify_all`, callbacks) is a step of its own. A condition variable is the set
of threads asleep on it (`waiting`, or a program counter); `notify` removes
them, and `spuriousWakeup` lets one return for no reason. A definition whose
name ends in `_something` next to the one it is a variant of, and whose comment
begins with "Mutant", is a plausible mistake in that code: it is used only to
show that the properties would notice it.

Threads and tasks:

* **CachedThreadPool** - `thread::ThreadPool`. A task is the number of its
  `run()` call; `pc` says where each pool thread is. `run` is the locked section
  with `startThread` inside it, `notifyOne` what follows. The `run*` wrappers
  make a task that first blocks (`unblock`, `selectRaises`). The exception
  handler aborts or not, by a constant.
* **Queue**, **BoundedFIFO** - `thread::Queue` and what it promises.
  `IsFIFO` is the refinement, with `queue_` for `items`.
* **FixedSizeThreadPool** - instantiates Queue for its `queue_` and adds the
  owner's `start`/`stop` and the workers' loop, each atomic load, call and join
  a step. `queueMaxSize` and `block_` say what each constructor passes on.
* **Wakeup** - with the history of the generation each callback asked for and
  the generations at which it ran.
* **Future** - one `PromiseState`; `mutex` is explicit because a late callback
  runs with it held.
* **EventLoop** - the loop's thread step by step (`lpc`), other threads (`pc`),
  user code on the loop's thread, which may call anything at any time. `misused`
  remembers whether a descriptor ever had two registrations at a time or was
  cancelled while poll() was about to serve it; two properties are about users
  who do neither. `num_fds_` is an integer; below 0 stands for the wrapped
  `size_t`.
* **DelayedQueue**, **CoalescingDelayedQueue** - with a clock `now`; the second
  extends the first by `map_`.
* **ThreadPool**, **PosixScheduler**, **Executors** - the executor directory. In
  ThreadPool a waiting thread tests its predicate and blocks in two steps,
  because flag and counters are written without the mutex. PosixScheduler keeps
  the linked list of watchers in the entries of `watchers_`, one per descriptor
  below `Slots`, and the loop around select() step by step; `hung` is the descriptor
  whose setupWatcher() searches without end, with `lock_` held. Executors holds ThreadedExecutor
  and DirectExecutor; `executor` says which one a behaviour is about.

Files:

* **PageManager**, **MmapPageManager** - the second extends the first by the file,
  the current mapping and the page references. `shrinkFile` is three steps,
  because it takes no lock.
* **PersistentHashSet**, **RecordSet** - inodes and the path are explicit, so that
  a reader keeps probing the file it opened while a writer grows the table and
  renames the new file over it; a crash may come between any two steps. An
  insertion grows the table at most once, and `rehash` puts what a scan returns, the
  slots that a short last batch shows again included, into the new table. RecordSet is a set that ids are added to;
  `IsASet` is the refinement.
* **Files** - processes that make a directory, lock it and update a file in it,
  a system call at a time. **Handles** - descriptors, the open files a clone
  shares, inodes; owners that move, clone and close them while a copy runs.
* **Streams** - rows written through a small buffer and read back, and the input
  streams compared with one another on any sequence of calls, with the counts that
  skipNextBytes() returns.

Services:

* **HTTPServer** - one connection from accept to free, with the loop's thread
  "L" and the service's thread "W"; the parser's state, the buffers, callbacks,
  locks and three reference counts are variables, and the steps are the handlers
  and the parts of the streams between two locks.
* **HTTPClient** - requests of the pool, on an EventLoop or a ThreadPool, and of the
  blocking client, with failing sockets, truncated responses and an executeRequest()
  that raises. `op` is what the scheduler has to report; what read() or write() does
  under the connection's mutex is one step, and after the unlock `pc` goes through
  the scheduling of onResponseComplete(), on_ready_.wakeup() (the lock, the
  notification, the callbacks) and, in error(), onError(). `park` and `complete` are
  the two tasks that wait for on_ready_: a loop runs them in wakeup(), a ThreadPool on
  threads of their own, at any time. `used` remembers whether a connection was used
  after parkConnection() had deleted it. **HTTPWire** - generators and incremental
  parsers, fed with segments of any size.
* **RPCRequest** - the server side of a call; on_ready_ and on_cancel_ are read,
  called and cleared in separate steps. **RPC** - the client side: an AnyRPC, its
  references, and `HTTPRPCClient::call`; instantiates Wakeup.
* **Stats** - counters, agent, network, server. **Net** - listening and connected
  sockets with reused descriptor numbers, and the DNS cache with its gap between
  lookup and insertion.

Data:

* **Buffer**, **RefCount** - an explicit heap, resp. counters; objects are copied,
  moved, assigned and dropped in any order. So are the message objects at the end
  of Protobuf.
* **BinaryMessage** (with the bit packing of integers), **JSON**, **Protobuf**,
  **Text**, **Time** - encoders and decoders as operators, and steps that write and
  read. Text is a sequence of characters or, where the code does not look inside,
  of words. Text also holds the command line.

Model checking modules. CachedThreadPool, Queue, FixedSizeThreadPool and EventLoop
are checked as they are. Components that share no state are checked together in
one run: the variable `part` picks the component a behaviour is about, `Only(p)`
leaves the others as they are, and a part nobody looks at is in one fixed initial
state. The state space is the sum of those of the parts, not their product.
**MCStorage** has everything in files, **MCEventLoop** the loop and the coalescing
queue, **MCServices** what is checked for progress, **MCLibrary** the rest, with
the inputs of the formats at its top. Each extends the modules its theorems are
about (MCStorage: MmapPageManager, PersistentHashSet, Files and Handles; MCEventLoop:
CoalescingDelayedQueue; MCServices: Future and HTTPServer; MCLibrary: Wakeup, RefCount, HTTPClient
and Net), so that TLC evaluates the assumptions of those modules and checks the very
definitions that are proved; the other parts are instances. **...Proofs** modules hold theorems, section 5.

## 3. Runs

| Run | Instance | Shows |
|---|---|---|
| `cached_pool` | a client, 3 threads of which 1 cached, 3 tasks, creation may fail | exact counters, start order, no lost wakeup, no stranded task; every task starts although running tasks may never return |
| `queue` | 3 threads, capacity 2, 2 values | length, wakeups, refinement of BoundedFIFO; blocked threads proceed |
| `pools` | 2 workers, a client, an owner, 3 tasks, capacity 1 | stop() drains, a task is in one place; every accepted task runs unless tasks block all workers in run() |
| `fixed_pool_stop` (violation) | 1 worker, 1 task | stop() can miss a worker between its test and its sleep, and never return |
| `storage` | pages: 2 holders, sizes 0, 1 and 3 in blocks of 2; hash set: 4 ids with colliding and wrapping hashes, 4 slots at first, a writer and a reader; files: 3 processes, a path of 3; descriptors: 2 owners, 2 names | no overlap, no leak, references inside mapping and file, getPage() returns unless I/O failed; acknowledged ids are found after crashes, readers agree, refinement of RecordSet; whole paths, no lost update, each descriptor closed once, exact copies |
| `event_loop` | 2 descriptors, 2 callbacks, another thread; coalescing queue: 2 producers, 2 consumers, 2 jobs, 3 times | whatever users do: no overlooked task, silence after cancel; for disciplined users: the right event, and runOnce() serves everything; time order, nobody oversleeps, no job lost or doubled while due times differ |
| `event_loop_liveness` | 1 descriptor, 2 tasks, another thread | the same safety with tasks in the list; tasks run in order, cancelFD() and shutdown() finish; the only hindrance is the loop's own write to its full pipe |
| `coalescing_queue_full` (violation) | capacity 2 | moves inflate `length_` until insert() refuses |
| `services` | promise: 2 threads, 2 callbacks; event: 2 threads, 2 callbacks, 2 generations; delayed queue: a producer, 2 consumers, a job, 3 times; server: bodies up to 3 and 4, write buffer of 2; call: 3 threads; client: 2 users, a callback, the loop; stats: 2 counters; pool: 2 workers, 2 jobs | a promise has one outcome that all callers see, the right callback runs once; waits return, callbacks run, due jobs are taken; no exception into the loop, no lock cycle, complete bodies, responses end; a call is settled and nobody waits for ever; counts arrive; queued jobs run |
| `http_free` (violation) | smaller bodies | a response started after the client left keeps a reference for ever |
| `library` | an event with 3 threads, 2 callbacks, 2 generations; 18 more parts, small objects, lists of inputs | callbacks run once, not early, and none is lost, nobody sleeps through a wakeup; references are counted, a client's requests are settled once, a socket has one holder (`RefsCounted`, `ClientSafe`, `SocketsSafe` of their modules); for the rest see the comments of the invariants at the end of MCLibrary |
| `flat_json` (violation) | the documents of MCLibrary | FlatJSONReader's paths after the end of an array |

The four violations are the `findings` of PROJECT.json. Other places where the
code does not keep what its comments say or what its caller would expect, found
with these models and left out of the runs:

* the FixedSizeThreadPool constructor without an error handler drops
  `maxqueuelen` and `block` (`FixedSizeThreadPool.cc:26` against the comment at
  `FixedSizeThreadPool.h:34`): with `ShortCtor = TRUE` the queue grows past
  `maxqueuelen`;
* `Wakeup::wakeup` runs callbacks registered for a later generation too
  (`wakeup.cc:55` against `executor/Scheduler.h:125`): with
  `FutureGenerations = TRUE`, `AfterGeneration` fails. No caller passes such a
  generation;
* `shrinkFile()` during a `getPage()` leaves a mapping that ends before the page
  (`pagemanager.cc:116` against `pagemanager.h:186`): with
  `ConcurrentShrink = TRUE`, `MappingSpans` fails;
* mappings have the size of the file, which need not be a multiple of the block
  size (`pagemanager.cc:174` against `pagemanager.h:127`);
* a read and a write registration on one descriptor share a callback slot
  (`eventloop.cc:123`): without `misused`, `FiresWhenReady` fails;
* cancelling a descriptor that select() has returned counts it down twice
  (`eventloop.cc:191`): without `misused`, and with three descriptors,
  `RunOnceServes` fails;
* a task that calls runAsync() on a full pipe blocks the only thread that empties
  it (`eventloop.cc:211` against `taskscheduler.h:27`): `SelfBlocked`;
* two jobs due at the same microsecond share a place in the coalescing queue's
  index, and a move of one can erase the other: `collided` excludes it;
* `ThreadPool::wait` of the executors may return between the pop of a task and
  the increment of the counter (`executor/ThreadPool.cc:134`), and a select()
  that fails leaves the counter incremented;
* `RPCRequest::run` and `cancel` may both call on_ready_ (`rpc/RPCRequest.cc:58`);
  `HTTPRPCClient::call` raises when the host does not resolve, and then nobody
  settles the call;
* assigning an AutoRef to itself may use a deleted object (`autoref_impl.h:38`);
* `ISO8601.cc:197` tests the day against the length of another month, which
  refuses no valid day;
* `DynamicMessage::fromJSON` loses booleans in arrays, zero doubles and small
  times (`Plain` excludes them);
* `BinaryMessageReader::maybeReadUInt*` want one byte more than they read;
* no HTTP client ever sets `keepalive_`, so connections are never reused;
* `HTTPClientConnection::error` calls `on_ready_.wakeup()`, where a pool on a loop runs
  parkConnection() and deletes the connection, and reads `cur_handler_` from it
  afterwards (`httpclientconnection.cc:246`). A pool on a ThreadPool has threads wait
  on the on_ready_ of a connection that another one deletes; its one use is commented
  out (`http_test.cc:248`). `NoUseAfterDelete` names both;
* an executeRequest() that raises in the lease leaves the connection unparked and
  `current_connections`, maybe `current_requests`, raised for ever
  (`httpconnectionpool.cc:70`); with a descriptor too large for its loop the blocking
  client leaves `current_requests` raised, or both when runOnce() raises (`leaked`);
* `PosixScheduler` runs the task of a ready watcher although it was cancelled
  (`PosixScheduler.cc:316`); searches a place for a third watcher without end, with
  `lock_` held, when it is due later than the one before the last (`:290`); keeps
  neither watchers nor timers in ascending order, although `:286` and
  `PosixScheduler.h:206` and `:209` say so, so that one that is due may wait behind one
  that is not; calls a timeout already collected for a watch registered since on the
  same descriptor; and leaves its counter raised when setupWatcher() raises;
* a JSON string loses its control characters: they are written as `\u00xx` and the
  reader drops them (`jsoninputstream.cc:185`, a FIXME), in keys too (`Kept`);
* a message that ends inside an object raises after the object was added, empty or with
  the fields read so far (`MessageDecoder.cc:67`): `EmptiedAt` in `WireRoundTrip`;
* `JSONEncoder` writes all values of a field that is not repeated behind one key
  (`JSONEncoder.cc:45`), which is no JSON object any more (`Plain` excludes it);
* `FileInputStream::skipNextBytes` returns what was asked for past the end of the file
  too (`inputstream.cc:265` against "Returns the number of bytes skipped",
  `inputstream.h:248`), where streams in memory return what was left; and
  `FileInputStream::seekTo` accepts any offset (`inputstream.cc:318` against
  "Raises en exception if the provided offset is out of bounds", `inputstream.h:265`).
  `StreamsAgree` states the first difference and has a file at the end after the second;
* `SecureCookieCoder` raises for a time that is no number or a digest that is not forty
  hex digits instead of returning None (`SecureCookie.cc:79` and `:82`), and ignores
  characters behind the digits;
* `Base64::encode` of less than two bytes compares with a wrapped length and reads on until
  the process dies (`Base64.cc:93`), a secure cookie of so little data with it;
* UTF-8 sequences of five bytes shift their first byte by 14 instead of 24 when read
  (`UTF8.cc:72`), and those of six take a byte from one bit too low when written
  (`UTF8.cc:201`): codepoints from 2^24 on, beyond Unicode, do not survive;
* `--flag=value` is an argument and not a flag (`flagparser.cc:151` compares the whole
  size), and `-f=value` takes the next argument for the value (`:160`);
* `Human` takes an empty cell for an unsigned integer, because `isNumber("")` holds
  (`stringutil.cc:297`), so NULL_OR_EMPTY is what only "null" is;
* `TCPConnection::close` does not test whether it has closed already; its caller
  has to, which is how Net uses it.

**Bounds.** Two or three threads of each kind, because every property is about a
pair (one sleeps, another changes state) and a third thread supplies the
interference (a second producer, a stolen notification). Queues of capacity 1 or
2 are full and empty within a few steps. `MaxTasks`, `MaxGen`, `MaxTime`,
`MaxLength`, `MaxEnd`, `MaxCancels` and `PipeCapacity` cap counters; each is
large enough for the cases named in the hazards: more tasks than cached threads,
a generation that passes twice, a due time before, at and after another one, a
file that grows, is reused and shrinks, a pipe that fills. Four ids
make the hash table grow from nothing to 4 slots and from there to 8. `MaxFd`, `MaxSockets`, `MaxFiles` and
`MaxChanges` leave one descriptor number to be reused after it was closed.
`VarBase` is the base of a varint's digits: 2, 4 or 16 instead of 128, so that
small numbers take one, two and three bytes; `kMaxPacketSize`,
`kMaxWriteBufferSize`, `ChunkSize`, `Block` and the parser's `kMax...` are small for the same
reason. `MaxDays` = 430 walks from each start over at least one February and one
end of a year. `MaxCalls` is four calls on a stream, enough to seek back and
read over the end of a buffer twice. `event_loop` checks no liveness and permutes
the queue's producers, consumers and jobs, which its definitions do not tell apart;
the other runs use no symmetry. `CHECK_DEADLOCK FALSE` is set where a system
may rest: when the bounded work is done, when a pool was stopped, or because
nobody is obliged to call anything.

**Fairness.** A thread that is inside an operation and not asleep eventually
takes its next step (weak fairness: the scheduler runs it, and it gets a mutex
that is free again and again). Strong fairness is used where an operation needs
something that others take and release repeatedly: a mutex held across several
steps (`growFile`, `workTop` of the executors' pool), room in a queue or pipe
that others fill (`insertAgain`, `writePipe`), a select() that signals may
interrupt, a callback that returns after any number of calls. Timed waits time
out, and time passes. Nobody has to call an operation, with one exception: the
consumers of a DelayedQueue call `interruptiblePop` in a loop, as its interface
requires. Tasks of the CachedThreadPool need not return; tasks of the
FixedSizeThreadPool and callbacks of a loop do. The server's loop and service
thread run; its client owes nothing. The statsd agent's thread runs, and packets
the network has not dropped arrive. Spurious wakeups may happen and need not.
In MCServices the steps of one thread of which only one is enabled at a time are
taken together under one WF. Where the obligation lasts until it is met, `P ~> Q` is written
`[]<>(P => Q)`, which says the same of such a P and is cheaper to check.

## 4. Abstractions

Tasks, jobs and callbacks are model values; closures are left out, and reference
counts too except in RefCount, RPC and HTTPServer. Clocks are small naturals.
File sizes and offsets are small naturals, so wrap-around at 2^64 is not seen.
select() may return any subset of the ready descriptors. Handler exceptions
either abort the process or are logged. Hashes are a table with collisions. The
HMAC of a cookie is the pair of its key and its text. Numbers of JSON keep their
text; doubles are not computed with. simdcomp returns the numbers of a block modulo
2 to the number of its bits. strptime() wants every digit written. In HTTPWire a
segment holds bytes of one message only, and the generator's test at
`httpgenerator.cc:44` is left out. In HTTPServer a request is dispatched while its
connection is referenced, by the pool (services without a scheduler, which run at
once on the loop, are left out). connectAsync() called from another thread may raise in the
loop, for a descriptor too large for it: that is not modelled.

## 5. Proofs

TLAPS checks these for all values of the constants, under the assumptions named
in the modules (finite sets of threads, natural bounds, a `None` that is nothing
else). "TLC: run" names the run that checks the same definition on an instance.

| Theorem | Property | TLC |
|---|---|---|
| CachedThreadPoolProofs `WorkersSafeCorrect`, `OrderCorrect` | `WorkersSafe`, `StartedInOrder` | `cached_pool` |
| QueueProofs `QueueSafeCorrect`, `QueueIsFIFO` | `QueueSafe`, refinement `IsFIFO` | `queue` |
| FixedSizeThreadPoolProofs `DrainsCorrect` | `DrainsOnce` | `pools` |
| ServicesProofs `PromiseCorrect` | `PromiseSafe` | `services` |
| ServicesProofs `ServerSafeCorrect`, `ServerCompleteCorrect` | `ServerSafe`, `ServerComplete` | `services` |
| LibraryProofs `EventCorrect` | `EventSafe` | `library` |
| LibraryProofs `RefsCorrect` | `RefsCounted` | `library` |
| LibraryProofs `ClientCorrect` | `ClientSafe` | `library` |
| LibraryProofs `SocketsCorrect` | `SocketsSafe` | `library` |
| EventLoopProofs `LoopSafeCorrect` | `LoopSafe` | `event_loop`, `event_loop_liveness` |
| DelayedQueueProofs `InTimeCorrect`, `CoalInTimeCorrect` | `InTime`, of either queue | `event_loop` |
| DelayedQueueProofs `NoJobLostCorrect` | `NoJobLost` | `event_loop` |
| StorageProofs `PartitionCorrect`, `MmapPartition` | `PagesPartition`, of either manager | `storage` |
| StorageProofs `MappedCorrect` | `PagesMapped` | `storage` |
| StorageProofs `RecordsKeptCorrect`, `HashSetIsASet` | `RecordsKept`, refinement `IsASet` | `storage` |
| StorageProofs `FilesSafeCorrect` | `FilesSafe` | `storage` |
| StorageProofs `HandlesSafeCorrect` | `HandlesSafe` | `storage` |

Each module also proves its type invariant. The inductive invariants, and why the
properties need them:

* **CachedThreadPoolProofs**. The conjunction of type, `Accounting`,
  `StartedInOrder`, `ThreadReserved`, `NoLostWakeup` and `CachedBound`. Only the
  order of the tasks is inductive alone: `free_threads_--` keeps the type only if
  the counter is exact; the reservation counts idle threads by `free_threads_` and
  so needs `Accounting`. Sets of threads are counted through `Count(pc, L)`,
  and one lemma (`CountMove`) says how one thread's step changes every count;
  the rest is arithmetic, one step per action. `NoStrandedTask` follows.
* **QueueProofs**. The invariant adds to the type that a thread blocked in insert()
  has a job (`arg`), without which its later append could put in a non-value.
  `StepShape` reduces the actions to four shapes (append, take, sleep, leave);
  refinement follows from the first two.
* **FixedSizeThreadPoolProofs**. `Places` says where each task is: queued, popped or
  run by one worker, waiting in one blocked run(), or done. It needs that the
  worker's place in its loop agrees with its place in the queue's code
  (`WorkersAt`), and that the queue holds nothing twice. stop() drains because
  the queue was empty once after `due`, what had been accepted when it began, was
  fixed (`Drained`): none of it is queued again, so it is done when all workers
  have been joined.
* **ServicesProofs**, Future. success() and failure() read `on_success` and `on_failure` after
  the unlock. That is safe because a fulfilled promise's slots are frozen
  (`FrozenCorrect`, an action property), one thread fulfils it (`OneFulfiller`), and
  what it finds there has not run (`SlotsUnfired`); onX() on a fulfilled promise
  runs only what is in no slot. Hypothesis `NoneIsNothing`: `None` is no callback,
  kind or answer.
* **ServicesProofs**, HTTPServer. `ServerInv` has three parts. `Control`: the stream has
  at most one write outstanding and `callback_running_` says so; that write has one
  holder, the worker, an "arm" request in the loop's queue, the descriptor, or a
  callback of the loop (`OneWrite`). This is what excludes the bad meetings of the two
  threads: while the worker is in finishResponse() no write is outstanding, so the
  loop is in no callback that needs a mutex (`Locks`); and whoever comes to close the
  connection finds it open, because a recorded error keeps the stream from finishing
  and a finished response leaves nothing whose failure would close it again (`Ends`).
  `ServiceOrder` says how far the service and the body's chunks can be from one
  another. `Body`: every byte read is delivered, in the loop's chunk, in the worker's
  chunk or in `body_buf_` (`Counted`), and nothing but empty chunks is queued behind
  one marked as the last (`NothingAfterLast`), so the wakeup of readBody() comes after
  all of it. `Response`: `sent`, `write_buf_`, the chunk being handed over and `buf_`
  are consecutive pieces of 0, 1, 2, ..., together as many as the service wrote and the
  head (`Pieces`); `Flow` says when each of them is empty. The proof has one lemma per
  action and part. Assumption `ServerBounds`: natural bounds on the bodies, a
  positive `kMaxWriteBufferSize`; the reference counts are not in the invariant.
* **LibraryProofs**, Wakeup. A registered callback is in the event's list, in the local list
  of one thread, or has run once (`ListsApart`, `ListsPending`, `Accounted`);
  sleepers are inside waitForWakeup(), and local lists belong to threads that are
  about to call them. `GenInv` adds the generations. `OnceCorrect` needs `MaxGen \in
  Nat` only; that no callback is early needs `~FutureGenerations` too: callers pass
  generations that have come, as all those in the repository do (section 3 says
  what happens otherwise).
* **LibraryProofs**, RefCount. `RefInv`: the counters are exact and an object is alive
  while it is counted (`Counts`), and between the two halves of an assignment
  (`HalfAssigned`) the target has dropped its reference, the source still has one and
  both cells belong to the thread; without that, the object that the second half
  counts up could be gone. One lemma (`PutCounts`) says how one cell's change
  changes every count; a move is two of them.
* **LibraryProofs**, HTTPClient. `Sane` relates, for each request, where its thread is
  after the unlock, the two tasks, the connection, the future, the answers and the
  bytes: `InHand` is what that thread knows (the connection is closed and still there
  until the wakeup, onResponseComplete() is left for it exactly on the way of a complete
  response), `Owned` who will delete the connection and who will settle the promise (a
  live future has a registered operation, a task that is due, or a thread on its way to
  one of them). Between the unlock and the tasks the properties
  themselves say nothing of the request, which is why they are not inductive. A step
  replaces one request and adds to the gauges what that request's record says
  (`Good`), so that each action owes only its own record: one lemma per action and
  outcome, and `ByOne` for the cardinalities. That an end of file before the headers
  counts as a complete response is part of the model, and of the theorem: nothing was
  announced then.
* **LibraryProofs**, Net. What is held is open and still the socket it was made for
  (`HeldOpen`), is held once (`HeldOnce`), and all that is open is held (`AllHeld`);
  `Pending` adds that what the loop will hand to on_ready, and what connectAsync()
  has not registered yet, is alive. After the registration nothing is said of
  connectAsync()'s object: the loop may have destroyed it, and the theorem holds
  because the last line only lets go of it. Each action opens for one holder, hands
  over, closes, or leaves the holders alone; one lemma for each of these. The cache's
  part needs that `NoAddr` is no address.
* **EventLoopProofs**. Unconditionally: a registration is in one list, once, and not
  executed yet (`Pending`); what sits in `callbacks_` was installed, belongs to its
  descriptor and is not cancelled (`Slots`). From these alone a cancelled callback
  is silent, whatever users do. As long as they are not `misused`
  (`Disciplined`): a descriptor has one live registration, a descriptor in a set
  has an unfired callback of that kind, what select() returned is still in the
  sets, and `num_fds_` is the size of both sets, which is what runOnce() relies on.
* **DelayedQueueProofs**. `Sorted` is inductive only with the exact place of an
  insertion; `Bounds` and `EmplaceOrdered` say that upper_bound is the number of
  entries not after the new one (by the least position that is not), and what
  emplace() leaves where. `NoOversleep` needs that only threads inside a pop or a
  blocked insert() sleep, that `length_` never falls below the length (it may be
  above: the finding of `coalescing_queue_full`), and that a blocked insert() still
  has its job. For the coalescing queue, `Indexed` relates `map_` and `queue_` both
  ways while no two jobs were queued for the same time (`collided`), for a new job,
  a job moved forward and one that stays.
* **StorageProofs**, pages. `NoOverlap` is not inductive alone: a page cut at `end_pos_`
  is apart from the others only because they all end there (`PagesInside`).
  `EraseAt` says that erasing an entry is a bijection onto the other entries.
  `FitsCorrect`: a page is as large as what was asked for; rounding up to blocks
  needs the division by a variable, which one lemma settles.
  `MmapIsPageManager`: a step of MmapPageManager is a step of PageManager or leaves
  its variables alone, hence `MmapPartition`. `MappedCorrect`, a reference lies
  inside its mapping and inside the file, rests on `used_bytes_`: shrinkFile() cuts
  the file to it, so every page must have been counted in it before it is mapped
  (`Counted`), and `file_size_` may differ from the file's length only inside
  shrinkFile() (`Shrinks`). It needs `~ConcurrentShrink`; section 3 says what
  happens otherwise.
* **StorageProofs**, PersistentHashSet. In every file that a reader or the path may
  lead to, an id is reached by its probes before an empty slot, and there is one
  (`Table`). An insertion keeps that because it fills the first empty slot of the
  probes. Growing is the hard part: a scan shows some slots twice, so a new table
  holds ids twice that `nslots_used_` counts once. `Loaded` bounds by how much, and a
  table that is not full has room for one more id and an empty slot behind it
  (`Roomy`), hence the code's "set is full" is never raised. The new file becomes
  reachable with the rename only, so a crash before it changes nothing. What the
  recursive function of `Rehashing` holds is proved from a least counterexample
  (`LeastNatural`), since the library's induction is out of reach. Assumptions: at
  least 2 initial slots, and a fetch batch not larger than the initial table.
* **StorageProofs**, Files. That a path gets completed although mkdir() raises in a
  process another one has overtaken is `Frontier`: while the last component is
  missing, some process is about to make the next one or to look for it, or has
  crashed. It needs that the directories are a prefix of the path and that a process
  has the components before its own (`Prefixes`). No update is lost because a process
  between lock() and unlock() holds the lock, and what it has read is the number of
  processes that wrote (`Exclusive`). Assumption `FilesAssumption`: finitely many
  processes, at least one, and a path of at least one component.
* **StorageProofs**, Handles. `Owned`: a descriptor is open exactly if it is the
  copy's, the caller's of releaseFD(), or that of one object that will close it, and
  these three exclude one another; a stream that does not close has a descriptor that
  its caller kept. Cardinalities appear only in the last step (`OneCloser`). For
  the copy, `Opens` says that nobody shares the offsets of its two descriptors,
  since only an object's descriptor can be cloned; so a step of somebody else
  changes what the copy sees only through the inode, and then `Spoil` has marked it
  (`CopyStays`). `Progress`: the target is what it was and a prefix of the source, the
  chunk is the next piece, and the offsets are at the ends of both. A read keeps it
  because it stops at the end of the file or of the buffer (`ChunkIs`), a write
  because at the end of a file it appends (`SplicedEnd`). The theorem covers any number of
  objects and names, any buffer size and any bounds; the bytes that objects write, and
  where, are those of the model, but the lemmas do not depend on them.

The theorems are about the safety specifications; the runs check the same
definitions under specifications that add fairness, or inside an MC module where
each specification is one part.

Only model-checked:

* liveness: fairness and ENABLED are outside TLAPS. So is the order of
  the tasks, a safety part of `LoopServes`: it filters a list with SelectSeq, and what SelectSeq
  returns for every list takes an induction;
* what recursive operators compute: JSON, Protobuf, Text, Streams and the other
  formats;
* the properties of the remaining modules: RPC, RPCRequest, Stats, Buffer,
  ThreadPool, PosixScheduler, Executors.

## 6. Not modelled, and the plan

Left out:

* `protobuf/MessageBuilder` and `MessagePrinter`, help texts, terminal output,
  logging, process setup: text for people;
* `RPCService` and `RPCStub`, which look a method up and forward, and
  `ServerGroup`, an index that counts round under one mutex;
* HTTP file serving and downloads: handlers without state of their own, on the
  streams that HTTPServer and HTTPClient model;
* `net/acceptor.cc` and `ini_parser.cc`, which are not built or are stubs;
* SHA1, HMAC, FNV, simdcomp, the bits of a double, regular expressions: out of
  TLC's reach; tables of languages and currencies; templates of `reflect/`;
* `InternMap`, `RadixTree`, `CumulativeHistogram`, `SimpleRateLimit`: a few lines
  each, without a state that several calls have to keep;
* `StackTrace` and the code under `3rdparty/`.

Open, in this order:

1. The safety of the executors' ThreadPool (`pendingTasks_` and `activeTasks_`
   against the places of a job), by the counting lemmas of CachedThreadPoolProofs.
2. The safety of RPC from the theorems of Wakeup, which it instantiates.
3. A Future inside RPC and HTTPClient instead of one step per operation.
