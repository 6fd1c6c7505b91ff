# A TLA+ verification of libatp

libatp is a C++ networking library on top of libevent: one event loop per
thread with a queue for tasks from other threads, pools of loops and of worker
threads, TCP servers and connections over them, timers, a byte buffer, and
application helpers (memory pool, RPC, HTTP, Redis, cryptography). This directory
models it, model-checks it with TLC on small instances and proves nearly all the
safety properties that the runs check with TLAPS, for every size.

Paths below are relative to the repository's `src/src/`.

## 1. The system and its parts

| part | state | operations that change it | module |
|---|---|---|---|
| EventLoop (`net/atp_event_loop.*`) | `thread_id_`, `state_`, `pending_tasks_`, `pending_tasks_size_`, `notified_` | `sendToQueue`, `stop`, `dispatch`, `doPendingTasks`, `stopHandle` | EventLoop; the destructor in LoopWatcher |
| EventWatcher (`net/atp_event_watcher.*`) | an event, `attached_`, descriptors | `doInit`, `doWatch`, `doCancel`, `eventNotify`, the read callback | EventWatcher, used by LoopWatcher and CycleTimer |
| EventLoopPool, EventLoopThread (`net/atp_event_loop_thread_pool.*`) | `state_` of pool and threads, `current_index_` | `autoStart`, `autoStop`, `autoJoin`, `getIOEventLoop`, `executer`, destructors | EventLoopPool |
| DynamicThreadPool (`net/atp_dynamic_thread_pool.*`) | `callbacks_`, `waiting_threads_`, `current_threads_`, `shutdown_`, `dead_threads_` | `add`, `executerImpl`, `executer`, destructor | DynamicThreadPool |
| Channel, Connection (`net/atp_channel.*`, `net/atp_tcp_conn.*`) | `events_`, `attached_`, `event_`, the buffers, callbacks | `send`, `close`, read, write, close and error handlers | Connection |
| Server, Listener (`net/atp_tcp_server.*`, `net/atp_listener.*`) | `state_`, connection table | `start`, `stop`, `acceptHandle`, `handleNewConnection`, `handleCloseConnection`, `hashTableRemove`, destructor | TcpServer |
| TimingWheel, RingBuffer (`net/atp_timing_wheel.hpp`, `net/atp_ring_buffer.hpp`) | ring of buckets of entries | `push_back`, `push_bucket`, insert, entry destruction | TimingWheel |
| CycleTimer (`net/atp_cycle_timer.*`) | watcher, `persist_`, self reference | `start`, `cancel`, `onTrigger`, `onCancel` | CycleTimer |
| ByteBuffer, reader and writer (`net/atp_buffer.hpp`) | memory, capacity, two indices | `append`, `prepend*`, `grow`, `remove`, `consume`, `decrease`, `readv` | ByteBuffer, implements ByteQueue |
| Socket, SendHelper (`net/atp_socket.*`, `app/atp_send_helper.hpp`) | descriptor, options | `create`, `setfd`, `connect`, `bind`, `listen`, `accept`, `close`, options; `sendMessage`, `setFd` | Socket |
| Memory pool (`app/atp_memory_pool.cpp`, `app/atp_memory_policy.cpp`) | used and free pools, chunks, counters | `create_pool`, `pool_alloc`, `release_pool`, `pool_helper_destroy` | MemoryPool |
| RPC (`app/atp_rpc_*`) | services, channel, request id | `registerService`, `onMessage`, `onRpcRequest`, `doneCallback` | Rpc |
| Redis (`app/atp_dao.*`) | connection, transaction | every `redis_*` function | RedisDao |
| HTTP client, thread storage (`app/atp_curl_engine.*`, `app/atp_thread_storage.hpp`) | the thread's handle, instances | new, set, perform, `on_message`, destroy, thread exit | CurlEngine |
| HTTPS client (`app/atp_event_https.*`) | `s1_`, sessions | `launchRequest`, `requestFinished` | HttpsClient |
| Base64, RSACrypto (`app/`) | none; results, open files | encode, decode; key paths, encrypt, decrypt | Base64, RsaCrypto |
| any (`app/atp_any.hpp`) | holders on the heap | construct, assign, swap, clear, cast | Any, implements AnyValue |

Threads meet in five places: the queue of a loop (EventLoop), the pool that starts
and stops loops (EventLoopPool), the connection table and the wheel of a server
(TcpServer, TimingWheel), a connection used by another thread (Connection), and
timers cancelled from elsewhere (CycleTimer). Each module keeps one of them in
full detail and takes from the others what their modules establish: TcpServer, for
example, treats a loop as a FIFO queue that is drained before a stop takes effect,
which is what EventLoop shows, and Connection treats `write_buffer_` as the byte queue
that ByteBuffer implements.

What makes the code hard to test is the same everywhere: accesses of shared state
that are not in one critical section (`notified_`, `state_`, the retiring worker),
a thread identity that is stale for a while, a wake-up that may be skipped
because someone else is believed to have sent it, tear-down racing with use, and,
in the helpers, the state a call leaves behind for the next one. `PROJECT.json` lists
these hazards line by line, with the properties that would catch each one
going wrong.

## 2. Modules

### EventLoop

Models `net/atp_event_loop.cpp` with the eventfd watcher's notify and read.

* *State.* The C++ members under their own names; `eventfd` (the descriptor is
  readable) and `loopexit` (an active loopexit callback) stand for libevent's
  side. `pc`, `arg`, `ret` and `stack` are the control state of each thread; a
  `stack` element is the `tmp_pending_tasks` of one activation of `doPendingTasks`,
  which nests because `stopHandle` calls it from inside a batch. `pushed`,
  `executed`, `discarded` and `owed` are history.
* *Steps.* One action per access of shared state: the comparison of thread ids,
  the push under the mutex, the increment and the load of `notified_`, its store,
  the write to the descriptor; the swap of the queue under the mutex, each task,
  the unlocked test for an empty queue in `stopHandle`, `event_base_loopexit`, the
  unlocked clear, the final store. The increment and the load are one action
  because the increment is read by nothing that follows in the program. The two
  overloads of `sendToQueue` are the same sequence of accesses.
* *libevent* is external, modelled from its use: with nothing active the base
  blocks; a ready descriptor wakes it; an activated loopexit callback does not
  wake a base without locks that has already blocked; the callbacks of one pass
  may come before or after the one of the eventfd.
* *Callers.* Any thread may call `sendToQueue` and `stop` at an application point;
  for the loop's own thread these are before `dispatch` and in handlers of other
  events. Calls made from inside a queued task are not modelled.
* *Constants.* `Creator` is the thread that ran the constructor. For
  `EventLoopThread` it is the owner of the pool, not the dispatching thread.

### EventLoopPool

Models `net/atp_event_loop_thread_pool.cpp`: an owner that starts, stops, joins and
destroys the pool, its threads, and callers of `getIOEventLoop`. Each loop is
reduced to what module EventLoop establishes: a queued stop makes it leave
`dispatch`; a stop that finds the creator's thread id runs on the owner, and a loop
that has blocked in the meantime may miss it. The history `early` records that the
owner stopped within that window. The widths of `int` and `size_t` are constants, so
that the overflow of `current_index_` and the conversion of a negative index happen
within a few calls. A pool of zero threads does not start (`autoStart` returns false
at once), so `N` is at least 1.

### DynamicThreadPool

Models `net/atp_dynamic_thread_pool.cpp`. Everything but the tasks runs under
`lock_`, so an action is one critical section; `cond_var_.wait` ends one and begins
another, and a wait may end without a notification. A notified waiter stays counted
in `waiting_threads_` until it runs again, which is what makes `add`'s decision
delicate. A worker that retires first leaves `executerImpl` and is counted out in a
later section. `add` is called by the application until it destroys the pool, and by
running tasks at any time. `max_threads_` is a constant of the model (128 in the code).

### Connection

One connection with its Channel, the queue of its loop, the other threads that use
it and the table entry that keeps it alive. The operations of Channel
(`enableEvents`, `disableEvents`, `close`, attach and detach) are functions of the record
`ch`; `send`, `close` and the handlers are actions that use them. `eventHandle` is
two steps, since the read callback may send, close or drop the last reference before
the write part runs. The kernel takes any number of bytes or fails, retriably or
not, and `event_add` may fail. `inline` says that the server has no IO threads, so that
the table entry goes away inside the callback that closes. A use of a freed or closed
channel is recorded in `ch.crash` and ends the behaviour.

### TcpServer and TimingWheel

TcpServer has the thread that runs `start` (and, in mode 0, dispatches the control loop),
the control loop, the IO loops and the clients. A task is run inline or queued as
`threadSafety` decides, including the window before a loop is dispatched. `mode` and `num`
(the number of IO loops, zero included) are chosen in Init. `stop` is two steps, the listener
and then the pool. The destructor is two steps as well: `conns_table_` goes first, then the
IO threads are joined, which meanwhile attach what was queued to them. `holding` are the
connections of which the application keeps a pointer; an open one that loses its last owner
fails the assertion of `~Channel`. `touched` records which threads changed the unlocked
table, `aborted` the assertion that failed.

TimingWheel has the ring, the entries with their references, the timer that pushes a
bucket and the inserts of the connections' threads. Tick and insert are two steps each, so
that two threads inside the wheel can be seen; `locked` is mode 0, `single` is a server
without IO threads. The message handler follows `examples/atp_tcp_benchmark.cpp`, which
keeps a weak reference to the entry.

### EventWatcher, LoopWatcher, CycleTimer

EventWatcher is a record with the functions of the class. LoopWatcher takes the eventfd or
the pipe watcher through the life of a loop, the destructor included, which frees
`event_base_` before the member. CycleTimer has the timer's references (`self_`, the
member, the user's pointer), the loop, and a user on another thread whose `cancel` tests
`timer_watcher_` in one step and copies it in the next.

### ByteBuffer and ByteQueue

The array is modelled byte by byte, with both indices, the compaction and the
reallocation. ByteQueue is the abstract specification: a sequence of bytes to which
calls append in front or at the end and from which they remove at the front, and two
losses the code really has: a receive may be cut at a zero byte of its overflow area
(`Cut`), and a `decrease` beyond the writable space may change anything (`Excess`). The
refinement maps the bytes between the indices to the queue.

### MemoryPool, Any, Base64, RsaCrypto

MemoryPool has heap blocks with sizes, pools, chunks and the helper's lists and
counters; the policy's allocation may fail, and `pool_alloc` that grows is two steps
because it runs outside the mutex. Any has holders on a heap and is shown to implement
variables that simply hold values (AnyValue). Base64 encodes by a function and decodes
step by step. RsaCrypto has the key size, open files and results of an object. Its texts are
sequences of bytes, so that a zero byte cuts a C string and a full buffer does not end one;
a key may be longer than the fixed buffers, and a key file may go away at any time.

### Rpc, RedisDao, Socket, CurlEngine, HttpsClient

Each has the library's state and an environment that may fail: a stream that cuts and
joins messages (Rpc), a server and a connection that may break before or after the
server acted (RedisDao), a table of descriptors shared with the rest of the process
(Socket, with SendHelper as one of its clients; a `connect` that waits in `select` is a step
of its own, between which the handshake ends), libcurl delivering a response in
pieces (CurlEngine), libevent and OpenSSL (HttpsClient, one step between each two
points where another thread may run). How the application uses them is chosen in
Init (`framed`, `client`, `callers`) or recorded as history (`overlap`).

### MC modules and proof modules

`MCEventLoop` and `MCDynamicThreadPool` add symmetry sets. `MCServer`, `MCData` and `MCClients`
check several components in one run. The components of such a module share no
variable; `part` is chosen in Init, and a behaviour is one of the chosen component
with the others at rest. The state graph is the disjoint union of theirs, so every
property is checked on every behaviour of its component, and fairness is stated for the
actions of the chosen one. Such a module extends its components, so that every property is
defined in its component's module, and the run checks the definition that a theorem states.
For this the components' specifications, tuples of variables and other common names have
names of their own: `ServerInit`, `ServerNext` and `ServerSpec` over `srv`, and likewise `Wheel`
(`whl`), `Watcher` (`wat`), `Timer` (`tmr`), `Pools` (`mem`), `Any` (`dyn`), `Base64` (`b64`), `Rsa`
(`rsa`), `Redis` (`red`), `Rpc` (`rpc`), `Socket` (`soc`), `Curl` (`crl`) and `Https` (`web`).

The theorems of section 5 are in modules that extend their components':

| module | components |
|---|---|
| `EventLoopProofs` | EventLoop: calls, wake-ups and affinity first, then what becomes of the tasks |
| `SchedulingProofs` | TimingWheel, CycleTimer, LoopWatcher, DynamicThreadPool |
| `ServerProofs` | TcpServer, EventLoopPool |
| `ConnectionProofs` | Connection |
| `ByteBufferProofs` | ByteBuffer |
| `DataProofs` | Any, RsaCrypto, Base64, RedisDao |
| `MemoryPoolProofs` | MemoryPool |
| `ClientProofs` | HttpsClient, CurlEngine, Socket, Rpc |

For each component the inductive invariant comes first; one lemma per action or group of
actions shows that a step preserves it, and the theorems come last.

Operators whose names have a suffix after an underscore (`Swap_Copies`, `Add_NoNotify`)
are mutations: plausible mistakes in the code, each used to see that a property
notices it. No specification uses them.

## 3. Runs

A property that is a conjunction is followed by its conjuncts, which the components' modules
define and comment one by one.

| run | instance | properties | result |
|---|---|---|---|
| `el_queue` | loop and 2 threads, 2 tasks, up to 1 stop, fair | NoLostWakeup; QueueIsFaithful (FifoOrder, QuiescentSize); Delivered; StopExits | hold |
| `el_stop` | loop and 2 threads, 2 tasks, up to 2 stops | DrainedBeforeExit; Affinity; ExactlyOnce | hold |
| `el_creator_stop` | another thread is the creator, fair | StopExits | violated |
| `dtp` | core 1, max 2, 4 workers, 3 tasks, fair | NoStrandedTask; CountersAgree; WithinLimits; DestroyedClean; TasksRun; DestroyReturns | hold |
| `dtp_core0` | core 0, max 1, fair | TasksRun | violated |
| `pool_stopped` | 2 threads | StopMeansStopped | violated |
| `conn` | 3 bytes in sends of up to 2, 2 calls of close, with and without IO threads, fair | StreamIsTrue (DisorderNeedsCause, CompleteIsTrue); WritableIffPending; ClosedUse (AliveWhileAttached, WriteAsserts, CrashNeedsClose); ClosedIsRemoved | hold |
| `conn_order` | the same | InOrder | violated |
| `srv_early_accept` | 2 connections, up to 2 IO loops | AcceptedWhileRunning | violated |
| `server`: pool | 3 threads, 3-bit index | PoolIndex (TypeOK, RoundRobin); PoolStops (StopSucceeds, NoThreadLeft, TerminatesUnstopped); LoopsAnswer (JoinReturns) | hold |
| `server`: server | both modes, 0 to 2 IO loops, 2 connections | TableIsKept (TableIsAccurate, TableHasOneThread); ServerAborts (EarlyNeedsMode1, DestroyNeedsStop, DestroyNeedsClosed); ConnectionsSettle (AcceptedIsAttached, ClosedLeavesTable, DestructorReturns) | hold |
| `server`: wheel | 2 slots, 2 connections, 2 messages each | ExpiresOnTime; WheelFaults (RaceNeedsMode1, EmptyNeedsFirst); WheelCloses (HeldIsNotClosed, IdleIsClosed) | hold |
| `server`: watcher | eventfd and pipe, a pipe of 3 bytes, 8 notifications | WatcherIsSound (HandledOnce, AttachedIsAdded, ClosesItsOwn, FreedUseAfterDispatch); LoopsAnswer (Woken) | hold |
| `server`: timer | one-shot and persistent, 3 triggers, 3 calls of cancel | TimerFaults (FireOrCancel, FaultsNeedMisuse); CancelWorks (CancelIsFinal, CancelTakesEffect, Released) | hold |
| `data`: buffer | header 1, capacity up to 6, words of 1 and 2 bytes, bytes 0 and 255 | BufferIsQueue (the refinement of ByteQueue, DamageNeedsOverlap, OverrunNeedsHeader, TypeOK, GrowAsserts, EmptyIsReset) | hold |
| `data`: pool | two size classes, 2 blocks, cache limit 13, pieces of 1 and 3 bytes | PoolsAreSound (GivenIsSound, PoolFits, CacheIsBounded, UsedSizeIsExact, InvalidFreeNeedsGrowth) | hold |
| `data`: any | 3 variables, 3 values of 2 types | AnyIsValue (the refinement of AnyValue, OneOwner, CastIsChecked) | hold |
| `data`: base64 | messages of up to 4 bytes, texts of up to 3 characters | RoundTrip (DecodesBack, StaysInside); Returns (DecoderReturns) | hold |
| `data`: rsa | keys of 5 to 7 bytes, buffers of 5 and 7, texts with and without zero bytes, 2 pieces, 2 descriptors, 3 calls | RsaIsSound (EveryPiece, ResultIsAppended, OverrunNeedsLongKey, OnlyEncryptLeaks, CrashNeedsExhaustion) | hold |
| `clients`: redis | 2 values, a list of 2, transactions of 1 command | RedisIsTrue (SuccessIsTrue, FailureIsTrue, ExecIsNotEmpty, ReadsAreExact, CorruptByHdel) | hold |
| `clients`: rpc | 4 requests, 2 services of one name | RpcAnswers (Answered, FirstRegistrationWins, AnswerMatches, CalledIsKnown, FaultNeedsLate) | hold |
| `clients`: socket | descriptors 0 to 2, 3 options, 1 call of `setfd` | SocketIsOwn (ForeignHits, OwnDescriptor, ConnectedUnlessUnmarked, ReadsBack) | hold |
| `clients`: curl | 2 threads, 2 instances, responses of 1 and 3 pieces, a buffer of 2 | ResponseIsOwn (OwnResponse, OverflowNeedsLarge, FaultNeedsMisuse) | hold |
| `clients`: https | 2 threads, 3 calls | SessionIsOwn (ResultIsOwn, OnlyUriLeaks, CrashNeedsOverlap) | hold |

Deadlock is not checked: a loop that has exited, a destroyed pool, a closed connection and
an application that makes no further call are legitimate ends.

*Bounds.* `el_*`: two tasks and two senders are enough for a sender to skip the write
because another is about to do it, for a second batch to form while the first
runs, and for a task to be pushed between any two accesses of another thread; two stops
make `stopHandle` nest. `dtp`: four workers under a limit of two let threads retire and be
replaced; three tasks exceed the limit. In the pool the index passes both places
where its value as `size_t` jumps. `conn`: a send of two bytes can be written in part, be
left waiting with another behind it, and be closed at any point. Two connections on
two IO loops close on different threads; two slots let an entry be in the bucket that
is dropped, in the last one, or in both. A buffer of six bytes compacts, reallocates
and receives past its end. Two size classes, one size between them and one above are
below, at and over each limit of the cache, and its limit of 13 holds two pools of the
smaller class only. Pieces of one and three bytes, rounded to the alignment of two, share a
chunk, and an increment of three makes a pool grow that is then cached, used again or freed.
A key is shorter than, as long as, and longer than the buffer of five bytes. Four bytes reach every length modulo three with and without a full group
before it, and the chosen bytes all four kinds of alphabet characters. Three calls let
a session be left behind by one, replaced by a second and used by a third.

*Fairness.* `el_*`: threads inside the library keep running and the base keeps polling
(weak fairness per thread); the application never has to call anything and no other
descriptor ever has to become ready. `dtp`: each worker keeps running, which
presupposes that tasks return and that the mutex is not starved for ever; spurious
wake-ups are possible, never guaranteed. `conn`, `server`: the loops run what is queued
or ready, and a stop or a destructor that was begun goes on; clients, peers and the application owe nothing. The wheel's timer keeps
ticking; an insert or a queued close that is possible again and again is eventually
done (strong fairness: a mutex or a loop thread that alternates with the timer does not
pass over a waiter for ever). `clients`: the RPC client sends and the loop reads.
Base64's decoder is a sequential program that keeps running.

## 4. Disagreements between the code and its comments

Five are runs that TLC finds violated:

* **The creator's window** (`el_creator_stop`). Until `dispatch` stores the thread id,
  `threadSafety()` is true on the thread that constructed the loop. If that thread has
  passed the test when the loop thread starts polling, it runs the task (or
  `stopHandle`) itself, against "Each event_base executes in a single thread"; and a
  stop executed there does not wake the loop, the case the comment in `stopHandle` wants
  to exclude. `EventLoopThread` constructs its loop on the pool owner's thread, and
  `autoStart` waits only for a state stored before `dispatch`.
* **autoStop does not wait** (`pool_stopped`). `EventLoopThread::stop` stores STATE_STOPPED
  right after queueing the stop, so the test autoStop repeats is true the first
  time. Joining is what waits for the threads, and it does (NoThreadLeft, JoinReturns).
* **A pool without resident workers** (`dtp_core0`). With `core_threads_` 0, a worker that has
  decided to retire is still counted; if the limit is reached, `add` leaves the new task
  to it and nobody runs the task.
* **The order of the bytes** (`conn_order`). After an EAGAIN, `send` keeps the bytes from
  `data + nwrite` with `nwrite` -1; and a `send` of another thread refers to arguments that may
  be gone. DisorderNeedsCause shows that nothing else disturbs the order.
* **Accepting before RUNNING** (`srv_early_accept`). On a loop that is already dispatched a
  connection can arrive between the attach of the listener and the store of
  STATE_RUNNING, and fails the assertion in `handleNewConnection`. EarlyNeedsMode1 shows
  that this is the only way.

The others are part of the models, and a property says exactly when they happen:

* `readv` appends its overflow area as a C string, so bytes from a zero byte on are lost
  (`Cut` in ByteQueue; Implements shows that nothing else is lost), and `decrease` moves
  overlapping bytes without the indices (DamageNeedsOverlap), past the end of the array when a
  prepended header is unread (OverrunNeedsHeader).
* A retriable read error closes the connection like the end of the stream.
* A connection that has been closed can still be used: by a `send` with bytes left over, by
  `eventHandle` after its read callback, by a queued `send` (CrashNeedsClose).
* `Server::stop` closes no connection, and `~Channel` asserts that its event is gone. The destructor
  returns only with every accepted connection closed, or attached and held by the application
  (DestroyNeedsClosed); a connection that an IO loop attaches after `conns_table_` is gone may
  fail the assertion too. A `stop` that overlaps `start` is hidden by the RUNNING that `start` then
  stores, and the assertion of `~Server` fails (DestroyNeedsStop).
* A pool of loops that is destroyed without `autoStop` terminates the program
  (TerminatesUnstopped).
* The wheel is used without its lock in mode 1, also with IO threads (RaceNeedsMode1), and has
  no bucket before the first tick (EmptyNeedsFirst). Its timeout, "ms" in `net/atp_config.h`,
  is in seconds.
* `~EventLoop` frees `event_base_` before the watcher that refers to it
  (FreedUseAfterDispatch). A timer that cancels itself in its callback with no other
  reference left is used after it is gone, and a late `cancel` of another thread may run on a
  watcher that was reset meanwhile (FaultsNeedMisuse).
* Memory pools release a wrong address once they have grown (InvalidFreeNeedsGrowth) and
  `used_size_` is changed without the mutex (UsedSizeIsExact).
* `redis_hdel` passes the context to `freeReplyObject` (CorruptByHdel); `redis_expire` and
  `redis_hset` report failure on success, and so does every call whose reply is lost after the server
  acted (FailureIsTrue).
* `create(false)` never returns 0, so that `SendHelper::sendMessage` never sends, and closes
  the uninitialised descriptor (ForeignHits). `connect` does not ask for SO_ERROR when the error
  set is empty, and takes a refused connection for an established one (ConnectedUnlessUnmarked).
* RPC messages have no frame (AnswerMatches holds for whole messages only), and a service that
  answers late uses a deleted channel (FaultNeedsLate).
* The decoder of Base64 does not return for a character outside the alphabet (Returns). RSA
  encryption leaves files open and nothing tests whether a key file was opened (OnlyEncryptLeaks,
  CrashNeedsExhaustion); a decrypted text is cut at a zero byte (ResultIsAppended), and the
  pieces of a key longer than 2048 bits overrun fixed buffers (OverrunNeedsLongKey). The response
  buffer of the curl engine has no limit check (OverflowNeedsLarge). The HTTPS client keeps
  the parsed URIs and is not usable by two calls at once (OnlyUriLeaks,
  CrashNeedsOverlap).

## 5. Theorems

For every value of the constants that satisfies the named assumptions: arbitrary sets of
threads, workers, connections and tasks, any number of stops, messages and loops, any sizes.
"Invariant" below is the inductive one, the strengthening that each step preserves.

**EventLoop** (from `ConstantsAssumption`: distinct names, a creator among the threads).

* `TypeCorrect`: the type invariant together with `CallInv`, which says what the argument
  and the stack of a thread look like at each label (only a batch being run may be
  empty, the outer ones hold the stop they are running). Neither is inductive alone:
  the steps of a batch need a non-empty stack.
* `NoLostWakeupHolds`, for any creator. The strengthening `WakeInv` has two halves. If the
  queue is not empty, the descriptor is readable or some thread is between its push and
  its write or about to swap. If `notified_` is set, the descriptor is readable or some
  thread is about to write or to swap. The second half is what a sender that skips
  the write relies on; it survives the swap because `notified_` is reset in the
  critical section that empties the queue.
* `AffinityHolds`, assuming `Creator = Loop`: tasks run on the loop's thread only.
  The assumption is necessary, as `el_creator_stop` shows.
* `ExactlyOnceHolds`, for any creator, so also when two threads drain the queue at once. The
  invariant `OnceInv` gives every task one place: at its sender, queued, in a batch at some depth
  of some thread, run, or dropped, and one occurrence there. `HeadInv` says that a
  suspended batch begins with the stop that suspended it: without it, taking that item off
  the batch could lose a task.
* `DrainedHolds`, assuming `Creator = Loop`: what `stopHandle` owes when it has seen the queue
  empty is in the loop thread's batches or has run (`OnceInv`), and `dispatch` returns only with
  no batch left (`CallInv`, `AffinityInv`).
* `QueueHolds`, assuming `Creator = Loop`: FIFO order and the settling of the counter. As long
  as no stop has begun (`Calm`), what was pushed is what has run, then the batch, then the
  queue (`LineInv`), and `pending_tasks_size_` is the length of batch and queue minus the number of
  senders between their push and their increment (`SizeInv`; the senders are listed in a
  sequence, so that no fact about cardinalities is needed).

**EventLoopPool** (from `PoolAssumption` and `WidthAssumption`: at least one thread and no more
than `int` counts, positive widths, `int` no wider than `size_t`).

* `PoolIndexHolds`. The invariant `Window` says that the last picks are the indices computed
  from the last values of the counter; the counter, read as `size_t`, moves by one except at
  its two jumps, and a window of N numbers meets at most one of them.
* `PoolStopsHolds`. `Started` says that `autoStart` leaves no thread that has yet to store RUNNING;
  from there `Stopped` carries the STOPPED of each thread through `autoStop`, `autoJoin` and
  the destructor. A pool that was never stopped has no thread that was told to (`Calm`), which is when
  the destructor terminates the program. This holds although a thread may miss the stop itself: the
  destructor then waits, which is a question of liveness (JoinReturns in LoopsAnswer).

**DynamicThreadPool** (from `PoolAssumption`: finitely many workers, a positive limit).

* `CountersCorrect`: the counters equal the numbers of waiting and of live threads. Each
  action moves one worker, except the destructor's `notify_all`, which moves workers
  within both counted sets.
* `LimitsHold`: the idle and total limits.
* `NoTaskStranded` and `DestroyIsClean`, assuming `CoreThreads >= 1`. The invariant is `TaskInv`:
  while the pool is not shut down some worker has not decided to leave (one retires
  only when `waiting_threads_` is at least `core_threads_`, hence positive, and by
  `CountersCorrect` some other worker is really waiting); a queued task has a worker on
  its way; every added task is queued, running or done; the destructor has finished
  only with all threads joined. `dtp_core0` shows that the assumption is necessary.

**TcpServer** (no assumption).

* `TableIsKeptHolds`. A live connection stays in the table because the queues of all loops together
  hold at most one attach of a connection, and only while it is new (`AttachInv`), so that no attach
  reopens what a close has just queued for removal; and because only closed connections have a
  removal queued (`RemoveInv`).
* `ServerAbortsHolds`. `PhaseInv` ties the server's state to how far `start`, `stop` and the destructor are,
  which limits the assertion of `handleNewConnection` to the window of mode 1 and that of `~Server` to
  a stop that is missing or overlapped `start`. That the destructor returns with nothing left to be
  attached is `QueueInv`: every new connection has its attach in the queue of its loop, nothing
  is queued behind a stop, and a stopped loop has an empty queue. `HeldInv` says that after the table
  is gone only the application owns open connections. A failed assertion ends the run half-way
  through an action, so these hold while `aborted` is "no".

**TimingWheel** (from `SlotsAssumption`: at least one slot).

* `ExpiresOnTimeHolds` and `WheelFaultsHolds`. In `AgeInv` the age of an entry, counted in ticks, is the
  distance of the last bucket that holds it from the end of the ring, and an entry
  exists while a bucket or a handler has it. The lemma `PushAges` shows that a push ages every entry
  by one and drops exactly those whose age becomes `Slots`. `MutexInv` keeps the timer and
  the handlers apart under the lock or on a single thread.
* `HeldIsNotClosedHolds`, an action property: no step closes a connection whose entry a
  handler holds. It follows from `AgeInv`, since such an entry is alive.

**CycleTimer** (no assumption).

* `TimerFaultsHolds`. The invariant `TimerInv` distinguishes two phases: until the closure of `start`
  has run nothing has happened (`Unstarted`); from then on `timer_watcher_`, `self_` and
  `expires_fn_` are set and cleared together and the event is pending only while the timer waits
  for it (`HeldInv`), a queued cancel finds no watcher only if the timer is done (`QueueInv`), and
  a callback that was called is not called again (`CountInv`). `HeldInv` is what makes the test of
  `timer_watcher_` in `cancel` protect the uses of `self_` behind it.
* `CancelIsFinalHolds`, an action property: no step calls the callback after a cancel has run,
  since a cancelled timer has no event (`HeldInv`).

**LoopWatcher** (from `CapacityAssumption`: the capacity of the pipe is a number).

* `WatcherIsSoundHolds`. `LifeInv` says for each stage of the loop's life which of the watcher's fields
  are set: while the loop lives the members hold exactly the descriptors that are open, so
  that the destructor closes these and no others. `TallyInv` says that the bytes in the pipe
  are the accepted writes that were not handled, for the eventfd that they are merged.

**Connection** (from `BoundAssumption`: the largest send is a number).

* `WritableHolds` and `ClosedUseHolds`. The invariant `UseInv` adds to them that a channel has its callbacks
  exactly as long as its event, that only a closed connection leaves the table, and that
  until the queued attach has run nobody else has the connection. The write part of an
  event needs all of them, because anything may have happened in the read callback.
* `StreamIsTrueHolds`. `StreamInv`: the bytes on the wire and in `write_buffer_` are as many as were
  sent, and unless the stream was spoilt each is in its place. The step that matters
  is a send that the kernel takes in part: its rest goes behind an empty buffer, which is
  what `WritableIffPending` gives.

**ByteBuffer** (from `BufferAssumption`: a header of at least one byte, sizes and bytes are
numbers).

* `BufferImplements`: the array with its two indices implements the queue of bytes, for every
  header, initial size, length of an append or a receive, and width of an integer. The
  invariant `BufferInv` has the indices in order inside the array, a capacity of at least the header,
  and an empty buffer reset. The lemmas say what a copy leaves where (`PlaceFacts`), that
  `grow` keeps the content and makes room (`GrowFacts`), what a receive that
  overflows into the second area appends (`ReceiveFacts`), and, step by step, that each call is the
  step of ByteQueue with its bytes.
* `BufferIsQueueHolds`: the same with GrowAsserts, EmptyIsReset, DamageNeedsOverlap and
  OverrunNeedsHeader.

**Any** (from `HeapIsLarge`: a cell is left when every variable has a holder).

* `AnyIsValueHolds`: the variables implement AnyValue, every holder has one owner, casts are
  checked. The invariant `Owned` says that two variables never have the same holder and
  that each holder on the heap has a variable. The value of each variable is a function of
  that; a step replaces, empties or exchanges holders (`ReplaceKeeps`, `SwapKeeps`), and
  is the step of AnyValue of the same name (`PutStep` to `CopyStep`).

**RsaCrypto** (from `KeysAreLong`: a key of at least four bytes; `BuffersAssumption`: the buffer of the
short form is the larger one; `TextsAreBytes`).

* `RsaIsSoundHolds`. `PiecesAreCounted` is arithmetic: the base64 form of n pieces is at least n
  times the key's size and at most two bytes longer, too little for another piece. A key
  shorter than four bytes would be counted wrong. `TextSurvives` says what becomes of a text in a
  buffer, from the first zero byte in it (`FirstZero`).

**Base64** (from `OctetsAssumption`: octets are numbers below 256).

* `RoundTripHolds`: the decoder gives back every message, of any length. It reads a stream of
  characters and its state is the index, the carry and the result. The invariant `Copied` says
  that after the group g and r characters of the next one the result is the first 3g + (r - 1)
  bytes of the message, and the carry is the bits of the last character that belong to the
  next byte (`Turned`). The encoder is a function of the position, so that no induction is
  needed: `Digits` says what four characters a group of three bytes gives, `BytesBack` that
  their bits make the bytes again, `EndIsWhole` that the padding or the end stops the decoder behind
  the last byte.

**RedisDao** (no assumption).

* `RedisIsTrueHolds`. `RedisInv` adds to the property that the hash is one, on the server and in a
  transaction. What each function makes of each reply is a table (`OnNull`, `OnQueued`,
  `OnAnswer`, `OnStatus`), and `LostIsTrue` is the case of a reply that never came. `FlatIsListed` shows that the
  server's alternating fields and values list each field once, in whatever order, and
  `HashBack` that `redis_hgetall_2` makes of them the hash they came from.

**MemoryPool** (from `MemoryAssumption`: an ascending table whose first size holds the headers, and a
positive alignment that divides the sizes of the headers).

* `SearchFinds`: `atp_binary_search` finds the first class that is large enough. `SpanInv` is the
  invariant of its loop.
* `PoolsAreSoundHolds`. In `MemInv` the chunks of the pools lie in blocks of their own and every piece
  handed out lies in the used part of its chunk, apart from the others (`HeapInv`); every pool is in
  use or cached once, and the counters are sums over them (`CacheInv`); until a pool that grew is
  released every block belongs to a chunk (`CoverInv`), and `used_size_` is exact until it is raced
  for (`SizeInv`).

What the recursive functions of these two theorems compute (the sum over the blocks, the search) is
shown by a least argument at which they would fail, since the induction theorems of the library cannot be
instantiated.

**HttpsClient** (from `CallsAssumption`: the number of calls is a number).

* `SessionIsOwnHolds`. As long as no two calls overlapped (`Alone`), one user at most is inside
  (`OneCall`), the session `s1_` points to is theirs, and what the session and the result hold at
  each step of the call is known (`Progress`). Sessions of earlier calls are dead.

**CurlEngine** (from `CurlAssumption`: distinct names, sizes are numbers).

* `ResponseIsOwnHolds`. As long as nothing went wrong, the handle of a live instance exists unless its
  thread has exited (`HandlesExist`), and if no thread has two instances it writes to that
  instance (`HandleDelivers`). With one instance for each thread the instance in use then holds as many pieces of its own response as were delivered
  (`Receiving`, `SoleReceived`).

**Socket** (from `MaxFdAssumption`: a largest descriptor).

* `SocketIsOwnHolds`. `FdIsMine` says that the descriptor the object owns is the one `fd_` names, unless
  `setfd` replaced it, and that `fd_` names no other than that, 0 and those given to `setfd`; `Waiting` says
  that the handshake has begun while `connect` is in `select`; `HelperHolds` says that the send helper has what
  it was given or nothing that is open. The rest of the process opens and closes what is not the
  object's. `LowestIsFree` shows that the kernel's choice of a descriptor is defined.

**Rpc** (from `RpcAssumption`: requests have different ids).

* `RpcAnswersAreRight` and `FirstRegistrationWinsHolds`: the safety conjuncts of RpcAnswers. `RpcQueue` says that
  a fragment on its way is of a request that was sent, that a request has one head, and, as long as
  the reads are whole messages, that the id of a head on its way was not seen before;
  `LateIsLater` that a closure a service keeps is for a request that was sent.

Only model-checked:

* what needs fairness, outside the prover's reach: Delivered, StopExits, TasksRun, DestroyReturns,
  LoopsAnswer, ClosedIsRemoved, ConnectionsSettle, IdleIsClosed (in WheelCloses),
  CancelTakesEffect and Released (in CancelWorks), Answered (in RpcAnswers), Returns;
* the runs that TLC finds violated.

## 6. Abstractions

* Each access of the task vector is atomic, also the unlocked ones in `stopHandle`. The
  models show what their order allows, not what a torn vector would do.
* Thread creation, `new` (except in the memory pool), and writes to the eventfd succeed.
* Memory is sequentially consistent; the atomics involved use the default ordering.
  `thread_id_` and `state_` of EventLoop are plain members read across threads;
  a read returns the old or the new value.
* Tasks are opaque and terminate. Calls of `sendToQueue` and `stop` from inside a queued task
  are not modelled.
* Integers put into the byte buffer are their bytes in network order, scaled to one and two
  bytes. `event_del` succeeds.
* Payloads are small numbers: the text of Redis commands, URIs, headers and log lines is left
  out, and of the six socket options the run uses three: O_NONBLOCK, one that stays on, and one
  that passes through to `setsockopt`.
* Base64's test for an empty source, the pool's name and a failed allocation in
  `curl_instance_new` are left out; they change nothing.
* Of the options a curl handle keeps from request to request, the URL and the instance it writes
  to are modelled; the headers and the post data of an earlier request are not.
* A receive never fills the second area of `readv`: its size is far above the model's `MaxRead`.
* Two threads inside the wheel are reported as the race they are (WheelFaults); what the
  wheel holds after one is that of the accesses in some order.

## 7. Not modelled

* The libevent adapter and the configuration header (`net/atp_libevent.*`, `net/atp_config.h`): flags,
  constants, error tests; libevent itself is an environment of the models.
* Generated protocol code (`rpc.pb.cc`, `echo_server.pb.cc`), which is most of the lines not covered.
* `setSendRecvBufferSize` and `getSendRecvBufferSize` of the socket, which nothing calls, and the wheel's entries in
  `~Server`.
* Uuid and Codec, which call libuuid and jsoncpp and keep no state; the plain-pointer
  functions of the thread storage, which nothing uses; `app/atp_redis_client.h` (declarations
  without definitions), `app/atp_aes_crypto.hpp` and `app/atp_transform_pem.hpp` (empty), and
  StaticThreadPool (declared only).
