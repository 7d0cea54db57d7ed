# TLA+ models of uvco

uvco is a C++20 library of coroutines on top of libuv: functions that return
`Promise<T>` run eagerly, suspend in `co_await`, and are resumed from one event
loop. This directory holds models of its parts, the TLC configurations that
check them, and proofs that TLAPS checks. `PROJECT.json` records, definition by
definition, which source lines a model stands for, which hazards of the code the
properties are for, and a plausible bug for every property that the property
catches.

Paths below are relative to `src/uvco/`.

## The system

Everything runs on the thread of one loop, except the requests that libuv's
thread pool performs. A program is a tree of coroutine frames: a frame owns the
promises in its locals and parameters, a promise owns the frame of the coroutine
that will fulfil it, and dropping a promise cancels that coroutine and everything
below it.

| Component | State | Operations | Interacts through |
|---|---|---|---|
| Promise, Coroutine (`promise/promise*.h/.cc`) | `state_`, `waitingHandle_`, `slot`, the frame | call, `co_await`, return, throw, drop | `Loop::enqueue`, `Loop::cancel`, symmetric transfer |
| Scheduler (`loop/scheduler.cc`) | the deque `resumable_` | enqueue, cancel in place, `getNext`, `runAll` | called by everything that wakes a coroutine |
| Loop, `runMain` (`loop/loop.cc`, `run.h`) | `stopped_`, libuv's stop flag | turns of `run()` | libuv callbacks, scheduler |
| MultiPromise, Generator (`promise/multipromise.h`) | as Promise, and `suspended_`, `terminated_` | `co_yield`, `next`, cancel | run queue, both ways |
| SelectSet (`promise/select.h`) | one handle registered with several cores | await, drop | waiting handles of promises |
| Combinators (`combinators.cc`) | list of waiters, map of tasks | yield, WaitPoint, TaskSet, race | run queue |
| BoundedQueue (`bounded_queue.h`) | vector, `head_`, `tail_`, `size_` | put, get, forEach | used by Channel, Udp, FsWatch |
| Channel (`channel.h`) | buffer, two queues of waiters | put, get, getAll, drop of a waiting call | run queue |
| Files, directories (`fs.cc`) | request, awaiter | open, read, write, unlink, mkdir, rmdir, readdir, close | thread pool, callback, data pointer |
| FsWatch (`fs.cc`) | event queue | watch, stopWatch, close | handle callback, generator |
| Name resolution (`name_resolution.cc`) | request, awaiter | gai | thread pool, callback |
| Async work (`async_work.cc`) | request, function | submitWork | worker thread runs user code |
| TCP and Unix clients (`tcp.cc`, `uds.cc`) | request, socket | connect | callback, close |
| Streams (`stream.cc`) | socket, `reader_`, `writer_` | read, write, shutdown, close | callbacks, direct resumption in close |
| Stream servers (`stream_server_base_impl.cc`) | accepted connections | listen, close | callback, generator |
| UDP (`udp.cc`) | packet queue | send, receiveOne, receiveMany, close | callback, generator |
| Timers (`timer.cc`) | timer, handle | sleep, tick | callback, generator |
| curl integration (`integrations/curl`) | polls, timer, chunks | download | libcurl and libuv callbacks |
| pqxx integration (`integrations/pqxx`) | connection per thread | withConnection | submitWork |

What is hard about it:

- **Cancellation.** A promise may be dropped at any suspension point of the
  coroutine behind it: before libuv has looked at its request, while a worker
  performs it, after the callback has enqueued the coroutine, while it waits for
  another coroutine. Each leaves a pointer or a handle somewhere that must be
  cleared: in the run queue, in a waiting handle, in a queue of waiters, in a
  request's data pointer.
- **Wake-ups.** A coroutine must be woken exactly once for what it waits for, by
  whoever finishes it, in whatever order registering, finishing and dropping
  happen.
- **Order of execution.** Coroutines run eagerly in the middle of their callers;
  a coroutine that suspends hands control to the next ready one, on the caller's
  native stack.
- **The loop's flags.** `stopped_` mirrors libuv's stop flag without reading it.
  If they get out of step the loop sleeps with work to do.

What makes each part correct: a resumed coroutine is alive, suspended, and finds
its result; nobody waits for what has already happened; no frame or request is
destroyed while somebody else holds on to it; the loop polls only when idle and
ends only when done; ring buffer and channel lose and duplicate nothing; a
request is freed exactly once, a socket closed exactly once.

## Modules

| Module | Models | Composes |
|---|---|---|
| `Scheduler` | operations on the run queue, shared by all others | |
| `Runtime` | promises, coroutines, loop, `runMain`, `yield()` | `Scheduler` |
| `BoundedQueue` | the ring buffer | implements `Fifo` |
| `Fifo` | abstract: a bounded first-in first-out queue with its errors | |
| `Channel` | channels and the wake-ups of their readers and writers | `Scheduler`, the queue that `Fifo` describes |
| `Request` | one-shot requests to libuv: files, directories, lookups, thread-pool functions, connects, and `closeHandle` | |
| `Turns` | how `runAll()` and `uv_run()` alternate, as seen by one component | `Scheduler` |
| `Generator` | MultiPromise and Generator | `Turns`; implements `Fifo` with one place |
| `Component` | the frame that the following modules share | `Turns` |
| `Select` | SelectSet, `waitAny`, `race`, `raceIgnore` | `Component` |
| `TaskSet` | TaskSet and its WaitPoint | `Component` |
| `Stream` | read, write, shutdown and close of StreamBase | `Component` |
| `Udp` | UDP sockets | `Component` |
| `StreamServer` | the listening sockets of TcpServer and UnixStreamServer | `Component` |
| `FsWatch` | file watchers | `Component` |
| `Timer` | `sleep()` and Ticker | `Component` |
| `Curl` | downloads through libcurl | `Component` |
| `Components` | a behaviour of any one of the eight components above | `Select` to `Curl` |
| `BoundedQueueProofs`, `RuntimeProofs`, `ChannelProofs`, `RequestProofs`, `GeneratorProofs` | theorems about the module of that name | |
| `SchedulerProofs` | lemmas about queues of handles | |
| `ComponentProofs` | theorems about `Select`, `TaskSet`, `Timer`, `FsWatch` | `SchedulerProofs` |
| `SocketProofs` | theorems about `Stream`, `StreamServer`, `Udp`, `Curl` and `Components` | `ComponentProofs` |
| `MC*` | instances for TLC | |

### Runtime

A frame and its `PromiseCore` are one object in the code, so a model coroutine
has both: where the frame is in its life, the core's `state_`, `waitingHandle_`
and `slot`, who holds its promise. The programs are arbitrary: the coroutine on
top of the native stack may call a new one (moving promises into its parameters
or lending them), await a promise it has, yield, wait for I/O, drop a promise,
return or throw. Results are reduced to *value*, *exception* and *none*.

`co_await` appears as three actions: `AwaitReady` (no suspension), `AwaitHandOff`
(suspension, and `getNext()` finds somebody to run in the same place on the
native stack) and `AwaitReturn` (nobody ready, or hand-off switched off).
Dropping a promise (`Drop`, and the locals of a coroutine in `Return`) destroys
the set of frames below it, which `IsForest` characterises without recursion as
the least set closed under ownership. In the Promise code only an unfinished
coroutine cancels its wake-up; that is `Cancelled`.

The loop: `Turn` (reset `stopped_`, enter `uv_run`), `UvSkip` (the stop flag is
set, or nothing is alive), `UvPoll`, `Callback`, `UvReturn`, `RunNext`,
`RunAllEnds`, `RunEnds`, `RunMainReturns`. libuv's own steps are external and
modelled from how `Loop::run` uses `UV_RUN_ONCE`.

Two constants say what programs do. `BorrowedAwait`: a coroutine awaits a promise
it was only given a reference to. `DropOnStack`: a promise is dropped whose
coroutine is in the middle of a call. The code supports neither of them safely,
see the contracts below; the results are about programs without them. What a
suspended coroutine waits for is a promise, `yield()` or something of libuv's:
waits in a channel or at a wait point are outside `Runtime`. They do not keep the
loop alive, so `runMain()` may return while a coroutine waits for them ("Caveat 2"
of `channel.h`).

### BoundedQueue and Fifo

`queue` is the vector, moved-from husks included. `ret` is what the last call
returned or threw, so that `ImplementsFifo` compares outcomes as well as
contents. The refinement maps the occupied slots, read from `tail_` on, to the
abstract queue.

### Channel

The buffer is reduced to the number of items in it: that it is first-in first-out
is `BoundedQueue`'s business. Waiting readers and writers, null entries left by
dropped calls and the run queue are modelled as they are. Calls overtake each other
freely: nothing keeps a running coroutine from calling the channel while woken
ones are on their way, and a call may be dropped while it waits or after it was
woken. One round of `getAll` is a `get`. `put` and `get` wait once and then
assert, as the code does; a call that fails its assertion ends in *failed*. The
history variables `lostGets` and `lostPuts` count woken calls that were dropped
before they ran, each of which takes a wake-up with it.

### Request

Three parties share a request: the coroutine with the awaiter that owns it, a
worker thread, and the loop's callback, with the data pointer leading from the
request to the awaiter. Destructors of awaiters of thread-pool requests take two
steps, `DropReset` and `DropCancel`, because a worker may look at the data
pointer in between; nothing else of the loop's thread happens between them
(`LoopFree`). Connection attempts also have a socket, which ends in a stream or
is closed. A TCP connect to a host name is a lookup followed by a connect.

### Turns and Component

`Runtime` models coroutines in general. The classes built on them need less of it:
that the loop alternates between `uv_run()`, where callbacks enqueue coroutines
without running them, and `runAll()`, where coroutines run, one segment up to the
next suspension at a time, and where any other code of the program may call the
component in between. `Turns` says this and no more: the run queue, and which of
the two is going on. What it leaves out, `Runtime` has shown: a queued coroutine is
resumed once, and the order of the queue is kept.

The modules from `Select` to `Curl` model one class each. Its object, its
coroutines and what libuv knows of it are a record `s`, whose field `is` names the
class, and every step is a segment of a coroutine or a callback. Segments that the
code runs from several places (by the scheduler, or by `close()` resuming a
coroutine itself) are operators on the record, named after the functions they
model. The record lets one run check all classes: a behaviour of `Components` is a
behaviour of one of them.

Peers, the network and libuv decide when callbacks come, and the loop polls whenever
the run queue is empty: no guard says otherwise. Where the code then uses memory
that is gone or throws through libuv, the field `fault` says so and the model of
that class ends there: nothing can be said of what comes after, and the properties
speak of states without a fault. There are four of these: the listener's iterator
into an `accepted_` that has moved, a listener dropped after the handle of the
closed server was freed, a receiver that uses the handle of a closed socket, and an
error for which a watcher's buffer has no space.

Coroutines are where the code can tell them apart: *waiting* (suspended and known
to an awaiter), *woken* (enqueued by a callback), *yielded* (at a `co_yield`),
*asked* (enqueued because the consumer awaits the next value), and at an end:
*done*, *failed*, *threw*, *gone* (dropped).

- `Generator`: slot, `state_`, `waitingHandle_`, `suspended_` and `terminated_` of
  the core are variables. The body of the generator yields, awaits something
  else, returns or throws; readers read, suspend, are resumed and dropped; the
  owner cancels the generator or assigns over it.
- `Select`: the state of each promise's core, who waits for it, who owns it.
  `Finish` may happen several times before the selector runs.
- `TaskSet`: the map `tasks_`, the list `doneTasks_`, the waiters of `onEmpty()`.
  `add()` takes two steps (`AddCallsWrap`, `AddEnters`), because the wrapper's
  `co_await` hands the turn to other coroutines before its promise is entered; the
  `add()`s that are under way are a stack, `adding`, and the loop turns only when
  it is empty. A task may have finished before it is added (`AddFinishedTask`).
  `early` remembers that a wrapper ended before it was entered.
- `Stream`: the three pointers between stream, awaiter and coroutine, the requests
  libuv owns, and failures of `uv_read_start`, `uv_write` and `uv_shutdown`.
- `Udp`: one receiver (single packet or generator) and senders; the buffer, the
  handle's data, whether the handle receives. `missed` remembers that a packet
  came for nobody. `close()` throws when the receiver's buffer is full.
- `StreamServer`: `accepted_` with the position of the loop over it, its capacity
  and whether it has moved, errors among the connections, several listeners in
  turn.
- `FsWatch`: the buffer of events, the unread value of the generator, `stopWatch()`
  as another reader of it.
- `Timer`: the timers with their closing, the Ticker's awaiter that outlives
  generators, the count.
- `Curl`: polls, the timer, libcurl's transfers and messages, chunks. libcurl is
  external: it opens, reuses and gives up sockets, delivers data and ends
  transfers, in any way, inside the calls that the code makes; sockets fail at any
  moment. One socket serves one transfer at a time.

### Contracts

What a program does, it can be asked not to do. Where a component is correct only
for programs that keep to what its comments and tests suggest, that is a guard in
the model, and it can be lifted: `Relaxed` is a set of words, each of which allows
one thing more. With it TLC finds the property named here violated, if there is one
(where the runs check a conjunction, the part of it that fails is named). These are
known limits of the code, recorded as hazards in `PROJECT.json`.

| Module | Lifted by | What happens then | Property violated |
|---|---|---|---|
| `Runtime` | `BorrowedAwait = TRUE` | a coroutine dropped while it awaits a promise it has by reference is enqueued later | `ReadyIsSuspended` |
| `Runtime` | `DropOnStack = TRUE` | a frame is destroyed while it executes | `NoDestroyOnStack`, a run of its own |
| `Generator` | `DropRegistered = TRUE` | a dropped `next()` stays registered | `AwaitAllowed` |
| `Select` | `"all stale"` | a select among fetched promises never ends | none: that selects end is not checked |
| `TaskSet` | `"drop early"` | a dropped `onEmpty()` stays registered | `TaskSetHandlesWait` |
| `Stream` | `"drop early"` | a call finished by `close()` stays in the run queue after its frame | `OnlySuspendedAreQueued` |
| `Udp` | `"drop send"` | libuv keeps a request in a frame that is gone | none: what libuv finds there is not modelled |
| `FsWatch` | `"close early"` | a generator outlives the handle it waits for | `WatchServed` |
| `Timer` | `"sleep 0"` | `sleep(0)` fails its own assertion | `SleepVerifies` |
| `Timer` | `"drop ticking"` | the next tick enqueues a dropped generator | `TimerServesWaiting` |

What depends on peers, on libuv or on a schedule that a program cannot observe is
no contract. Those limits of the code are in the models, and where a comment, a
header or an assertion of the code denies them a run shows them:

| Module | What happens | Where it shows |
|---|---|---|
| `Channel` | another call takes what a woken one was woken for | run `channel_overtaken` |
| `Channel` | a woken call that is dropped takes its wake-up with it | `NobodyStranded` counts them |
| `TaskSet` | a wrapper that ends before `add()` enters it is never erased, or releases `onEmpty()` early | `TasksAccountedFor` excepts sets with `early` |
| `Udp` | a packet that comes while another is looked at ends `receiveMany()` | run `udp_continues` |
| `Udp` | with a send under way it leaves `receiveMany()` waiting without receiving | `ReceiverServed` excepts sockets with `missed` |
| `Udp` | `close()` throws and closes nothing, or `receiveMany()` asks a closed socket | `UdpClose`; fault |
| `Udp` | a receive after a dropped `receiveOne()` is refused | `StartReceive`, *refused* |
| `StreamServer` | `close()` does not stop a listener that is enqueued | run `server_close` |
| `StreamServer` | connections behind an error are closed unseen | run `server_remaining` |
| `StreamServer` | `accepted_` moves under the iterator; the data of a freed handle is reset | faults |
| `FsWatch` | an error with a full buffer throws through libuv | fault |
| `Curl` | a transfer that ends in the timer's callback, fails before it is awaited, or whose socket's error meets a busy downloader, is waited for | `EndsReachDownloaders` says for which ones |

Two more limits have no switch. A coroutine that keeps yielding starves the poll,
because `runAll()` goes on until the deque is empty (`combinators.h:25` promises
the next iteration of the loop). And a file operation or lookup dropped between
its callback and its resumption takes itself for pending and leaks its request,
because the data pointer is reset only in `await_resume()`.

## Runs

| Run | Question | Result |
|---|---|---|
| `bounded_queue` | does the ring stay in bounds and implement `Fifo`? | yes; capacity 3, two items |
| `runtime` | are wake-ups exact, is nothing dangling, does the loop poll and exit when it should, does every ready coroutine get its turn? | yes; main and two more coroutines, one of them returning `Promise<void>` |
| `runtime_drop_on_stack` | can a frame be destroyed while it executes? | yes, see below |
| `channel` | is every registered handle that of exactly one waiting call, and is nobody left waiting for what is there? | yes; three readers, three writers that overtake each other and are dropped |
| `channel_overtaken` | does a woken call find what it was woken for? | no, see below |
| `request` | do awaiter, worker and callback agree on the request and on the socket, wherever a drop falls? | yes; two requests of any kind |
| `work_race` | is what a worker uses alive while it is used? | no, see below |
| `generator` | is every value read once and in order, and does every read end? | yes; two readers, three values, two other awaits |
| `components` | in each component, are wake-ups exact, do callbacks find living awaiters, are contents kept in order and whole? | yes, under the contracts and up to a fault |
| `server_remaining` | are connections kept when accepting another one failed? | no, see below |
| `server_close` | is a listener stopped when `close()` returns? | no, see below |
| `udp_continues` | does `receiveMany()` go on while the socket is open? | no, see below |

What `components` checks, by component (all of it at every interleaving of calls,
callbacks, drops and `close()`):

- All: what is in the run queue may be resumed, once (`OnlySuspendedAreQueued`, a
  conjunct per component).
- `Select`: `SelectHandlesSound`, a select that is over or dropped is never resumed
  (`NoStaleWakeup`) and no promise believes it is still awaited
  (`WaitedOnHasWaiter`).
- `TaskSet`: tasks are kept while they run; unless a wrapper ended before it was
  entered they are erased afterwards, and nobody waits for an empty set
  (`TasksAccountedFor`).
- `Stream`: `StreamPointersAgree`, whoever is suspended is served
  (`SuspendedIsServed`), no callback finds a stale awaiter
  (`StreamCallbackFindsAwaiter`), `close()` resumes only what exists
  (`CloseResumesLiving`).
- `Udp`: a waiting receiver is known to the open socket, which receives unless a
  packet was missed, and a woken one finds a packet (`ReceiverServed`).
- `StreamServer`: a listener waits only if nothing has been accepted
  (`ListenerServed`), and the handle's data leads to a living awaiter.
- `StreamServer`, `FsWatch`: what arrives is yielded once and in order
  (`ConnectionsInOrder`, `EventsInOrder`).
- `FsWatch`: `WatchServed`, a watcher waits only if there is nothing to read, and a
  woken one finds an event.
- `Timer`: `TimersServe`, a timer's callback finds its coroutine
  (`TimerServesWaiting`), and no timer is left behind (`NoTimerLeft`).
- `Curl`: `TransfersReachRequests`, a downloader that waits for a transfer that has
  ended does so only because libcurl keeps the message or the transfer had failed
  before (`EndsReachDownloaders`), and events go to the right request
  (`PollsKnowTheirRequest`); `BodiesAreWhole`, bodies are complete
  (`BodyIsComplete`) and failures are thrown (`FailuresThrow`).

### What the failing runs show

- `runtime_drop_on_stack`: main and *a*, whose promise main holds, are both in
  the run queue. *a* is resumed and calls *b*; *b* awaits something unfinished,
  and its `await_suspend` hands control to main, inside *a*'s call. Main ends and
  drops *a*'s promise: *a*'s frame is destroyed, and when main suspends control
  returns into it.
- `work_race`: a request that a worker has taken cannot be cancelled; the drop
  destroys the function object, or the buffer, the worker is using. A disabled
  test (`test/fs_test.cc:84`) concedes it for files.
- `channel_overtaken`: a reader waits, an item is put and wakes it; before it runs
  another coroutine gets the item. The woken call's `BOOST_VERIFY` fails.
- `server_remaining`: an error and a connection arrive in one `uv_run()`. `listen()`
  meets the error first and throws; the awaiter, and with it the connection
  behind the error, is a local of the generator and is destroyed. The comment at
  `stream_server_base_impl.cc:172` says that a new `listen()` will process the
  remaining connections.
- `server_close`: the listener has yielded a connection and was asked for the next
  one, so it is in the run queue and its awaiter has no handle. `close()` only sets
  `stopped_`, which is read after a wait: the listener goes on yielding, or waits on
  a closed server for good. The comment at `stream_server_base_impl.cc:65` says that
  it is stopped by the time the function returns.
- `udp_continues`: the consumer of `receiveMany()` awaits something else while it
  looks at a packet. Another packet finds no awaiter in the handle's data, receiving
  stops, and the generator ends when it is asked again. `udp.h:70` says that it
  continues indefinitely.

### Bounds, and why they are enough

- `bounded_queue`: with capacity 3 the vector grows, is drained while growing,
  wraps several times and is read across the wrap; capacity and items are
  arbitrary in the theorems.
- `runtime`: three frames, each started once: a caller on the stack, a coroutine
  that suspends in it and one that is handed control. The run checks liveness and
  uses no symmetry. `runtime_drop_on_stack` has four, interchangeable but for main.
  The theorems are for any set of frames.
- `channel*`: three readers and three writers on waiter queues of two, so that
  one call of each kind is refused; `MaxRunQueue` bounds the run queue, which
  null entries could otherwise lengthen without end.
- `request*`: requests do not interact except through the loop's thread, so two
  of them show every interleaving of one with another's destructor.
- `generator`: three values and two other awaits let the generator suspend at a
  `co_yield`, in an await and at its end with a reader in every state; two readers,
  as one may be dropped and another go on.
- `components`: every class may be used at least twice in turn (two reads, writes,
  receivers, listeners, generators, downloads), so that what one leaves behind
  meets the next. Buffers hold two items and more arrive (`MaxEvents`,
  `MaxConnections`: four), so they fill up; `Count` is two; three promises and
  three tasks, so that several finish at once while one does not, and so that
  `add()`s nest. `Reserved` is two where the code reserves four, so that four
  connections outgrow it. `MaxChunks` and two sockets let libcurl reuse a socket
  while another transfer goes on. The model values are not symmetric sets: with the
  eight classes in one specification the run is small enough without (3.2 million
  states). The other runs of `Components` differ in the property, and in having one
  write.

### Fairness

- `Runtime!FairSpec`: a running coroutine goes on until it suspends or ends
  (weak fairness of `CoroStep`), and the loop's own code does not stop
  (`LoopStep`). Nothing is assumed of libuv: an operation may never complete.
- `Request!FairSpec`: workers finish what they took, callbacks are delivered,
  ready coroutines run, and a destructor that was begun ends.
- `Generator!FairSpec`: the loop turns, queued coroutines run, and what the body
  awaits happens in one of the calls of `uv_run()` (strong fairness, because the
  phase comes and goes). Nothing makes the program read.
- `Components` states no fairness and nothing is claimed of it that must happen:
  reads, packets, connections and downloads depend on peers, and so do writes,
  which a peer that does not read holds up for good.

## Proofs

All proofs are checked by TLAPS 1.4.5 with Z3, Zenon and LS4. Every invariant and
every safety property that a passing run checks is a theorem for any value of the
constants, as are the two refinements of `Fifo`. Where the bounds of a run appear
in a theorem they are arbitrary (`MaxEvents`, `MaxChunks` and the like are any
natural numbers, sets of calls may be infinite).

| Module | Theorems | Hypothesis |
|---|---|---|
| `BoundedQueueProofs` | `RingInvariant`, `BoundsSafety`, `RingImplementsFifo` | |
| `RuntimeProofs` | `TypeCorrect`, `PollSafety` | |
| `RuntimeProofs` | `WakeInvariant`, `ResumeSafety`, `WakeupSafety`, `RunMainEnds` | `Disciplined` |
| `ChannelProofs` | `ChannelTypes`, `ChannelHandles`, `ChannelStrandsNobody` | |
| `RequestProofs` | `RequestTypes`, `CallbacksFindAwaiters`, `RequestsOutliveLibuv`, `SocketsClosedOnce` | |
| `GeneratorProofs` | `GeneratorTypes`, `GeneratorQueueSound`, `GeneratorServesReads`, `EndIsTheEnd`, `GeneratorImplementsFifo` | `~DropRegistered` |
| `ComponentProofs` | `SelectSound` | |
| `ComponentProofs` | `TimersSound`, `TimerQueuesSuspended` | `TimerUse` |
| `ComponentProofs` | `TaskSetAccounts`, `TaskSetQueuesWaiting` | `TaskSetUse` |
| `ComponentProofs` | `WatchesServe`, `WatchDeliversInOrder`, `WatchQueuesSuspended` | `WatchUse` |
| `SocketProofs` | `StreamAgrees`, `StreamQueuesLiving` | `StreamUse` |
| `SocketProofs` | `ServerListens`, `ServerQueuesSuspended`, `ServerDeliversInOrder` | |
| `SocketProofs` | `UdpServes`, `UdpQueuesSuspended` | `UdpUse` |
| `SocketProofs` | `CurlReachesRequests`, `CurlYieldsBodies`, `CurlQueuesSuspended` | |
| `SocketProofs` | `ComponentsQueueSuspended`, `ComponentsDeliverInOrder` | `ComponentsUse`, all of the above |

The hypotheses are the contracts of the first table above and nothing else:
`TimerUse`, for example, says that neither word of `Timer` is in `Relaxed`. A single
theorem may need fewer words than its hypothesis has.

The assumptions on constants are named in the modules: names of different sets of
coroutines are different and none is `Null`; `Main` is a coroutine; `Capacity` is a
natural number (0 included) and `MovedFrom` not an item; the buffers of watchers
and of UDP sockets hold at least one; counts and bounds are natural numbers; the
switches are Booleans.

### The arguments

- `BoundedQueueProofs`. `RingInv` relates `head_` to `tail_ + size_` in both
  regimes of the vector. The provers do not reason about `%`, so the ring is first
  restated without it (`Linear`, with lemmas `ModRing` and `LinearRing`), the steps
  are proved in that form, and the refinement has one lemma per operation.
- `RuntimeProofs`, polling. `LoopInv` says phase by phase what `stopped_` and the
  stop flag imply for the run queue. `stopped_` may be stale during `runAll()`;
  that this is harmless, because `runAll()` leaves nothing behind, is the point of
  the proof. It holds whatever programs borrow and drop.
- `RuntimeProofs`, wake-ups. That a resumed coroutine is alive and has a result
  cannot be proved alone: it depends on who may destroy whom. `WakeInv` therefore
  relates all of it: the stack lists the executing frames (`StackInv`), cores
  follow their frames (`CoreInv`), live frames are held by live frames
  (`ForestInv`), the run queue and libuv hold suspended frames once (`QueueInv`), a
  suspended coroutine awaits a live promise *that it owns* and is either
  registered with it or in the run queue with its result in place (`AwaitInv`),
  and waiting handles point back (`WaiterInv`). Ownership is the crux: as the
  awaited promise is the awaiter's own, whatever destroys the waiter destroys the
  awaited frame, too. With `BorrowedAwait` this fails, and so does the theorem.
- `RuntimeProofs`, the end of `runMain`. That nobody is left waiting when the run
  queue and libuv are empty needs that ownership has no cycle and no endless chain.
  Without induction over data this is stated for sets: among any live coroutines
  one is held by none of them, and one holds none of them (`TreeInv`). It is
  inductive: a call adds a leaf below the caller and moves some of its promises
  below the leaf, everything else only removes frames. When the loop ends, a
  leaf among the suspended coroutines would await an unfinished promise that it
  holds, which would be a suspended coroutine below the leaf (`NobodyWaits`). So
  main is at its final suspension, and has its result, because nobody awaits main
  (`MainInv`). When main's promise goes, a frame that stayed would, at the top of
  those that stayed, be held by one that stayed: none does.
- `SchedulerProofs` states what enqueueing, popping, cancelling and appending do to
  the set of handles in a queue and to its being without duplicates, for any set of
  handles. A queue is never reasoned about position by position elsewhere.
- `ChannelProofs`. `HandleInv` says that the three queues together hold exactly
  the waiting calls, each once; overtaking and dropping do not disturb it. For
  `NobodyStranded` the woken readers are counted against the items, and the woken
  writers against the free places: while a reader waits, a put raises the number of
  items and that of woken readers, a get that overtakes lowers only the first, a
  woken one that runs lowers both, or fails when there is nothing, and a drop moves
  one from the woken to the lost (`Claims`, lemma `StillClaimed`).
- `RequestProofs`. `Protocol` lists, for each kind of request, the combinations of
  coroutine, request, data pointer, libuv's view and socket that can occur. Every
  step changes one request (`OthersKept`), so that each action is looked at for
  one.
- `GeneratorProofs`. `GenInv`: at most one reader awaits; it is registered with the
  core, or in the run queue with a value or the end to find (`ReaderInv`); the run
  queue (`QueueInv`); and what the place of the generator says of its core
  (`BodyInv`). The slot is the abstract queue of one place.
- `ComponentProofs`, `SocketProofs`. Each class has an invariant that says what the
  object's pointers say of the coroutines, and the reverse, and a part about the
  run queue: `SelectInv`, `TimerInv`, `TaskSetInv`, `WatchInv`, `StreamInv`,
  `ServerInv` (with `ArrivalInv` for the order of connections), `UdpInv`,
  `CurlInv`. The pieces that the code runs from several places are operators on the
  record, and each has a lemma of its own that the actions share. In `Curl` the
  steps change the request's core first and read libcurl's messages afterwards, in
  an order libcurl chooses: the invariant is stated for a record (`CurlOk`), holds
  of the record in between, and lemmas show that `checkCurlInfo()` and the
  resumption keep it. For classes that can fault the induction shows the invariant
  or the fault, after which nothing happens.
- `Components`. The field `is` never changes, so a behaviour is one of a single
  component, for which the others' properties hold trivially (lemma `ComponentsAreApart`).

TLC has checked the inductive invariants on the runs' instances before they were
proved.

### Only model-checked

- Liveness under fairness: `ReadyRuns`, `ReadEnds` and `RequestsSettle`. It needs
  `ENABLED` and well-founded orders, which are beyond this prover.
- The six runs with a counterexample, and the violations in the table of
  contracts.

## Not modelled

- Values, addresses, error texts, logging, durations.
- `Loop::~Loop`, which closes the scheduler, turns the loop once more, runs what is
  queued and prints the handles that are still open.
- The life of the objects that own handles. A `StreamBase`, for example, may be
  destroyed while a write whose place in `writer_` a second one took is suspended,
  and the awaiter of that write uses `stream_` when it is resumed or dropped
  (`stream.cc:288`, `:307`).
- Setting up of sockets, terminals, watchers and curl handles, and their options:
  calls that neither suspend nor share state with a callback. `Udp::bind` and
  `Udp::connect` await a lookup, which is in `Request`, and close on failure.
- `waitAll()`, which awaits promises one after the other.
- Whether a descriptor opened for a dropped `File::open` is closed (it is not):
  results of requests are not part of `Request`.
- One promise awaited by two coroutines, which the code asserts away, and generators
  cancelled under a reader, which it does not: `cancelGenerator()`
  (`promise/multipromise.h:89`) leaves the reader suspended.
- Several transfers over one connection (HTTP/2): `polls_` keeps one request per
  socket (`curl.cc:127`), so an error would be reported to the last of them only.
- Whether selects, `onEmpty()`, writes and downloads end.
- Connections that arrive while nobody listens, beyond their being ignored: what
  libuv does with them is not under `src/`.
- pqxx adds no concurrency of its own to submitWork. The example HTTP server is a
  client of the library; helpers for errors and buffers keep no state.

## Plan

Modelling is complete as far as the above goes, and every safety property of a
passing run is proved. What could be added, in this order:

1. Liveness of the components up to what peers decide: that `onEmpty()` and selects
   end if tasks and promises do, and no wrapper ends before it is entered.
2. The safety half of liveness as invariants of their own: whoever is suspended is
   in a place that some other step will look at, for `Generator`, `Request` and
   the components as `WakeInv` has it for `Runtime`.
3. `Channel` with the items themselves, as an implementation of `Fifo`.
