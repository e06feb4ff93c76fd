# DeftRPC in TLA+

DeftRPC is a C++ network library: stackful coroutines scheduled by an epoll
loop per thread, hooked system calls that yield instead of blocking, timers, a
TCP server and client on top, and the containers these need. This directory
holds specifications of its parts, translated from `src/src/`, model-checked
with TLC and, in part, proved with TLAPS. `PROJECT.json` gives, for every
definition, the lines it stands for.

## The system

| Part | State | Operations | Used by |
|---|---|---|---|
| Lock-free task queue, `common/LockFreeQueue.h` | `m_head_`, `m_tail_`, `m_size_`, linked nodes | `EnQueue`, `Dequeue`, `Size`, `Empty`, destructor | Scheduler |
| Scheduler event loop, `coroutine/Scheduler.{h,cpp}` | `m_state_`, `m_stop_`, `m_extra_tasks_`, eventfd, coroutine stack | `Start`, `Stop`, `AddDefer`, `AddTask`, `SwapIn`, `Yield`, timers | everything |
| `MultiThreadScheduler`, `SchedulerThread` | worker threads, `m_scheduler_`, mutex and condition variable | `Start`, `Stop`, `GetNextScheduler` | TcpSever |
| Timer queue, `common/timer` | `m_timers_`, `m_active_timers_`, `m_cancel_timer_`, timerfd | `AddTimer`, `CancelTimer`, `HandleExpireEvent` | Scheduler, hooked `sleep` |
| Poller, `coroutine/Poller` | `m_runnable_context_` by descriptor, epoll set | `RegisterRead/Write`, `CancelRegister`, `EpollWait` | Scheduler, Hook |
| Coroutine, contexts, shared stack, `coroutine/Coroutine*` | saved registers, owner of the shared stack, state | `SwapIn`, `SwapOut`, `Reset` | Scheduler |
| Hooked system calls, `hook/Hook.cpp` | `enable_hook`, real functions | `read`, `write`, `accept4`, `connect`, `sleep`, `close`, ... | net |
| `TcpSever`, `TcpConnection`, `TcpClient`, `net/` | acceptor, connections by descriptor, buffers | `Start`, `Stop`, accept loop, `Close`, `ProcessMag`, `Receive` | the application |
| Ring buffer and codec, `common/RingBuffer.cpp`, `codeC/Codec.h` | begin, end, bytes | `Read`, `Write`, `FetchDataFromFd`, `FlushDataToFd`, length-prefixed frames | TcpConnection, TcpClient |
| `EVBuffer` | chained segments | as above | nobody in `src/src` |
| `HashTable`, `SkipList`, `dataStruct/` | two tables and a rehash index; levels | `Insert`, `Delete`, `Find`, incremental rehash | the application |
| `SpanMutex`, `ReentrantMutex` | shared mapping, owner and depth | `Lock`, `UnLock`, `TryLock` | log, application |
| Serializer | table of shared pointers already written | encode and decode | the application |
| Log, Crc32, Addr, Socket | | formatting, checksum, thin wrappers | everything |

How they meet: another thread reaches a loop only by queueing a task
(`AddDefer`, `AddTask`) or by `Stop`, and wakes it through the eventfd. Inside
the loop's thread, `EpollWait` returns callbacks (`Task`s or coroutines to
resume); a hooked call that would block registers its descriptor, yields, and is
resumed from such a callback. Connections run as coroutines, are closed by tasks
they defer, and are torn down in the loop. `TcpSever` distributes accepted
descriptors over the workers with `AddDefer`.

What is hard, part by part, and what would make it right:

* **Queue.** Many producers and the draining loop on one list without locks, and
  `Dequeue` deletes nodes without any reclamation scheme. *No deleted node is
  touched, the queue is a FIFO, `Size()` never overstates, every call ends.*
* **Event loop.** Whether to notify is decided by reading `m_state_` with no
  lock, against a loop that looks at its queue one last time before it sleeps.
  *No task and no `Stop` is slept on; `Start` returns after a `Stop`.*
* **Workers and acceptor.** `Start` waits for the worker to publish its
  scheduler; `Stop` races with the worker's own `Start`, and resumes the acceptor
  a last time. *Stop ends every worker and then Start; the acceptor is not resumed
  after its end, everyone is served.*
* **Timers.** Cancelling from inside a timer's task, re-arming while the clock
  moves. *Armed for the earliest, none forgotten, the cancelled ones gone.*
* **Poller and hooks.** Pointers into a vector that callbacks may reallocate; a
  descriptor must not be registered twice. *One waiter per descriptor, every
  ready waiter resumed once.*
* **Connections.** A local `Close` against the end of the peer's stream, both
  deferred. *Each connection is cleaned once and its coroutine not resumed after
  it ended.*
* **Ring buffer and codec.** Wrap-around with begin = end both when empty and when
  full, growth, messages cut anywhere. *Every message arrives, whole, in order and
  once.*
* **Containers.** Operations while a rehash is under way; level bookkeeping.
  *They implement a map and an ordered set.*
* **Contexts.** One stack shared by several coroutines, saved by whoever owns
  it. *A coroutine finds its stack as it left it.*
* **Mutexes.** *One owner at a time; everyone gets it eventually.*

## Modules

```
TaskQueue          abstract FIFO with a lagging counter
  ^       ^
  |       +-- Scheduler --- SchedulerProofs     (INSTANCE: its queue is TaskQueue)
  +---------- LockFreeQueue --- MCLockFreeQueue (refinement, PROPERTY)
                   +--- LockFreeQueueProofs
TimerQueue --- TimerQueueProofs
Poller --- Connections --- ConnectionsProofs    (EXTENDS: variables and operators)
TcpSever --- TcpSeverProofs
RingBuffer --- MessageStream --+
HashTable ---------------------+-- Containers   (one specification over the three)
SkipList ----------------------+       |
                                       +--- MessageStreamProofs
                                       +--- HashTableProofs --- SkipListProofs
```

**TaskQueue** is what the scheduler expects of its queue: `Put` links an element,
`Count` makes it visible to `Size()` some time later, `Take` is a `Dequeue` by a
consumer that saw `Size() > 0`, and `PutCounted` an `EnQueue` by the consumer's
own thread. `LockFreeQueue` is shown to implement it, and `Scheduler` is built
from its actions, so that the two models fit together at this interface.

**LockFreeQueue** makes every access of `EnQueue` and `Dequeue` to a shared word
an action of its own (`pc`, `cpc` are the positions; `node`, `curTail`,
`curNext`, `curHead`, `succ`, `seenTail` the locals). Memory is explicit: `alloc`
is the set of allocated addresses, `new` returns any free one and `delete` leaves
the contents behind, so an address may come back while somebody still holds it.
`chain` and `taken` are history variables: the nodes that are linked, and what
was handed out. `discipline`, chosen by `Init` among the constant `Disciplines`
and never changed, is who may call what: that of the unit test (producers joined
before the first `Dequeue`, which may find the queue empty) or that of the
scheduler (`Dequeue` only while `Size() > 0`, while others enqueue).

**Scheduler** models `Start` as the loop's position `loop`, `AddDefer` by other
threads as `pc`, `Stop` by other threads as `spc`, and the stores to `m_state_`
and `m_stop_` through `Store`, which writes memory at once or, with
`StoreBuffers = TRUE`, into the thread's store buffer. The bodies of callbacks
and tasks may do what they do to their own scheduler: nothing, defer a task, or
`Stop`. `StopTask` are tasks whose body is `Stop()`, as `TcpSever::Stop` defers.

**TimerQueue** models the three operations of the timer queue, the timerfd, the
clock, and the loop, which may look at a readable timerfd late. Deadlines are
kept as the time left, so the clock needs no bound. `running` is the timer whose
task is being called; while it is, timers may be added and cancelled.

**Poller** holds which coroutine waits for which descriptor (`onRead`,
`onWrite`), and what registering, cancelling and `EpollWait` do to it. `EpollWait` is
the set of the sequences of callbacks it may hand out: descriptors in any order, and
for each the callback for writing directly before the one for reading.

**Connections** puts it together with the loop and the connections of one worker
of a `TcpSever`. `sock` is the process's descriptor table, so a number that was
closed may be given to the next connection; a coroutine that looks at its
descriptor later finds what is there by then. `loop`, `batch` and `deferred` are
where `Scheduler::Start` is, and `cur` is the coroutine it has switched to. `at`
is the place of each connection's coroutine in `ProcessMag` and in the hooked
`readv` and `writev`: one action goes from one look at the socket to the next, so
that the peer and the acceptor's thread may act between two of them. The task of
`TcpConnection::Close` is split where it resumes the coroutine (`LocalClose`, the
coroutine's own steps, `LocalClosed`); `closing` says that it waits. `MagCallback`
may ask for `Close` whenever it is called, so that several tasks may be queued for
one connection, together with the one of the end of the stream. An exception
nobody catches, such as a second registration, ends the worker and is remembered
in `raised`, where "crash" says that a coroutine was resumed behind its end or
that a destroyed connection was used: there the model stops. `asked`, `closedTwice`
and `reused` are history: who was asked to close, for whom there was a second task
to close it, and whether a number was given away under a running `Close` task.
Requests are frames of two pieces, so that a frame may arrive in
parts. That a deferred task is run at all is not shown again here: it is
`EveryTaskRuns` of `Scheduler`.

**TcpSever** is the other side of a server: `main` is where the thread that runs
it is, from `TcpSever::Start` through the start of the workers, its loop, `Stop`
and the clean-up; `pc` is where each `SchedulerThread` is, `published` whether
its `m_scheduler_` is set, `asleep` whether its owner sleeps on the condition
variable. A wait tests its predicate and falls asleep in one step, since both
happen under `m_mutex_`, and every notification leads to another test. `acceptor`
is the coroutine of `AcceptTask` inside the hooked `accept4`, before its first
attempt ("try") or in the `Yield` before its second ("retry"). A circumstance
that ends the process (a throw out of a `noexcept` function, a null pointer, a
division by zero, a coroutine resumed after its end) is remembered in `fate`, and
nothing happens any more; `mishaps` remembers circumstances that properties
exempt by name. A worker's loop is a queue that is drained and a flag looked at
once per round: that this is so is what `Scheduler` shows.

**RingBuffer** gives every operation of the class as an operator on a record of
cells, capacity, begin, end and size. What `std::copy` or `readv` would write
past the array is dropped from the cells, and `Overruns` says when it happens.
**MessageStream** puts the codec over two such buffers with a socket between
them: `Send` is `SendAll` or the answering half of `ProcessMag`, `FetchSome` a
`readv` that takes any part of what has arrived, and exactly one `Decode` follows
each. Cells are numbered records, so that one which is lost, repeated or moved
shows. `SendInThree` is the hooked `writev` whose inner `write` is interrupted a
second time and starts over. **HashTable** has both tables as functions from
buckets to sequences of keys, and a key stands for its hash; every operation
begins with `ToLookUp` or `ToDelete`, the rehash of one bucket and the decision to
start another. The iterator is a pair of operators on positions. The loops of `ReHash`
and `GetUpdateVec` are recursive functions (`MoveBucket`, `Along`), which the prover can
reason about. **SkipList** keeps
links and spans per level. `Delete` lowers `m_level_` by one too many, so that a
level falls out with its links in place; `accident` says when something depends
on it. **Containers** is these three under one specification: they share no
state, and `exercised` picks the one a behaviour is about.

Definitions under the heading "Broken variants" belong to no next-state
relation. Each is the definition it is named after with a plausible mistake, and
the property named with it in `PROJECT.json` fails when it takes that place.

## Runs

| Run | Instance | What it shows |
|---|---|---|
| `queue` | 3 producers with 1 element each, joined before the drain; or 1 producer with 4 elements against the drain, 4 addresses for 5 nodes | `TypeOK`; `ListShape`: `m_tail_` is the last node or the one before, the list is null terminated and allocated; `SizeExact`; `NoUseAfterFree`; `EmptyHandedOnlyWhenEmpty`; `NothingLost` (neither an element nor a node); `ImplementsTaskQueue` (the refinement); `EveryCallEnds` |
| `queue_two_producers` | 2 producers, 2 elements each, against the drain | **violated**: `DequeuedWasEnqueued` |
| `scheduler_sc` | 2 posters, 1 stopper, 3 tasks of which one is a `Stop`, 1 descriptor; sequential consistency, no timeout | `TypeOK`, `NoLostWakeup`, `NoLostStop`, `QueueUsedSafely`, `EveryTaskRuns`, `DeferredStopEndsStart` |
| `scheduler_tso` | 1 poster, 1 stopper, 2 tasks, store buffers, timeout | `StopEndsStart`: a direct `Stop` ends the loop, because a timeout tests `m_stop_` again |
| `scheduler_lost_task` | 1 poster, 2 tasks, store buffers, timeout | **violated**: `DeferredStopEndsStart` |
| `timer_prompt` | 3 timers, intervals 1 and 2, repeated or not | `TypeOK`, `SetsAgree`, `ArmedForEarliest`, `CancelledIsGone`, `EveryTimerRuns` |
| `timer_slow` | 2 timers, one may come due while the other runs | **violated**: `EveryTimerRuns` |
| `connections` | 2 connections over 2 descriptors, 2 requests each; the peers of both may end their streams, and one connection is also closed by its own callback, perhaps twice; a `Stop` at any time | `TypeOK`; `WaitersAgree`: registered exactly while waiting; `NoneResumedAfterEnd`; `NothingRaised`; `OpenIffKept`: descriptors and `m_connections_` agree; `StopEndsWaiters`; `EveryRequestAnswered`; `EveryConnectionEnds` |
| `connections_both_sides` | 1 connection, closed by its callback and by its peer | **violated**: `LocalCloseFindsWaiter` |
| `connections_reused` | 2 connections, 1 descriptor, `accept4` while the task that closes is running | **violated**: `NoDoubleRegistration` |
| `sever` | servers with 0 to 3 workers, 3 connections, 2 calls of `Stop` at any time, 1 failed `accept4`, `bind` may fail | `SeverTypeOK`; `BreaksOnlyWhen`: what may end the process, and after what; `OffMeansEnded`: `Start` returns after all workers; `EveryoneServed`; `StopEndsSever` |
| `containers` | 4 messages of 0, 1, 2 or 5 cells over buffers of 4 that grow, cut anywhere; 5 hash values in tables of 2 to 64 buckets; 4 nodes on 3 levels | `StreamTypeOK`; `StreamInOrder`: whole frames are coming, and what was returned are the messages before them; `OverrunOnlyWhenPipelined`; `EveryMessageReceived`; `HashIsSet`; `IterationComplete`; `RanksExact` |

### What the violations say

* `queue_two_producers`. A producer reads `cur_tail`, and before it links, the
  loop takes elements and deletes that node. A second producer's `new` returns
  the same address. The first one's compare-and-swap finds `m_next_` null and
  succeeds, on a node that is not (yet) in the list: an element is counted and
  lost, and a later `Dequeue`, licensed by `Size() > 0`, follows a null pointer.
  The unit test joins its producers first and cannot see it; `AddDefer` has
  callers in several threads while the loop drains. With one producer, or with
  the producers joined, everything stated holds, as `queue` shows.
* `scheduler_lost_task`. `m_state_ = EpollWait` is a release store, and the load
  of `m_size_` after it an acquire load: the load may be done first. The loop
  sees an empty queue, the poster sees `HandleExtraState`, nobody writes the
  eventfd. A timeout does not help, since `epoll_wait` returning 0 does not look
  at the queue. The deferred task is a `Stop` here, so `Start` does not return.
  Sequentially consistent operations on the two words would repair it:
  `scheduler_sc` and the theorems below.
* `timer_slow`. At the end of `HandleExpireEvent` the timerfd is set to the
  distance to the next deadline. When that deadline passed while the tasks ran,
  the value is not positive, `timerfd_settime` disarms the timer or refuses, and
  only a log line is written. The header of the set is in the past from then
  on, so no later `AddTimer` re-arms either: the scheduler has no timers any more.
* `connections_both_sides`. `MagCallback` asks for `Close`, which only queues a task.
  The coroutine answers, reads on, and finds that the peer has ended the stream: it
  queues the task that cleans the connection and runs into `Terminal`. The `Close` task
  is the first in the queue. It closes the descriptor and resumes the coroutine,
  which is to find it closed ("local close", `TcpConnection.cpp:85-87`) but is behind its
  end; it returns to the zero with which its stack was filled. Nothing keeps a
  program from calling `Close` on a connection whose peer is leaving.
* `connections_reused`. The task of `TcpConnection::Close` closes the descriptor
  and then resumes the coroutine that waits on it, counting on a `read` that
  fails. `accept4`, in the acceptor's thread, may return the same number in
  between: the old coroutine finds the new connection's socket, waits for it, and
  is registered under that number. The connection is destroyed then; the new one
  registers the number too, which throws and ends the worker. `connections` has
  that overlap as well; its invariants speak of a behaviour up to there (`reused`).

### What the passing runs exempt

Some properties hold only outside circumstances they name, and these are worth
knowing.

* `StopEndsSever` exempts a worker that was stopped between publishing its
  scheduler and entering its loop: `Scheduler::Stop` finds `m_stop_` still true,
  does nothing, the worker then stores false and runs on, and the server's thread
  waits for it for ever.
* `BreaksOnlyWhen` names what resumes an acceptor that has ended (a second `Stop`,
  a `Stop` before `Start`, the timer after a failed `bind`), what registers its
  descriptor twice (`accept4` that failed after its `Yield` does not take the
  registration back), and the division by zero of a server without workers. A
  connection for a worker that has withdrawn its scheduler does not occur.
* `OverrunOnlyWhenPipelined`: a buffer that was empty, was filled exactly and is
  then read in part hands `readv` space behind its array. It takes a second
  message behind the first one; a sender that waits, as `TcpClient` does, never
  causes it. For the same reason `EveryMessageReceived` speaks of such senders: one
  `Decode` follows each `readv`, and the second message stays in the buffer.
* `StreamInOrder` ends at the mishap "repeated": the hooked `write` passes the same
  pointer and length again after a partial write, so that a `writev` that
  is interrupted twice sends cells again and then fails.
* `IterationComplete` exempts a table whose first half was emptied by deletions in
  the middle of a rehash: `MReset` then looks for the second table in the first
  one's array. `RanksExact` ends where `Delete` has taken the last level, or left
  links that an `Insert` follows.

* The invariants of `connections` cover connections closed from both sides and more
  than once. `NothingRaised` allows the worker to die of that, by a crash and not
  by an exception: the `Close` task resumes an ended coroutine, or is run after
  the connection was destroyed. `NoneResumedAfterEnd` says that it is this
  task and no other that resumes an ended coroutine, and only that of its own
  connection. All of them end with `reused`. `EveryRequestAnswered` and
  `EveryConnectionEnds` except a worker that was stopped or died, and `reused`.

The peers of `Connections` wait for an answer before they send the next request, as
`TcpClient` does: `ProcessMag` decodes one frame per `readv`, so the second of two
requests that arrive together would stay in the buffer until more data comes.

### Bounds

* Queue: one element each from three producers gives every pair of racing
  `EnQueue`s a third one that helps or disturbs; the retry, help and swing
  branches all occur. Four elements make five nodes over four addresses, so that
  addresses come back. `Disciplines` and `Addr` are the only bounds.
* Scheduler: `Task` bounds the number of `AddDefer` calls, `MaxEvents` how often
  a descriptor becomes ready, each stopper stops once. Two posters are needed for
  one to link behind the other's uncounted element; the loop drains, re-arms and
  sleeps several times with three tasks. `CHECK_DEADLOCK FALSE`: the
  system really stops, in `epoll_wait` when nothing happens or after `Start`.
* Timers: three timers give one that is run, one cancelled meanwhile and one that
  must survive. `MaxLate` saturates how late a timer is: beyond due, the code
  does not tell lateness apart.
* Connections: one connection is closed by its peer and one by its peer, its
  callback or both, so that each task meets the coroutine of its own connection and the
  other connection at every place, and either descriptor may be taken over by the
  connection that comes second. Two requests make a coroutine wait, be resumed, and
  wait again, and let the callback ask for `Close` twice; `MaxRequests` is the
  only bound. One connection is enough for `connections_both_sides`.
  `CHECK_DEADLOCK FALSE`: the worker may stay in `epoll_wait`, have returned or have
  died.
* Server: three workers are one that is awaited, one before and one behind it, and
  three connections go once around `GetNextScheduler`. Two calls of `Stop` meet
  each other and, one of them, every place of `Start`. `MaxConnections`,
  `MaxStops` and `MaxFailures` are the bounds. `CHECK_DEADLOCK FALSE`: a process that
  has ended, a server that has returned or waits for connections, goes no further.
* Containers: a capacity of four holds a header and a message of two exactly, one
  of five makes the buffer grow, by doubling first and then by `Increment`; four
  messages wrap it more than once. The hash values 0, 2, 3, 6 and 8 collide in small
  tables and part in larger ones; `MaxSize` bounds the growth. Four nodes on
  three levels give nodes before, at and behind each change on every level.
  `MaxFrames`, `Keys`, `MaxSize`, `Members` and `TopLevel` are the bounds; deadlock is
  not checked because messages run out.

### Fairness

A thread in the middle of a call gets to finish it (weak fairness of each
thread's next step, which is what an operating system scheduler gives), a store
buffer drains, time passes, and the loop's thread keeps running. Nobody is
obliged to begin a call: starting an `AddDefer`, a `Stop`, an `AddTimer`, a
`CancelTimer`, or a descriptor becoming ready has no fairness. A callback is
assumed to return. In `Connections` the worker's thread goes on, the acceptor
defers the task for what it accepted, and a peer reads what it is sent; nobody has
to connect, send, end a stream, close or stop. In `TcpSever` the server's thread
and each worker go on, and three seconds pass; nobody has to connect or to call
`Stop`. In `MessageStream` a receiver goes on while there is something to read.

## Proofs

`SchedulerProofs` proves, for any finite set of posters, any set of stoppers,
tasks and descriptors:

* `TypeCorrect`: `Spec => []TypeOK`, with and without store buffers.
* `QueueContractKept`: `Spec => []QueueUsedSafely`, with and without store
  buffers. The invariant is `Len(queue) = size + Cardinality(Counting)`, where
  `Counting` are the calls that have linked and not yet counted, together with
  the fact that everything taken or queued is distinct.
* `NoTaskSleptOn` and `NoStopSleptOn`: `Spec => []NoLostWakeup` and
  `Spec => []NoLostStop`, both under `StoreBuffers = FALSE`, which
  `scheduler_lost_task` shows to be necessary.

`NoLostWakeup` is not inductive: it speaks only of a sleeping loop, and whether
the loop may go to sleep is decided earlier. `SleepInv` (in `Scheduler.tla`)
adds what the argument needs: `m_state_` is a function of where the loop is;
`m_size_` is behind by the calls that are counting, so a loop that saw `size = 0`
with a task in the queue knows that somebody has yet to read `m_state_`; and that
somebody will find `EpollWait`, since the loop stored it before it looked. The
proof that a step preserves it is split by conjunct (`FencedStep`, `StateStep`,
`CountStep`, `WakeupStep`, `StopStepWakes`) and then by action.

The assumptions are those of `SchedulerConstants`: finitely many posters, stop
tasks are tasks, and the names `"loop"` and `"eventfd"` belong to nobody else.

`TimerQueueProofs` proves, for any number of timers, any intervals and any
lateness:

* `TypeCorrect`: `Spec => []TypeOK`.
* `SetsStayTogether` and `CancelTakesEffect`: `Spec => []SetsAgree` and
  `Spec => []CancelledIsGone`, from the invariant `BookInv`: ids are fresh, and
  while a batch is handled every cancelled timer that is still in the map is on
  the list `m_cancel_timer_` that the end of the handler works off.
* `ArmedInTime`: `Spec => []ArmedForEarliest`, under `SlowCallbacks = FALSE`,
  which `timer_slow` shows to be necessary. The property says nothing while the
  handler runs; `ArmedInv` adds that the timerfd is then idle, that exactly the
  timers of the batch are due, and that every interval is positive. The argument
  for `AddTimer` from inside a timer's task is that the timer being run is still
  in the set and is due, so the new one cannot become the header.

Both invariants are stated in `TimerQueue.tla`. The deadlines are compared
through `Earliest`, of which the lemmas `EarliestIs` and `EarliestOnly` say that it
is the least of them (by well-foundedness of the naturals). The assumptions are
those of `TimerConstants`.

`TcpSeverProofs` proves, for any set of sizes and any bounds:

* `SeverTypeCorrect`: `Spec => []SeverTypeOK`.
* `BreaksForKnownReasons`: `Spec => []BreaksOnlyWhen`.
* `StartReturnsAfterWorkers`: `Spec => []OffMeansEnded`.

All three come from `SeverInv`. `WorkersFollow` says where each worker may be
given where its owner is: not made yet, being awaited, running, being stopped, or
ended once the listener is closed and the loop goes on. This is why the acceptor
never meets a worker without a scheduler: while the listener is open and the
loop runs, all of them have theirs. `AcceptorFollows` says that the acceptor sleeps
or has ended whenever the loop does something else, that only a listening
descriptor is registered, and that a closed listener means that a task is queued
which resumes the acceptor; so it has ended when the loop has.
`SwapInsCounted` is the argument about a single `Stop`: from `Start` to the end
the queue goes through `<<"SwapIn">>`, `<<>>`, `<<"Stop">>` and `<<"SwapIn">>` again, and
the acceptor has not ended when one of its two tasks is run. The assumptions are
those of `SeverConstants`.

`LockFreeQueueProofs` proves, for any set of producers and addresses, any numbers
of calls and any elements, the safety properties of run `queue` and the one that
`queue_two_producers` violates: `QueueTypeCorrect`, `NeverUsesFreed`,
`ListKeepsShape`, `SizeIsExact`, `EmptyHandedFromEmpty`, `DequeuesWhatWasEnqueued` and
`NothingIsLost`. Each is of the form `Spec /\ SafelyUsed => []...`. `SafelyUsed` says in
which use the queue is safe: the producers are joined before the first `Dequeue`
(the unit test), or a single thread calls `EnQueue` and `Dequeue` is called only when
`Size() > 0`. The run `queue_two_producers` shows why one producer has to be alone. That
a polling consumer is excluded even then is for the order of the reads in `Dequeue`
(`LockFreeQueue.h:69-70`): it may read a null `m_next_` of the dummy, then the
producer links a node and moves `m_tail_`, the tail is found to differ from the
head, and the head is set to null. Nothing in `src/` polls while others enqueue.

The inductive invariant `QueueInv` is about what each local pointer still means at
each position. `ListOK` is the list; `MemoryOK` says exactly which addresses are
allocated (the list, the nodes about to be linked, the dummy about to be deleted), so
that `new` cannot return one that matters. `AtTail` says that what a producer holds
as `cur_tail` is in the list, and that `m_tail_` never moves back before it;
`AloneAtTail` that it is the last node when a producer is alone, so that the
compare-and-swap on its `m_next_` is on a live node; `AtHead` the same of the consumer.
`Conserved`: what was linked is in the list or was handed out, and once.

The same module proves `QueueImplementsFifo`: under `SafelyUsed` every
step of `LockFreeQueue` is a step of `TaskQueue` or changes nothing of it. An element is put
when the compare-and-swap links its node, counted by the `fetch_add`, and taken
when the head moves; the other steps stutter. `Scheduler` is built from the actions of
`TaskQueue`, so this is the theorem that joins the two proofs.

`ConnectionsProofs` proves, for any connections, descriptors and numbers of requests,
the six invariants of run `connections`: `ConnectionsTypeCorrect`, `WaitersAlwaysAgree`,
`NoneIsResumedAfterEnd`, `NothingIsRaised`, `OpenExactlyWhileKept` and
`NobodyWaitsAfterStop`. They assume nothing but `PollerConstants` and
`ConnectionConstants`: any connection may be closed from both sides and any number of
times, and any number may be given away at any moment.

The invariant is `IInv`. Its first part, `TypeInv`, holds throughout: the types and `Known`,
by which every pointer and every task leads to a connection that has been accepted,
and so to a descriptor. The second, `ConnInv`, holds up to `reused`, and has four parts.
`Owners`: from `accept4` to the task that closes it a descriptor denotes one connection,
and it is in `m_connections_` from `Establish` to its destruction. `Tasks`: every task
is queued at most once and its connection is where the task expects it; only the `Close`
tasks of a connection in `closedTwice` may be repeated, or find it ended or destroyed. Of any
other connection there is at most one task that destroys it, and one that has ended
has such a task, or its `Close` waits for it. `Turns`: only the coroutine that
runs is between two looks at its socket; while `Close` or the clean-up resumes one, its
descriptor is closed, so that it can only run to its end; and the running coroutine
is alive, or `Dead`: resumed behind its end by the `Close` task of a connection closed
twice, when the next step is the crash. `Waiters`: registered means waiting, and waiting
with an open descriptor means registered. There is one lemma per action about the
types and one about the rest. `RunningOwns` says what a coroutine may rely on when it is
resumed, and `FreedWaiters` what holds after a descriptor has been taken from the
poller, which six actions do.

`MessageStreamProofs` proves first what the operators of `RingBuffer` do, for any capacity,
positions and cells, and any values of the initial capacity, the limit of doubling, the
increment and the package length. `IsRing(r, S)` is a value of the class:
`RingOK` (the size agrees with begin and end; an empty buffer begins at 0) over cells in `S`.
Every operation keeps it. `ReadingTakesTheFront` and `FlushedIsContent` are about what is
taken out, `WriteAppends` and `FetchAppends` about what is put in, `GrowingKeepsContent` and
`GrowthIsEnough` about `EnableWritableSpace`; together they make the buffer a FIFO.
`OverrunsExactly` says when `readv` is given space behind the array: if and only if the end
stands at the capacity while cells before the begin are free, where the second branch of
`FetchDataFromFd` takes `GetWritableCapacity()` for contiguous. The arguments go through
`Place(r, i)`, the cell where the i-th byte of the content lies, and `FillAppends`, which
`Write` and `Fetch` share.

It proves then the safety properties of the stream, for any messages,
lengths of header and buffers: `StreamTypeCorrect`, `MessagesArriveInOrder` and
`NoOverrunWithoutPipelining`. `StreamInOrder` says it without building the whole stream by
recursion: each cell that is coming belongs to a frame that is there from its first cell to its last,
with the next frame behind it up to the last one sent; and the messages returned are those
before the first frame coming. It is not inductive. `StreamInv` adds that
both buffers are rings, that the output buffer is empty between two messages,
that fewer messages were returned than frames were taken, and that, with a peer that waits,
what is coming is a single frame and the input buffer has it from its first cell:
`Fetch` then cannot meet the condition of `OverrunsExactly`. `FrameAppended` and `FrameTaken`
are the two facts about sequences of frames, `DecodedIs` says what `Decode` reads, and there is a
lemma for each action.

`HashTableProofs` proves, for any set of hash values and any first and largest size:

* `HashTableIsSet`: `Spec => []HashIsSet`.
* `HashTableIterates`: `Spec => []IterationComplete`.

The invariant `HashInv` says that the table is in one of three states (`IsTable`): without
a size, `Resting`, or `Moving` through a rehash, when each key is in exactly one
of the two tables. `ChainsHold` is what an array of chains owes the set of its keys: each
key once, in the chain of its hash, and nothing else. There is a lemma about it for every
way in which an operation touches the chains (`ChainsAdd`, `ChainsRemove`,
`ChainsCleared`), and `LoopMoves` says that the loop of `ReHash` leaves the entries of a
bucket in the chains of the larger table. From them follow the steps that every
operation is made of: `ReHashKeeps` for a bucket moved and for the end of a rehash,
`UnsizedGrows` and `RestingGrows` for a new array, `InsertedIs` and `RemovedIs`. That
the counters are exact comes from a bijection between entries and keys
(`EntriesCounted`).

An iterator takes as many steps as there are keys, so the second theorem is about a
function that is defined by recursion. Positions are ordered (`Earlier`);
`NextIs` and `PrevIs` say that `Next` goes to the first entry after the one it is at
and `Prev` to the last one before it, over empty buckets and from one table
to the other. Then the entries up to where the nth step comes to are those of the
steps so far, and they are n (`WalkIs`).

`SkipListProofs` proves, for any nodes and number of levels, `SkipListRanks`:
`Spec => []RanksExact`. `SkipOK` names for each level that counts the set of its nodes: that of
level 0 is the list, and each is part of the one below. `LevelOK` says that the links
of a level chain its nodes in order, and that a span is the difference of the ranks at its
two ends. A span to null may be anything, and is: `Insert` and `Delete` adjust it
without keeping it at the distance to the end. Above the levels that count there are no
links, except on the one that `Delete` took last. `UpdateIs` says that `GetUpdateVec` finds on every
level the last node before the one looked for, and its rank, although it starts each level
from where the one above ended. `LevelInserted`, `LevelPassed`, `LevelDeleted` and
`LevelUnlinked` are what one level is after an operation, according to whether the node is
on it; `LoweredIs` is the loop that lowers `m_level_`.

Induction in these proofs, over the length of a chain, the steps of an iterator or the
distance to a node, is `Induct`: with a set in place of a predicate, from the
well-foundedness of the naturals. That a recursive function exists is proved before it is used
(`LoopRuns`, `WalkRuns`, `ReachRuns`). The assumptions are `HashConstants` and
`SkipConstants`. As in the runs, an iterator is on a table that nobody changes and
whose first half is in use, and a list has not met what a `Delete` left behind.

### Only model-checked

Liveness (`EveryTaskRuns`, `DeferredStopEndsStart`, `StopEndsStart`,
`EveryCallEnds`, `EveryTimerRuns`, `EveryRequestAnswered`, `EveryConnectionEnds`,
`EveryoneServed`, `StopEndsSever`, `EveryMessageReceived`), which the prover does
not reach. Every invariant that a passing run checks is a theorem, and so is
the refinement of `TaskQueue`.

## Not modelled, and why

Deliberately left out of the modules above:

* *Scheduler*: the coroutine stack and shared stacks, exceptions from
  tasks, a failing eventfd, `m_stop_callback_` (`Scheduler::Stop` calls it first, in
  the stopping thread; a server sets none). An `epoll_wait` that a signal
  interrupts is logged and otherwise behaves like one that times out.
  `IsInLoopThread` is decided by which action a thread
  takes. Stores other than to `m_state_` and `m_stop_` go straight to memory;
  compare-and-swap, `fetch_add` and system calls find the store buffer empty, as
  on x86.
* *LockFreeQueue*: a second consumer (there is none), the moved-from element,
  weaker memory than sequential consistency (the compare-and-swaps order what
  matters here).
* *TimerQueue*: the assertions. The one at `Timer.cpp:46` counts the sentinel
  `m_timers_[0]`, which line 48 inserts for the first time only afterwards, so that a
  Debug build, the default, aborts at the first expiry; the one at line 34 fails for a
  `CancelTimer` before it. The model is of a build without them. Further, deadlines equal to the nanosecond, of which the set drops the
  second; steps of the system clock, which may make the handler find nothing
  expired and not re-arm; intervals of zero or less (`sleep(0)`, `DoUntil`), which
  fail like `timer_slow`. A call reads the clock once.
* *Connections*: connections that are reset (their
  coroutine ends with no task to clean up), requests sent ahead of an answer,
  partial writes, growth of the poller's vector, the
  eventfd and timerfd (in `Scheduler` and `TimerQueue`). A descriptor is
  reported ready as long as it is: the poller asks for level-triggered events.
* *TcpSever*: the index of `GetNextScheduler` as a variable of the process (the servers of
  a process share it, which moves where each begins); what workers do with connections (in `Connections`; one that is handed
  over just before `Stop` is dropped with its descriptor open), `IsRunning`, the
  destructor of a server that is still running, workers that die of an exception. A program
  is assumed to call `EnableHook` in the thread that runs the server, as the tests
  do; otherwise `accept4` does not yield.
* *MessageStream*: the end of a stream, at which `TcpClient::Receive` spins, and an
  empty answer, for which it waits for ever; sizes near 2^32.
* *HashTable*, *SkipList*: values, the pointers back, an iterator over a table that
  is changed meanwhile, equal (score, value) pairs, the destructors.
* *Coroutine and contexts*: the models assume that a coroutine goes on where it
  yielded. The library can put several coroutines on one shared stack, but nothing
  in `src/src/` does: the schedulers of workers are made without one.
* *Mutexes*: `SpanMutex` is a `pthread` mutex in shared memory, used by the log
  appenders; only a test uses `ReentrantMutex`. The lock in `EnableHook` that is
  never released is met by the first caller alone as long as workers are started
  one by one.

Parts out of scope altogether: `Log`, `Crc32`, `Addr`, `Socket` (formatting and
wrappers), `EVBuffer` (not used), the byte encodings of the serializer,
`coctx_swap.S`, `third_part/`, `example/`, and `scripts/`, whose tools for
formatting and linting were taken from other projects.

## Where to go on

1. Resets and pipelined requests in `Connections`, with the growth of the
   poller's vector.
2. A module for contexts on a shared stack, for applications that make one: two
   coroutines and the main one, with the owner recorded when a context is made
   (`CoroutineContext.cpp:124`).
3. `ReentrantMutex` over an abstract mutex, and `EnableHook` called by two threads.
4. Proofs about compositions: `Connections` with each socket a `MessageStream`, so that
   `EveryRequestAnswered` speaks of the bytes of a request.
