# Verification of MonaCPP

MonaCPP is a C++ library of asynchronous files, sockets, timers and threads.
This directory holds TLA+ models of its components, the TLC runs which check
them on small instances, and TLAPS proofs of the theorems which matter most,
for every instance.  Paths are those of `src/Mona`, with the line numbers of
the commit in `src/`.

Contents: [the system](#the-system), [the modules](#the-modules),
[the runs](#the-runs), [fairness](#fairness), [the proofs](#the-proofs),
[what the checks have shown](#what-the-checks-have-shown),
[what is not modelled](#what-is-not-modelled), [the plan](#the-plan).

## The system

### Components, their state and how they interact

An application built on MonaCPP has one thread of its own, which owns the
objects (files, sockets, timers), and the library's threads, which do the work.
The work goes out through a `ThreadPool` and comes back through a `Handler`.

| Component | State | Operations | Correct when |
|---|---|---|---|
| `Signal` | `_set`, mutex, condition variable | `wait`, `set`, `reset` | no wake-up is lost; `wait` is atomic; a `set` of an auto-reset signal frees one waiter |
| `Thread`, `ThreadQueue` | `_stop`, `_requestStop`, `_thread`, `_runners` | `queue` (which calls `start`), `stop`, `run` | tasks run once, in order; no task is stranded when the idle worker stops; `stop` drains and returns; one worker at a time |
| `ThreadPool` | `_threads`, `_current` | `queue` with a track, `join` | the tasks of a track stay on one thread |
| `Handler` | `_pSignal`, `_runners` | `queue`, `tryQueue`, `flush`, `reset` | what is accepted runs, in order; nothing is left in a closed handler; a flush ends |
| `BufferPool`, `Buffer::Allocator` | stacks of free buffers with two marks, a spin flag | `alloc`, `free`, the cleaning every ten seconds | a buffer has one owner; nothing leaks; an idle pool empties |
| `Timer` | buckets by raising time, `_count`, `_nextRaising` of each timer | `set`, `raise` and its callbacks | a timer is called when due, not before, not after it was stopped; the wait returned is exact |
| `IOFile`, `File` | `_loaded`, `_readen`, `_queueing`, `_flushing`, tracks | `load`, `read`, `write`, `erase`, `join`, events | bytes in order; each read has one answer; the end of the writes is signalled; `join` waits for all |
| `PersistentData` | `_entries`, the files of each path, its thread | `add`, `remove`, `flush`, `load` | the store ends with what was asked; a path which has a value keeps one through a crash |
| `FileWatcher`, `IOFile::watch` | date and size of each file, list of the watchers | `watch`, the looks of the thread | the last change of a watched file is announced, although the thread ends and starts |
| `IOSocket` | `_reading`, `_receiving`, `_sending`, the poll set, its thread | `subscribe`, `unsubscribe`, `read`, `write`, `close` | no event is lost to the edge-triggered poll; receptions stop and start again with their buffer; a socket of the current batch is not freed |
| `Socket`, `UDPSocket` | `_sendings`, `_queueing` | `write`, `flush` | what is queued is sent in order, or the socket fails |
| `TCPClient`, `TCPServer`, `StreamData` | connecting, connected, what is stored of the stream; the socket which listens | `connect`, `disconnect`, `send`; `start`, `stop` | the stream is whole; one disconnection per connection; every connection is accepted |
| `TLS`, `SRT` | the sessions of external libraries | their sockets' operations | what is written around a handshake is sent |
| `Buffer`, `Packet` | offset, size, capacity; shared bytes | `resize`, `clip`, `append`, sharing | the bytes are kept while their memory lives |
| `Parameters` | a shared map, its events | `emplace`, `erase`, `clear`, copies | who follows the events has the parameters |
| `XMLParser` | its position, the open tags, an inner text | `parse`, `reset`, `save`, its callbacks | each element is told once, in order |
| `Event` | a weak callback | `subscribe`, raise | a dead subscriber is not called |
| `Logs`, `FileLogger` | loggers, those which have failed, the numbered files | `Log`, `Flush`, the rotation | lines kept in order, in a bounded number of files |
| `Date`, `Timezone`, `IPAddress`, formats, maps, maths | values | conversions | against their definitions |
| `Application`, `ServerApplication` | options, service | start, stop | input and output of a process |

Interactions:

- `ThreadQueue::queue` is called by any thread.  It takes the queue's mutex,
  starts the worker if it has stopped (`Thread::start`, which joins the former
  thread), appends, and sets the worker's `Signal`.
- The worker waits on this signal with a timeout of two minutes, takes the
  whole deque under the mutex, runs it without, and stops when it finds the
  deque empty after a timeout or a request to stop.
- `ThreadPool` spreads tasks on its queues; a caller which passes the same
  *track* again stays on the same queue.
- `IOFile` gives each file a track on its own pool, and another one on the
  application's pool for its decoder.  A read which ends may queue a decoding,
  which may queue a read.  Events go to the `Handler`.
- The application's thread waits for the signal of its `Handler` and flushes it:
  all events (`onReaden`, `onFlush`, `onError`...) run there.
- `PersistentData` has a thread of its own which it drives as `ThreadQueue`
  drives its worker, with its own copy of the protocol.
- `BufferPool` is behind every `Buffer`, from every thread.

### What is hard

- Interleavings: members shared without one lock (`_stop`, `_requestStop` and
  `_thread` of a thread; `_queueing` and `_flushing` of a file; `_reading` of a
  socket).
- Ordering: the same file passes through three threads.
- Edges: `epoll` tells once that a socket is ready; whoever is busy then must not
  forget it (receptions, sendings, a handshake, a backlog).
- Timeouts: the idle timeout of a worker against a `queue()` or a `stop()`.
- Failures: an exception of a task, an operation of the disk which fails in
  the middle of a batch, a crash between the writing of a value and the
  deletion of the former one, or in the middle of a rotation of logs.
- Reentrancy: callbacks of timers which set timers, results which queue results,
  decoders which read again, clients which disconnect in their own events, parsers
  reset by their callbacks.
- Boundaries: the marks of the pool, the wrap of counters, a wait of 0, the years
  before our era.

`PROJECT.json` lists the hazards at their lines, with the properties which
would catch each of them.

## The modules

Each module says in its head which code it models, and `PROJECT.json` maps every
definition to its lines.

| Module | Models | State and actions |
|---|---|---|
| `Signal` | `Signal` at the grain of the mutex and the condition variable | `set`, `autoReset` and where each waiter is; `Take`, `Sleep`, `GiveUp` are the looks at the flag, `Spurious` and `TimeOut` what the condition variable may do, `Set`, `Reset` |
| `SignalSpec` | what a signal promises: an event with atomic `wait` | implemented by `Signal`; the other modules use a signal through these steps |
| `ThreadQueue` | `ThreadQueue` and `Thread`, one action per unlocked access to a shared member | queuers (`Q...`: the steps of `queue()` and `start()`), stoppers (`S...`: those of `stop()`), worker (`W...`: those of `run()` and `process()`) |
| `RunQueue` | what a queue promises: a FIFO executor which loses tasks only behind an exception | implemented by `ThreadQueue` with `pending <- batch \o runners` |
| `ThreadPool` | `ThreadPool` as functions on a value | each thread is what `ThreadQueue` and `RunQueue` show it to be |
| `Handler` | `Handler` and the loop of the application | critical sections of `_mutex` are single actions |
| `MCThreads` | `Signal` and `Handler`, side by side, and a chain of results | one of them per behaviour |
| `BufferPool` | the bucket of one capacity; chunks go from one to another by the heap | `Pop`/`New` are `Alloc`, `Push`/`Delete` are `Free`, `Manage`/`Collect` the cleaner |
| `Timer` | `Timer` and its callbacks | `Set`; `Raise`, `TakeBucket`, `Call...`, `EndBucket`, `RaiseReturns` are the loop of `raise()` |
| `IOFile` | `IOFile` and `File` for one file | application, IO thread, decoding thread, and the dispatch of the events; the counters `_queueing` and `_flushing` are read and written in separate actions |
| `IOFileJoin` | `IOFile::join` over two `ThreadPool`s | reads, decodings which read again, threads which stop and start, and the two loops of `join` |
| `PersistentData` | `PersistentData`, its thread, its files and a crash | the application's calls, `Check` for the critical section of `run()`, `Open`, `Write`, `Clean...` for `processEntry()`, `Crash`; a load is `Load`, `LoadFile` for each file, `Loaded` |
| `SocketSend` | `Socket::write` and `flush`, `IOSocket::write`, stream or datagram | writers, flushers, the polling thread; the system takes what it has room for, in pieces |
| `IOSocket` | `IOSocket` and its polling thread over `epoll` | `EpollWait` and `Poll...` for a batch of events, `Receive...`, `Send` and `Close` for the tasks of the pool, `Subscribed` and `Unsubscribed` for the application's |
| `TCPClient`, `MCTCPClient` | `TCPClient` and `StreamData` over `IOSocket` | `Connect`, `Adopt`, `Disconnect`, in callbacks too; `Dispatch...`, `Return...` and `Rearm` for an event of the handler |
| `TCPServer` | `TCPServer` and the accepts of `IOSocket` | `Start`, `Stop`, `Accept...` for the loop, `Handle` for a connection handled |
| `TLS` | the handshake of `TLS::Socket` with the queue of `Socket` | the writing, the receiving and the flushing thread, each step under its mutex |
| `FileWatcher` | `FileWatcher` and the thread of `IOFile::watch` | `Change` for the other programs, `Look...` for a look, `Collect` and `Drop` for the list of watchers |
| `Logs` | `Logs`, `Loggers`, `FileLogger` | `Log`, `Delete`, `Rename`, `Flush` in the order of the code, `Crash` between any two |
| `Date` | the calendar of `Date` | `Update` and the setters; a time is days and milliseconds |
| `Buffer` | `Buffer` and the capacities of its allocator | its methods, on a sequence of bytes |
| `Packet` | `Packet` | its ways to share, refer to, capture and buffer bytes |
| `Parameters` | `Parameters` and an observer of its events | its methods |
| `XMLParser` | the machine of `XMLParser` | one action per kind of token, with what its callback answers |
| `MCParts` | nine more modules above which stand alone, side by side | one of them per behaviour |
| `ThreadingProofs`, `HandlerProofs`, `MemoryProofs`, `TimerLogsProofs`, `PersistentDataProofs`, `IOFileProofs`, `SocketSendProofs`, `TCPClientProofs` | theorems: `ThreadingProofs` about `ThreadQueue`, `Signal`, `ThreadPool` and `IOFileJoin`, `MemoryProofs` about `BufferPool`, `Buffer`, `Packet` and `Parameters`, `TimerLogsProofs` about `Timer` and `Logs`, the others about the module of their name | see [the proofs](#the-proofs) |

Composition: `IOFileJoin` is built on `ThreadPool`, whose threads are the queues
which `ThreadQueue` is shown to implement; `ThreadQueue`, `Handler` and
`PersistentData` use a signal by the steps of `SignalSpec`, which `Signal` is
shown to implement; `IOFile` uses its threads and its `Handler` as FIFO queues;
`TCPClient` extends `IOSocket`, whose sockets it creates, replaces and releases.
`MCParts` composes nothing: its parts share no state in the code either.  It extends `Buffer`,
`Packet`, `Parameters` and `Logs`, which theorems are about, and instantiates the others.
`MCThreads` has the same form, and extends both; the flag which `Handler` sets is its own, by
the steps of `SignalSpec`.

Definitions named after another one with a comment *Mutant of X* are faulty
variants of X, kept to make sure that a property can fail.

### Choices of the models

- A critical section is one action, when all it touches is only touched under
  its lock or by its thread; all other accesses to shared members are actions of
  their own.  This matters for `start()` and `stop()`: `_stop`, `_requestStop`
  and `_thread` are accessed without a common lock.
- `_requestStop` is the exception inside the worker's section: it is read there
  once, and a stop requested after this read is seen after the next signal.
- A task, a result, a file's bytes are model values, or counts where the
  property is about them.
- The disk is modelled by what an operation leaves: `PersistentData` knows
  for each value whether its file is absent, torn or whole.
- A byte of a stream is its number, a token of a document its kind, so that a property
  can say which ones were lost, told twice or out of order.
- The system is modelled by what the code relies on: an edge of `epoll` when something
  new comes, a `send()` which takes what it has room for.
- The spin flag of `BufferPool` makes its operations atomic; a thread which does
  not get it goes to the heap, which the model allows at any time.

## The runs

The longest one takes less than three minutes on two cores.

| Run | Bounds | States | Shows |
|---|---|---|---|
| `ThreadQueue` | 2 queuers, 1 stopper, 3 tasks, one may raise | 106,470 | `NoStranded`, `Drained`, the refinement of `RunQueue`, and that tasks run and `stop()` returns |
| `Threads` | *Signal*: 3 waiters, 2 with a timeout, both kinds of signal; *Handler*: 2 producers, 4 results, one queued by another | 10,181 | the refinement of `SignalSpec`, `SetWakesUp`; results in order, and every one runs |
| `BufferPool` | 4 addresses | 3,573 | one owner and no leak (`MemoryIsOwned`), an idle pool empties |
| `Timer` | 3 timers, timeouts 0 to 2, times 1 to 4 | 265,193 | timers are where `_nextRaising` says, counted, and silent when stopped (`Indexed`); the wait is exact |
| `IOFile` | files of 2 bytes, reads and writes of 0 to 2 bytes, 3 calls, all modes | 114,940 | counters exact, bytes in order, every read answered, every write flushed to an application which waits |
| `IOFileFlush` (violated) | 2 writes of 1 byte | | `EndOfWriteSignalled` |
| `BufferClip` (violated) | a chunk of 16 bytes, the smallest of the code | | `PoolTakesAllocated` |
| `IOFileJoin` | 2 files, each read twice by the application and once more by its decoder, 2 pools of 2 threads, `_current` modulo 3 | 353,589 | one thread per file, `join()` returns, and waits for all |
| `PersistentData` | 2 paths, 2 values, 3 entries, every fault, loads at any time | 5,398,505 | the store converges, values survive a crash, `flush()` drains |
| `SocketSend` | 3 packets of 1 or 2 bytes, room for 2, 1 writer, 2 flushers, stream and datagram | 680,158 | bytes in order, `_queueing` exact, every write flushed |
| `TCPClient` | 2 sockets, up to 3 bytes, limits of 1 and 2, every end of a connection | 564,385 | the stream is whole, one disconnection, no byte or end is missed, no freed socket in a batch |
| `Parts` (`MCParts.cfg`) | those of `MCParts.tla`, below | 657,529 | one property per part |

Why these bounds are enough to meet the interesting cases:

- `ThreadQueue`: two queuers contend for the lock, and one may be inside
  `start()` while the stopper is in `stop()`; three tasks make a batch of two, a
  task left behind an exception, one queued from inside another, and a restart of
  the worker after each of its two ways to end.  The theorems then hold for any
  number of them.
- `Signal`: a sleeper, one about to sleep and one about to wake up.
- `Handler`: results queued before, during and after a flush, by two producers
  and from the flush itself.
- `BufferPool`: with four addresses the marks and the stack differ in every order;
  the theorems hold for any set of addresses.
- `Timer`: three timers make a bucket of two with a third one elsewhere, in the same
  bucket, or moved between buckets; times 1 to 4 with timeouts up to 2 allow two
  rounds of re-arming.
- `IOFile`: three calls make two overlapping operations and one after the first
  event; two bytes are read in one or two pieces, or beyond the end.
- `IOFileJoin`: `_current` wraps at an odd number, as 2^16 may in respect of a pool
  of three: the middle of a round is reached.
- `PersistentData`: three entries are a first value, its replacement and one
  for the other path, or the first value again; a load goes through files of two
  paths with two values each, and may be cut by a crash.
- `SocketSend`: three packets make one under way, one queued and one which comes
  meanwhile, each in one or two pieces; with two flushers, the second edge
  finds the first flush still there.  One writer is as good as several, for `write()`
  keeps its mutex.
- `TCPClient`: one stream is past its limit at each byte, or at the second one; a client
  which connects again has a byte of each socket, or none; two sockets are enough
  for a batch of the polling thread to hold one just unsubscribed.
- `Parts`: *FileWatcher* a watcher by name and one by listing, 4 seconds, 3 changes;
  *Logs* rotations of 0 to 3 files, 8 lines, 2 crashes; *Date* days around 1970, a leap day,
  the ends of a century and of four, and the year 1, with 2 setters; *Buffer* 5 bytes with
  a smallest chunk of 2, so that each growth is within the chunk or beyond;
  *Packet* 2 packets and 2 buffers; *Parameters* 2 maps, 3 keys, a range of 2;
  *XMLParser* documents of 3 tokens of any kind, or 5 of a few, with 2 resets; *TLS* a
  client and a server of 3 flights, 3 packets, room for 2; *TCPServer* a backlog
  of 2, 5 connections, 2 failures, 2 starts.

The only deadlocks allowed (`CHECK_DEADLOCK FALSE`) are the ends of bounded
histories: all tasks run (`ThreadQueue`), time at its bound (`Timer`, `FileWatcher`),
calls, packets, sockets, lines or resets at theirs (`IOFile`, `SocketSend`, `TCPClient`,
`Parts`), and the failed state of a violated run.

## Fairness

- `ThreadQueue`: a call of `queue()` or `stop()` which has begun goes on, and so
  does the worker; nothing obliges a thread to call them.  The timeout of two
  minutes is fair: it expires if no signal comes before.  This is what the
  operating system's scheduler and clock give.
- `Signal`: a waiter which is awake takes the mutex some day, and timeouts expire.
  Nothing obliges anyone to call `set()`.
- `Handler`: the application's loop waits, and flushes when signalled.
- `BufferPool`: the cleaning thread wakes up every ten seconds.
- `IOFile`, `IOFileJoin`, `PersistentData`: the threads of the pools, and calls which
  have begun, go on; failures and crashes are never obliged to happen.
- `SocketSend`: the peer receives, so that the socket drains, and the threads go on.
  Nothing obliges a thread to write.  This is the one place with strong fairness:
  a flush waits for a mutex which writers take and leave, and gets it some day.
- `TCPClient`: the polling thread, the threads of the pool and the handler go on;
  peers send, end and reset as they like, and the application calls as it likes.
- `TLS`, `TCPServer`, `FileWatcher`: the threads go on, the peer answers, the clock ticks.

Everywhere else weak fairness is enough: no step has to be taken which is only
enabled now and then.

## The proofs

The theorems are proved by TLAPS for every value of the constants, under the
assumptions of the modules only:

- `ThreadQueueAssumption`: queuers, stoppers and `None` are distinct, `Throwing` is a
  set of tasks;
- `HandlerAssumption`: `None` is not a result, and a result chains at most one;
- `BufferPoolAssumption`: `Null` is not a buffer;
- `TimerAssumption`: timers and timeouts are finitely many, 0 is a timeout; the finiteness
  is what gives `count()` and the last of all times a meaning;
- `PersistentDataAssumption`: `None` is not a value;
- `IOFileAssumption`: sizes are numbers;
- `SocketSendAssumption`: writers and flushers are distinct, and a packet is not larger
  than the room of the system;
- `IOSocketAssumption`: a stream has a size for each of its sockets, ends in the ways of a
  connection, and has a limit which is not zero;
- `ThreadPoolAssumption` and `IOFileJoinAssumption`: `_current` wraps at a number which is
  not zero, a pool has a thread at least (ThreadPool.h:54), counts are numbers;
- `BufferAssumption`: powers of two are positive numbers, and every size has one above it,
  which is over the smallest capacity too (`Alloc` keeps the sizes over 2^31 as they are);
- `PacketAssumption`: no memory, the memory of the program and its constants are three
  addresses, which are neither packets nor the numbers of the shared buffers;
- `LogsAssumption`: the limits of the rotation and the size of a file are numbers.

The proofs about `Signal` and `Parameters` need none.  TLC evaluates each assumption on the
constants of its run.

The bounds (`MaxTime`, `MaxAdds`, `MaxWrites`...) are constants too: a theorem holds for
each of their values.

### ThreadQueue (`ThreadingProofs`)

| Theorem | States |
|---|---|
| `TypeCorrect` | `[]TypeOK` |
| `JoinNeverBlocks` | `[]JoinSafe`: `start()` never waits, with the lock, for a worker which may want it |
| `OneWorker` | `[]SingleWorker` |
| `RunningIsTrue` | `[]RunningIsAlive`: `running()` implies a worker, exceptions included |
| `NothingStranded` | `[]NoStranded`: until an exception, a task in the queue has a worker ahead of it |
| `QueueIsFifo` | `ImplementsRunQueue` |
| `StopDrains` | `[]Drained`: until an exception, `stop()` drains |

None of these properties is inductive: `JoinSafe` says nothing of a queuer which is
about to join.  `IInv` adds who may be where:

- `LockInv`: a queuer inside `queue()` has the lock, and a task to add;
- `StopInv`: `_stop` is true only when the worker is gone or leaving, and it is
  true from the test of `start()` to its reset;
- `ThreadInv`: `_thread` is joinable exactly when there is a thread, and it is not from
  the `join()` of `start()` to the new thread;
- `JoinInv`: one thread joins at a time;
- `BatchInv`: the worker runs when it has tasks to run;
- `RunningIsAlive`.

The hard step is `WStop`: because `_stop` is set under the mutex and only when
the deque is empty, a queuer sees either a worker which will look at the deque
again, or `_stop` and starts a new one.  An exception breaks exactly this, as the
worker then leaves without the lock: `CalmInv` says that until the first exception
(`Calm`), a worker which leaves has set `_stop`, a queuer about to add its task has
`_stop` false, and the conclusion of `NoStranded` holds.  `CalmBefore` shows that
it was calm before every step after which it is.

`QueueIsFifo` maps the tasks of the worker's batch followed by `_runners` to the pending
tasks of `RunQueue`.  It needs that a task is new when it is added (`NewInv`, over
the set `Known` of all tasks wherever they are), which `queue()`'s lock gives.
`StopDrains` rests on the same set: a `stop()` which finds no joinable thread, or
has joined one, sees a worker which has left an empty queue (`GoneIsEmpty`).

### Signal (`ThreadingProofs`)

| Theorem | States |
|---|---|
| `SignalTypeCorrect` | `[]SignalTypeOK` |
| `SignalIsAtomic` | `ImplementsSignalSpec`: the mutex and the condition variable make one event |

Wherever it is inside `wait()`, a waiter of `Signal` is one which waits in `SignalSpec`
(`Answer`).  `SignalWaiter` takes the steps of a waiter one by one: falling asleep, a wake-up,
a timeout are stutters, and so is the notification; taking the flag, lowering it with it, and
giving up are the three answers of the event.  This is what allows the other modules to use
a signal in one step.

### IOFileJoin (`ThreadingProofs`)

| Theorem | States |
|---|---|
| `JoinTypeCorrect` | `[]IOTypeOK` |
| `OneThreadAlways` | `[]OneThreadPerFile`, for any number of files and of threads in each pool |
| `JoinWaits` | `JoinWaitsForAll`, an action property |

The lemmas `Pool...` say what each operation of `ThreadPool` does to a pool of any size, and
`IOJoinInv` has four parts:

- `Pools`: what a thread has to do is of the files whose track leads to it (`Follows`), and
  a thread which has something to do runs (`Busy`).  `OneThreadPerFile` follows, though a
  thread which stops by itself is replaced: its track still leads to the same place;
- `Walk`: the loop of `join()` is in a pool, and has counted the thread which it waits for;
- `Alone`, which makes `JoinWaits` true: as long as no thread of `IOFile` runs nobody can
  queue a decoding, so that the decodings which `join()` has waited for stay done; and when
  it has found no IO thread to stop until now, those which run are ahead of it;
- `Wants`: the reads asked for are bounded.

An IO thread which stops by itself, having queued a decoding, breaks `Alone`: this is the
condition `~lapsed` of the property, and not a weakness of the proof.

### Handler (`HandlerProofs`)

| Theorem | States |
|---|---|
| `TypeCorrect` | `[]TypeOK` |
| `InOrder` | `[]RunInOrder` |
| `NothingLost` | what is accepted has run, is in the batch or in the deque, or a `reset()` dropped it |

`RunInOrder` says nothing of the results which wait, so it is not inductive.  `IInv` is
about `Line`, what has run followed by the batch and the deque: it is the accepted results
without some of them (`SubSeqOf`, an increasing map of positions), and those it lacks are
`cleared`.  `tryQueue()` adds at the end of both, a flush and a run leave `Line` as it is,
since a batch is only taken when there is none (`BatchUnderWay`), and a `reset()` cuts its
end.  Two results may chain the same one: each of its acceptances runs once.

### BufferPool (`MemoryProofs`)

`MarksFrame`, `TypeCorrect` and the two parts of `Ownership` (one owner, no leak) make one
inductive invariant: `manage()` cuts the stack by its marks, so that the ownership
of the buffers depends on `minSize <= Len(stack)` and on `Len(stack) <= maxSize`
or `Len(stack) <= minSize`, without which `resize` would cut buffers off (a leak), or pad
the stack with `NULL` (a bad type).  After `manage()` the high mark is 0 while the
stack is not empty: it is the second alternative which carries on.

### Buffer, Packet and Parameters (`MemoryProofs`)

`MCParts` runs each of these three, as `Logs`, beside other parts; the theorems are about
each by itself, from its initial states and by its steps.

| Theorem | States |
|---|---|
| `BufferAlwaysSequence` | `[]BufferIsSequence`, for any sizes and any smallest capacity |
| `PacketsAlwaysHold` | `[]PacketsHold`, for any number of packets and of shared buffers |
| `ObserversAlwaysFollow` | `[]ObserversFollow`, for any objects, keys, values and ranges |

`BufferInv` says where the content is: the capacity is what is left of the chunk after the
offset, and the chunk is one that `Alloc` gives (`IsChunk`, `Allocated`), the bytes written are there from the offset (`Holds`).  `ResizedIs` takes the
cases of `resize()`: the content moves back to the start of the chunk, or to another one
whose capacity is enough.  That there is a least power of two above a size, which `Capacity`
takes, is the lemma `Least`, by the well-founded order of the numbers.  What is given to the
pool (`GivenIsKnown`) is a whole chunk, of the smallest capacity at least, or a clipped one.

`PacketInv` relates the box, the reference and the area of each packet: an owner has a box
and is not lost (`Owned`); a packet which is not lost has its area in the box of its
host, which still has one (`Lives`); an area is inside memory which exists (`Fits`).
`BecomesSound` is the heart: a packet which takes a new box or reference deletes the former box,
and every packet which pointed there is lost.  `PacketTakesCopy` is the one step which changes
two packets.  The shared buffers are never changed (`Extends`), so that what a packet
points to stays; `Slice` and `PartShrinks` compute with the parts of a sequence.

`ParamInv` is `ObserversFollow` with the other half of it: the observer has the keys of the
object and those erased without an event, which are not in the object.

### Timer (`TimerLogsProofs`)

| Theorem | States |
|---|---|
| `TypeCorrect` | `[]TypeOK`: the counter is not negative |
| `AlwaysIndexed` | `[]Indexed` |
| `WaitExact` | `WaitIsExact`, an action property |

`Indexed` is nearly inductive: it lacks that the bucket under call is empty outside of the
calls, without which `raise()` would overwrite it.  The proof follows the code: the
removal and the insertion of `set()` (`SetKeeps`), the call of a timer (`CalledKeeps`) and
the `add()` of what it returns (`AddKeeps`) each keep the index, so that a callback
which sets a timer is the three in turn.  A timer which waits in the bucket under call is
not found where `_nextRaising` says, so that `remove()` fails: that is why a callback
which does not fail never moves one of them, and why `Regular` is needed.

### Logs (`TimerLogsProofs`)

| Theorem | States |
|---|---|
| `LogsAlwaysKept` | `[]LogsKept` |

It holds for any limits of the rotation, any size of the files and any number of lines, of
loggers which fail and of deaths of the process.  `LogsKept` counts the files which are left
when a line is lost, and the count depends on the numbers which no file has.  `LogsIInv` adds
to it:

- `Spaced`: under a file there are no more such numbers, or holes, than the crashes.  The
  renames make one of their own, at the number which the last one has left: a file moved up
  fills it and leaves its number in turn, so that the files which have moved have one more
  hole under them than those which have not.  The rename of `0.log` fills the last one; a
  crash before it keeps the hole, and is the crash which accounts for it;
- `Numbered`: all the files but `0.log` are over their size, and none is beyond the rotation,
  so that what `Delete` takes is the oldest file, when the numbers under it are all those
  of full files but for the holes (`FilesBelow`);
- `Rotating`: a rename finds the next number free and never goes beyond the rotation, and
  `0.log` is full as long as a rotation has not moved it;
- `Opened`: `_written` is the length of what the next write appends to, and the file that
  `MODE_WRITE` would truncate has moved: after `manage()` there is no `0.log`, and after a crash
  the file is opened to append.

### PersistentData (`PersistentDataProofs`)

| Theorem | States |
|---|---|
| `TypeCorrect` | `[]TypeOK` |
| `SafeAtAnyTime` | `[]CrashSafe` |
| `Converges` | `[]StoreConverges` |
| `Drains` | `FlushDrains`, an action property |

An entry may only delete the former value of its path when the one before it in the
queue has kept its own promise: the invariant is about `Pending`, the entries of the
thread, of the deque and of `newEntry()` as one sequence.

- `Places`: the thread and the application are where these entries are.
- `Served`: until an entry fails, entries which wait have a thread.
- `Knowledge`: the last pending entry of a path gives it the value the application
  expects, or this value is stored; what is stored is in a whole file, or its
  successor is.  After a crash the application knows nothing until its load
  (`Unknown`), and what the load has looked at is known (`Read`).
- `NoRewrite`: each entry of a path gives it another value than the one before it, so that
  no write truncates the only copy.
- `Exact`: without faults, the files of a path out of process are exactly its value.

Each clause holds until the faults which break it, and no more is assumed of them.

### IOFile (`IOFileProofs`)

| Theorem | States |
|---|---|
| `TypeCorrect` | `[]TypeOK`: `_queueing` and `_flushing` are not negative, `_flushing` is 2 at most |
| `InOrder` | `[]ReadInOrder` |
| `QueueingExact` | `[]QueueingIsExact` |

`ReadInOrder` speaks of the first event of the handler; `IInv` places all the data which
are on their way between `position` and `_readen`:

- `Ordered`: without a decoder the data of the handler make a `Chain`, each beginning
  where the former one ends; a decoder may keep some, so with one they are only `Sorted`, those
  of the handler before those to be decoded.  This holds as long as the application has its
  file; then the events which the handler skips leave holes;
- `Modal`, `Bounded`: data are only given of a file which is read, which is never erased,
  so `_readen` only grows while some are on their way;
- `Flushing`: there is one `onFlush` in the handler at most, and `_flushing` counts it
  with the write which is about to take back its own: the decrements of the two threads
  never meet at 0;
- `Counted`: `_queueing` is the number of the bytes to write, a set with a pair for each:
  `ToWriteAppend` and `ToWriteTail` count it when an action comes or begins, whatever fails.

### SocketSend (`SocketSendProofs`)

| Theorem | States |
|---|---|
| `TypeCorrect` | `[]TypeOK`: `_queueing` is not negative |
| `InOrderAlways` | `[]SentInOrder` |
| `QueueingExact` | `[]QueueingIsExact` |

Both properties speak of the socket when nobody has its mutex.  `IInv` says what is true
inside the critical sections too: who has the mutex is where it is kept (`Locked`), no
empty packet is queued, and `write()` sends only when nothing is queued (`Whole`),
`_queueing` still counts what a flush has sent until its end (`Counted`), what is sent
followed by what is queued, or by the packet of `write()`, is what was asked
(`InOrder`), and then `_sending` is set (`Marked`).  `Counted` keeps an inequality when
a datagram is dropped: it is what makes the subtraction of a flush safe.

The queue is read through `FlattenSeq`, which is defined by recursion.  Its laws (a packet
added at the end, the first one removed or cut) are lemmas, proved from an
induction over a set of numbers (`Induction`): the library's induction takes an operator as
a parameter, which no installed prover can instantiate, but a set which has 0 and the
successor of each of its elements can be handled, by the finiteness of intervals.

### TCPClient (`TCPClientProofs`)

| Theorem | States |
|---|---|
| `TypeCorrect` | `[]TypeOK`: `_receiving` is not negative, `_reading` keeps its 8 bits |
| `WeakAlive` | `[]WeakIsAlive` |
| `StreamWhole` | `[]StreamIsWhole` |
| `OneEnd` | `[]OneDisconnection` |

They hold for any number of sockets, streams of any length and any limit, over every step
of `IOSocket`.  `StreamIsWhole` speaks of a callback only; a byte which is not consumed may
also be stored, or wait in the handler, and a callback may leave the socket of the bytes
which wait.  `IInv` follows them all:

- `Streaming`: what is stored is the stream from what is consumed to `Begin`, which is
  what is received less `_receiving`; from there the results of the handler make a `Chain`,
  each of which begins where the former one ends, up to what is received.  While
  `onData` runs nothing is stored, its buffer stands for it, and the chain begins at
  its end.  `_receiving` never goes under zero because it counts the bytes of a chain,
  which is also why a `Handle` of a socket which has been left must not count down;
- `Fresh`: a socket which is not connected has given nothing, in the handler and in the
  batch of the polling thread too; so a new stream begins with nothing stored and an
  empty chain, and `connected()` is only set by the events of a connection;
- `Holding`: the client has one socket, subscribed once;
- `Polling`: out of a batch there is nothing left of it, and in a batch no weak reference is
  deleted.

The lemmas on `Bytes` (two pieces which follow each other make one, the end of a piece is
a piece) and on `Chain` (a result at its end, the first one removed) carry the sequences.

### Only model-checked

Liveness (`EveryTaskRuns`, `StopReturns`, `SetWakesUp`, `EveryResultRuns`,
`IdlePoolEmpties`, `EveryReadAnswered`, `EveryWriteFlushed`, `JoinReturns`,
`EveryByteReceived`, `EndIsSignalled`, `LastChangeAnnounced`, `EveryPacketSent`,
`EveryConnectionAccepted`) is beyond the prover, which knows neither fairness nor
`ENABLED`.  Of the safety properties, `CalendarIsExact` and `EventsAreExact` are only
model-checked: they compare the code with folds over an operator (`FoldSet`, `FoldLeft`),
whose laws need an induction over data.

The types (`TypeOK`) of the modules which have theorems are proved, and no run repeats
them.

## What the checks have shown

The two violated runs are disagreements between the code and its own words, listed in
`PROJECT.json` under "findings":

- `IOFileFlush`: when a write ends while the `onFlush` of the former one is being
  dispatched, its own `onFlush` is lost (Disk/IOFile.cpp:196-200);
- `BufferClip`: a buffer of the smallest capacity, 16, is clipped, and then destroyed; what
  is left, 8 bytes here, is a power of two, and `Free` takes it for a size that `Alloc` gives
  (Memory/Buffer.cpp:58).  `BufferPool::computeIndex` gives 100 to 103 for 1, 2, 4 and 8
  (Memory/BufferPool.cpp:71-83), beyond the 28 buckets of the pool (Memory/BufferPool.h:50):
  what the write there does is out of the model.  It needs a program which has installed
  the pool: the `free()` of the `Allocator` by default deletes the chunk.  `resize()` gives the
  clipped bytes back with the rest, so only the destructor is concerned.  A larger chunk clipped
  down to a capacity of the pool goes to the bucket of that one, which wastes its other bytes
  only; `BufferIsSequence` holds that nothing else goes wrong with what is given back.

Other behaviours of the code limit what a property can say.  The models have
them, unless "left out" is said, and the properties name the condition under which
they hold.

Threads and time:

- a task which raises an exception ends the worker without the lock; a task
  queued meanwhile waits for the next `queue()` (`Calm`, in `NoStranded`, `Drained`
  and `EveryTaskRuns`);
- `stop()` uses `_thread` without the mutex declared to protect it (Threading/Thread.cpp:190,
  Thread.h:79): of two concurrent calls one raises `std::system_error` (`JoinFails`);
- `Handler::queue` raises an error in the producer's thread when the handler is closed
  (Threading/Handler.h:71), where its comment has it return false;
- a callback which sets another timer due at the same time as its own gets the fatal
  error of a timer used on two machines (Timing/Timer.cpp:76), and one which arms its own
  timer with `set` and returns a timeout too leaves it in two buckets
  (Timing/Timer.cpp:93; `Regular`, in `Indexed` and `WaitIsExact`).

Disk:

- `IOFile::join` does not see a decoding queued after the join of its pool by an IO thread
  which stops by itself before it is looked at (Disk/IOFile.cpp:103; `lapsed`, in
  `JoinWaitsForAll`);
- `remove(path)` clears all paths, and `clear()` assigns a null pointer to a string, which
  ends the process (Disk/PersistentData.h:44-52); an entry added while another one fails is
  stranded (Disk/PersistentData.cpp:55); a write which fails is followed by the deletion of
  the former value (:98); a value written over itself is truncated first, and a crash then
  loses the only copy (:95); a load with transactions enabled may delete a file which the
  thread is writing (:172): `faults`, in the properties of `PersistentData`;
- `FileWatcher` compares dates in seconds: a change in the very second of a first look is
  never announced (`blurred`); a listed file deleted before its `stat` may be announced
  twice as deleted, and a watcher by name announces a missing file at its first look.

Net:

- an EPOLLRDHUP with data still to read sets `_reading` to its maximum, and they are never
  read (Net/IOSocket.cpp:668; the properties of `TCPClient` excuse ended links);
- a datagram refused by the system in a flush is dropped but stays in `_queueing`, so that
  `onFlush` is never called again (Net/Socket.cpp:544; `lost`);
- `onFlush` may come after `onReceived`, for a `Send` goes to any thread of the pool, whatever
  the comment at Net/IOSocket.cpp:674 says;
- the pipe `_eventFD` is not closed on its writing side at the end of the polling thread, and
  what it still held is never freed (left out: memory only);
- a failure of `accept()` leaves the connections behind it until another one arrives
  (`behind`), and the server may have one connection more than its backlog;
- a handshake which waits for room goes on with the next packet or reception only: the
  writable edge finds `_sending` false (Net/IOSocket.cpp:404);
- `SSL_write` is tried again from another copy of the packet (Net/Socket.cpp:508, left out).

Values:

- `setMonth()` and `setYear()` do not clamp the day, and `setWeekDay()` is wrong near the
  ends of a month (Timing/Date.cpp:291-327); `yearDay()` is off (Timing/Date.cpp:429, left out);
- with two loggers which fail at the same line, `flush()` takes the front of the list and
  pops its back (Logs/Logs.cpp:102-109, left out); a death of the process in a rotation costs
  one file;
- `packet = packet + 1` and `packet.set(packet.buffer())` use a box after its deletion (left
  out; Memory/Packet.h:207-219), and the memory of the program is supposed to outlive the
  packets which point to it;
- `Parameters::erase(key)` of the last key is told by no event (`untold`), and the range of
  a prefix which ends in "Z" or "@" is wrong (left out);
- `XMLParser::reset(state)` keeps a pending inner text (`stale`); a `reset()` in
  `onStartXMLElement` of `<x/>` pops the tags of the new state (Format/XMLParser.cpp:366, left
  out); CDATA which ends in `]]]>` loses its end (left out); `onEndXMLDocument`, which only tells
  how `parse()` ends, and the refusal of a `parse()` inside a callback are left out too.

## What is not modelled

The repository has 44,469 lines of implementation, of which the vendored
`nlohmann/json.hpp` makes 24,765 and the library itself 19,704: the map covers 15% of the
latter.  The rest is, for the most part, code without a state of its own:

- `Math`, `SRT` and the contexts of `TLS` drive external libraries; `DNS`, `HostEntry`,
  `Net`, `Process`, `FileSystem` and the options of `Socket` are calls of the system.
- `Application` and `ServerApplication`: command line, registration of a service, start-up.
- `String`, `URL`, `Value`, `BinaryReader`, `BinaryWriter`, `BitReader`, `Path`, `IPAddress`,
  `SocketAddress`, the parsing and formatting of `Date`, the tables of `Timezone`: conversions
  of texts and bytes, for which unit tests do better than a model.
- The variants of `IOSocket` for Windows and BSD, and its decoders; `Proxy`, `UDPSocket` beyond
  `Socket::write`; `IOSRTSocket`, built on demand only.
- `Event`, `InsertionMap`, `Congestion`, `ByteRate`: small sequential helpers.

In the modules:

- Memory orders: accesses to atomics and plain members are sequentially consistent.
- The lack of resources to create a thread, priorities and names of threads.
- The attributes and the contents of files, and what `erase` does to an open file.
- `PersistentData`: the folders of the paths.
- `Logs`: fatal loggers, whose failure ends the process.
- `TCPClient`: calls on a socket which has been released, and a callback which disconnects
  and returns a rest, against the contract of `onData`.
- 32-bit sizes, and the wrap of `_reading` (8 bits), which no bound reaches.

## The plan

Done, in this order: threads with their proofs, memory and time, disk, net, and the parts
which stand alone.  What is left:

`Proxy` over `UDPSocket` and `Socket::connect`, `Timezone`'s rules over `Date`, `Event`,
`InsertionMap`, `BitReader`.
