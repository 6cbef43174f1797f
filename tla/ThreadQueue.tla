----------------------------- MODULE ThreadQueue -----------------------------
(***************************************************************************)
(* Mona::ThreadQueue (Mona/Threading/ThreadQueue.h, ThreadQueue.cpp) with  *)
(* the part of Mona::Thread (Thread.h, Thread.cpp) it is built from: a     *)
(* worker thread started by the first queue(), which drains the deque      *)
(* _runners batch by batch and stops by itself after two idle minutes, or  *)
(* when a stop has been requested; the next queue() joins the old thread   *)
(* and starts a new one.                                                   *)
(*                                                                         *)
(* Three kinds of threads interleave: the Queuers call queue(), the        *)
(* Stoppers call stop() (ThreadPool::join, ~ThreadQueue, a server shutting *)
(* down), and the worker runs Thread::process().  The members _stop,       *)
(* _requestStop and _thread are not protected by one lock, so the code     *)
(* between two accesses to them is split into actions.  The critical       *)
(* section of the worker (ThreadQueue.cpp:35-42) is one action: all what   *)
(* it touches but _requestStop is only touched under _mutex, or by itself. *)
(* Thread::_mutex is only taken by start(), itself called with             *)
(* ThreadQueue::_mutex held: it is never contended and has no variable.    *)
(* wakeUp is an auto-reset Signal, used through the atomic set, reset and  *)
(* wait that the module Signal shows it to implement.                      *)
(***************************************************************************)
EXTENDS Naturals, Sequences

CONSTANTS
  Queuers,   \* the threads which call queue()
  Stoppers,  \* the threads which call stop()
  Runners,   \* the tasks; each one is queued once
  Throwing,  \* the tasks whose run() may raise an exception
  None       \* no thread, no task

ASSUME ThreadQueueAssumption ==
  /\ Queuers \cap Stoppers = {}
  /\ None \notin Queuers \cup Stoppers \cup Runners
  /\ Throwing \subseteq Runners

VARIABLES
  pc,           \* where each queuer and stopper is
  arg,          \* the task each queuer is queueing
  mutex,        \* the queuer which holds ThreadQueue::_mutex, or None
  runners,      \* _runners
  signal,       \* wakeUp._set
  stopped,      \* _stop
  requestStop,  \* _requestStop
  joinable,     \* _thread.joinable()
  joiner,       \* the thread inside _thread.join(), or None
  worker,       \* where the worker thread is
  timeout,      \* the worker's local variable timeout
  batch,        \* the worker's local deque: the tasks still to run of it
  done,         \* history: the tasks run, in order
  lost,         \* history: the tasks destroyed with their batch by an exception
  before        \* history: the tasks in the queue when each stopper called stop()

callerVars == <<pc, arg, mutex>>
threadVars == <<stopped, requestStop, joinable, joiner>>
historyVars == <<done, lost, before>>
vars == <<pc, arg, mutex, runners, signal, stopped, requestStop, joinable,
          joiner, worker, timeout, batch, done, lost, before>>

QueuerPC == {"idle", "start", "joinable", "join", "joining", "reset",
             "clearStop", "clearRequest", "spawn", "emplace", "wake", "failed"}
StopperPC == {"idle", "joinable", "wake", "join", "joining", "returned", "failed"}
WorkerPC == {"none", "wait", "check", "run", "exit", "finished"}

Members(s) == {s[i] : i \in DOMAIN s}

Known == Members(done) \cup lost \cup Members(batch) \cup Members(runners)

Init ==
  /\ pc = [p \in Queuers \cup Stoppers |-> "idle"]
  /\ arg = [q \in Queuers |-> None]
  /\ mutex = None
  /\ runners = <<>>
  /\ signal = FALSE
  /\ stopped = TRUE
  /\ requestStop = FALSE
  /\ joinable = FALSE
  /\ joiner = None
  /\ worker = "none"
  /\ timeout = FALSE
  /\ batch = <<>>
  /\ done = <<>>
  /\ lost = {}
  /\ before = [s \in Stoppers |-> {}]

Goto(p, from, to) ==
  /\ pc[p] = from
  /\ pc' = [pc EXCEPT ![p] = to]

(***************************************************************************)
(* _thread.join(), called by p.  It raises std::system_error when _thread  *)
(* is not joinable (any more), or when another thread is already joining   *)
(* it; else p waits for the end of the worker.                             *)
(***************************************************************************)
JoinFails == ~joinable \/ joiner # None

BeginJoin(p) ==
  /\ ~JoinFails
  /\ Goto(p, "join", "joining")
  /\ joiner' = p
  /\ UNCHANGED <<stopped, requestStop, joinable, worker>>

EndJoin(p, to) ==
  /\ worker = "finished"
  /\ Goto(p, "joining", to)
  /\ joinable' = FALSE
  /\ joiner' = None
  /\ worker' = "none"
  /\ UNCHANGED <<stopped, requestStop>>

-----------------------------------------------------------------------------
(* queue(r), by the thread q: ThreadQueue.h:33-39 and Thread.cpp:168-180.  *)

QLock(q, r) ==
  /\ mutex = None
  /\ r \notin Known
  /\ Goto(q, "idle", "start")
  /\ mutex' = q
  /\ arg' = [arg EXCEPT ![q] = r]
  /\ UNCHANGED <<runners, signal, threadVars, worker, timeout, batch, historyVars>>

QStart(q) ==
  /\ Goto(q, "start", IF stopped THEN "joinable" ELSE "emplace")
  /\ UNCHANGED <<arg, mutex, runners, signal, threadVars, worker, timeout, batch, historyVars>>

QJoinable(q) ==
  /\ Goto(q, "joinable", IF joinable THEN "join" ELSE "reset")
  /\ UNCHANGED <<arg, mutex, runners, signal, threadVars, worker, timeout, batch, historyVars>>

QJoin(q) ==
  /\ BeginJoin(q)
  /\ UNCHANGED <<arg, mutex, runners, signal, timeout, batch, historyVars>>

\* The exception of join() leaves queue(): its lock is released, r is not queued.
QJoinFails(q) ==
  /\ JoinFails
  /\ Goto(q, "join", "failed")
  /\ mutex' = None
  /\ arg' = [arg EXCEPT ![q] = None]
  /\ UNCHANGED <<runners, signal, threadVars, worker, timeout, batch, historyVars>>

QJoined(q) ==
  /\ EndJoin(q, "reset")
  /\ UNCHANGED <<arg, mutex, runners, signal, timeout, batch, historyVars>>

QReset(q) ==
  /\ Goto(q, "reset", "clearStop")
  /\ signal' = FALSE
  /\ UNCHANGED <<arg, mutex, runners, threadVars, worker, timeout, batch, historyVars>>

QClearStop(q) ==
  /\ Goto(q, "clearStop", "clearRequest")
  /\ stopped' = FALSE
  /\ UNCHANGED <<arg, mutex, runners, signal, requestStop, joinable, joiner, worker, timeout, batch, historyVars>>

QClearRequest(q) ==
  /\ Goto(q, "clearRequest", "spawn")
  /\ requestStop' = FALSE
  /\ UNCHANGED <<arg, mutex, runners, signal, stopped, joinable, joiner, worker, timeout, batch, historyVars>>

QSpawn(q) ==
  /\ Goto(q, "spawn", "emplace")
  /\ joinable' = TRUE
  /\ worker' = "wait"
  /\ UNCHANGED <<arg, mutex, runners, signal, stopped, requestStop, joiner, timeout, batch, historyVars>>

QEmplace(q) ==
  /\ Goto(q, "emplace", "wake")
  /\ runners' = Append(runners, arg[q])
  /\ UNCHANGED <<arg, mutex, signal, threadVars, worker, timeout, batch, historyVars>>

\* wakeUp.set(), and the release of the lock at the end of queue().
QWake(q) ==
  /\ Goto(q, "wake", "idle")
  /\ signal' = TRUE
  /\ mutex' = None
  /\ arg' = [arg EXCEPT ![q] = None]
  /\ UNCHANGED <<runners, threadVars, worker, timeout, batch, historyVars>>

-----------------------------------------------------------------------------
(* stop(), by the thread s, another one than the worker: Thread.cpp:182-195. *)

SRequest(s) ==
  /\ Goto(s, "idle", "joinable")
  /\ requestStop' = TRUE
  /\ before' = [before EXCEPT ![s] = Known]
  /\ UNCHANGED <<arg, mutex, runners, signal, stopped, joinable, joiner, worker, timeout, batch, done, lost>>

SJoinable(s) ==
  /\ Goto(s, "joinable", IF joinable THEN "wake" ELSE "returned")
  /\ UNCHANGED <<arg, mutex, runners, signal, threadVars, worker, timeout, batch, historyVars>>

SWake(s) ==
  /\ Goto(s, "wake", "join")
  /\ signal' = TRUE
  /\ UNCHANGED <<arg, mutex, runners, threadVars, worker, timeout, batch, historyVars>>

SJoin(s) ==
  /\ BeginJoin(s)
  /\ UNCHANGED <<arg, mutex, runners, signal, timeout, batch, historyVars>>

SJoinFails(s) ==
  /\ JoinFails
  /\ Goto(s, "join", "failed")
  /\ UNCHANGED <<arg, mutex, runners, signal, threadVars, worker, timeout, batch, historyVars>>

SJoined(s) ==
  /\ EndJoin(s, "returned")
  /\ UNCHANGED <<arg, mutex, runners, signal, timeout, batch, historyVars>>

\* The caller of stop() may call it again later.
SAgain(s) ==
  /\ Goto(s, "returned", "idle")
  /\ before' = [before EXCEPT ![s] = {}]
  /\ UNCHANGED <<arg, mutex, runners, signal, threadVars, worker, timeout, batch, done, lost>>

-----------------------------------------------------------------------------
(* The worker: ThreadQueue::run inside Thread::process.                    *)

\* wakeUp.wait(120000) returns true, and resets the signal.
WWoken ==
  /\ worker = "wait"
  /\ signal
  /\ signal' = FALSE
  /\ timeout' = FALSE
  /\ worker' = "check"
  /\ UNCHANGED <<callerVars, runners, threadVars, batch, historyVars>>

\* wakeUp.wait(120000) returns false: two minutes without a set().
WTimeout ==
  /\ worker = "wait"
  /\ ~signal
  /\ timeout' = TRUE
  /\ worker' = "check"
  /\ UNCHANGED <<callerVars, runners, signal, threadVars, batch, historyVars>>

\* Mutant of WTake: _runners is copied instead of moved.
WTakeCopies ==
  /\ worker = "check"
  /\ mutex = None
  /\ runners # <<>>
  /\ batch' = runners
  /\ worker' = "run"
  /\ UNCHANGED <<callerVars, runners, signal, threadVars, timeout, historyVars>>

WTake ==
  /\ worker = "check"
  /\ mutex = None
  /\ runners # <<>>
  /\ batch' = runners
  /\ runners' = <<>>
  /\ worker' = "run"
  /\ UNCHANGED <<callerVars, signal, threadVars, timeout, historyVars>>

\* Mutant of WWaitMore: the thread never stops by itself.
WWaitForever ==
  /\ worker = "check"
  /\ mutex = None
  /\ runners = <<>>
  /\ ~requestStop
  /\ worker' = "wait"
  /\ UNCHANGED <<callerVars, runners, signal, threadVars, timeout, batch, historyVars>>

WWaitMore ==
  /\ worker = "check"
  /\ mutex = None
  /\ runners = <<>>
  /\ ~timeout /\ ~requestStop
  /\ worker' = "wait"
  /\ UNCHANGED <<callerVars, runners, signal, threadVars, timeout, batch, historyVars>>

\* Mutant of WStop: _stop is left to the end of process(), out of the lock.
WStopLate ==
  /\ worker = "check"
  /\ mutex = None
  /\ runners = <<>>
  /\ timeout \/ requestStop
  /\ requestStop' = TRUE
  /\ worker' = "exit"
  /\ UNCHANGED <<callerVars, runners, signal, stopped, joinable, joiner, timeout, batch, historyVars>>

\* Mutant of WStop: a stop is obeyed before the queue is empty.
WStopUndrained ==
  /\ worker = "check"
  /\ mutex = None
  /\ timeout \/ requestStop
  /\ requestStop' = TRUE
  /\ stopped' = TRUE
  /\ worker' = "exit"
  /\ UNCHANGED <<callerVars, runners, signal, joinable, joiner, timeout, batch, historyVars>>

\* stop() by the worker itself, still under the lock: _stop is set at once.
WStop ==
  /\ worker = "check"
  /\ mutex = None
  /\ runners = <<>>
  /\ timeout \/ requestStop
  /\ requestStop' = TRUE
  /\ stopped' = TRUE
  /\ worker' = "exit"
  /\ UNCHANGED <<callerVars, runners, signal, joinable, joiner, timeout, batch, historyVars>>

\* The running task queues another one: start() returns at once, _Me == this.
WQueue(r) ==
  /\ worker = "run"
  /\ mutex = None
  /\ r \notin Known /\ r \notin {arg[q] : q \in Queuers}
  /\ runners' = Append(runners, r)
  /\ signal' = TRUE
  /\ UNCHANGED <<callerVars, threadVars, worker, timeout, batch, historyVars>>

WRun ==
  /\ worker = "run"
  /\ done' = Append(done, Head(batch))
  /\ batch' = Tail(batch)
  /\ worker' = IF Tail(batch) = <<>> THEN "check" ELSE "run"
  /\ UNCHANGED <<callerVars, runners, signal, threadVars, timeout, lost, before>>

\* The exception goes through run(), which destroys the batch, to process().
WRaise ==
  /\ worker = "run"
  /\ Head(batch) \in Throwing
  /\ done' = Append(done, Head(batch))
  /\ lost' = lost \cup Members(Tail(batch))
  /\ batch' = <<>>
  /\ worker' = "exit"
  /\ UNCHANGED <<callerVars, runners, signal, threadVars, timeout, before>>

\* The end of process(), which sets _stop (again): without any lock.
WExit ==
  /\ worker = "exit"
  /\ stopped' = TRUE
  /\ worker' = "finished"
  /\ UNCHANGED <<callerVars, runners, signal, requestStop, joinable, joiner, timeout, batch, historyVars>>

-----------------------------------------------------------------------------

Queuer(q) ==
  \/ \E r \in Runners : QLock(q, r)
  \/ QStart(q) \/ QJoinable(q) \/ QJoin(q) \/ QJoinFails(q) \/ QJoined(q)
  \/ QReset(q) \/ QClearStop(q) \/ QClearRequest(q) \/ QSpawn(q)
  \/ QEmplace(q) \/ QWake(q)

StopperStep(s) ==
  \/ SJoinable(s) \/ SWake(s) \/ SJoin(s) \/ SJoinFails(s) \/ SJoined(s)

Stopper(s) == SRequest(s) \/ StopperStep(s) \/ SAgain(s)

WorkerStep == WWoken \/ WTake \/ WWaitMore \/ WStop \/ WRun \/ WRaise \/ WExit

Worker ==
  \/ WorkerStep
  \/ WTimeout
  \/ \E r \in Runners : WQueue(r)

Next ==
  \/ \E q \in Queuers : Queuer(q)
  \/ \E s \in Stoppers : Stopper(s)
  \/ Worker

Spec == Init /\ [][Next]_vars

(***************************************************************************)
(* Fairness: the system schedules its threads.  A call which has begun     *)
(* goes on (nothing obliges anyone to call queue() or stop()), the worker  *)
(* goes on, and a wait of two minutes without a signal ends.               *)
(***************************************************************************)
Fairness ==
  /\ \A q \in Queuers : WF_vars(Queuer(q) /\ pc[q] # "idle")
  /\ \A s \in Stoppers : WF_vars(StopperStep(s))
  /\ WF_vars(WorkerStep)

FairSpec == Spec /\ Fairness /\ WF_vars(WTimeout)
-----------------------------------------------------------------------------
(* Correctness *)

\* Every variable has its type, and the lock belongs to the queuer inside queue().
TypeOK ==
  /\ pc \in [Queuers \cup Stoppers -> QueuerPC \cup StopperPC]
  /\ \A q \in Queuers : pc[q] \in QueuerPC
  /\ \A s \in Stoppers : pc[s] \in StopperPC
  /\ arg \in [Queuers -> Runners \cup {None}]
  /\ mutex \in Queuers \cup {None}
  /\ runners \in Seq(Runners) /\ batch \in Seq(Runners) /\ done \in Seq(Runners)
  /\ signal \in BOOLEAN /\ stopped \in BOOLEAN /\ requestStop \in BOOLEAN
  /\ joinable \in BOOLEAN /\ timeout \in BOOLEAN
  /\ joiner \in Queuers \cup Stoppers \cup {None}
  /\ worker \in WorkerPC
  /\ lost \subseteq Runners
  /\ before \in [Stoppers -> SUBSET Runners]

\* No task which may raise an exception has run yet.
Calm == Members(done) \cap Throwing = {}

\* No lost wake-up: once queue() has set the signal, a task in _runners is seen
\* by a worker which is draining the queue, or which the signal will wake up.
\* (ThreadQueue.h:35-38 against ThreadQueue.cpp:31-41; before any exception.)
NoStranded ==
  Calm /\ runners # <<>> /\ (\A q \in Queuers : pc[q] # "wake") =>
    \/ worker \in {"check", "run"}
    \/ worker = "wait" /\ signal

\* queue() joins the old worker with the lock held: it may only wait for a
\* worker which will not take that lock any more (comment of Thread.cpp:186).
JoinSafe ==
  \A q \in Queuers : pc[q] = "joining" => worker \in {"exit", "finished"}

\* A thread is only started when the former one is gone and joined: two workers
\* never share the queue, and _thread is never assigned while joinable.
SingleWorker ==
  \A q \in Queuers : pc[q] = "spawn" => worker = "none" /\ ~joinable

\* running() tells the truth: when _stop is false and no start() is under way,
\* the worker exists, however the former one ended (Thread.cpp:149-160).
RunningIsAlive ==
  ~stopped /\ (\A q \in Queuers : pc[q] \notin {"clearRequest", "spawn"}) =>
    worker \in {"wait", "check", "run", "exit"}

\* stop() drains: when it returns, what was queued before it was called has run,
\* whatever the other threads queue, start or stop meanwhile (before any exception).
Drained ==
  Calm => \A s \in Stoppers : pc[s] = "returned" => before[s] \subseteq Members(done)

\* The tasks run in the order in which they were queued, once, one at a time,
\* and are only lost behind a task which raises an exception.
RQ == INSTANCE RunQueue WITH pending <- batch \o runners

ImplementsRunQueue == RQ!Spec

\* A task which queue() has accepted eventually runs, unless an exception comes.
EveryTaskRuns ==
  \A r \in Runners : r \in Members(runners) ~> r \in Members(done) \/ ~Calm

\* A call of stop() eventually returns, if need be by the timeout of the worker
\* (a start() under way may clear the request of the stopper).
StopReturns ==
  \A s \in Stoppers : pc[s] = "joinable" ~> pc[s] \in {"returned", "failed"}

=============================================================================
