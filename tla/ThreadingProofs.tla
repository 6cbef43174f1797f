--------------------------- MODULE ThreadingProofs ---------------------------
(***************************************************************************)
(* Theorems about the threads: ThreadQueue, for any number of threads and  *)
(* of tasks, then Signal, for any number of waiters, and the two pools of  *)
(* IOFileJoin, for any number of threads and of files.                     *)
(*                                                                         *)
(* ThreadQueue: the inductive invariant IInv says who may be where: the    *)
(* lock belongs to the queuer inside queue(), _stop is only true when the  *)
(* worker is gone or leaves, a thread exists as long as _thread is         *)
(* joinable, and a join has one joiner.  JoinSafe, SingleWorker and        *)
(* RunningIsAlive follow from it whatever the tasks raise.  As long as no  *)
(* task has raised an exception, the worker only leaves through WStop,     *)
(* with the lock: QuietInv adds that a queuer which is about to add its    *)
(* task has a worker in front of it, and NoStranded follows.               *)
(* Then ThreadQueue implements RunQueue, and stop() drains the queue: both *)
(* rest on the set Known of the tasks which queue() has added, wherever    *)
(* they are by now: it only grows, by the task which is added.             *)
(***************************************************************************)
EXTENDS ThreadQueue, Signal, IOFileJoin, SequenceTheorems, TLAPS

\* The queuers inside queue() have the lock, and a task to add.
LockInv ==
  \A q \in Queuers :
    pc[q] \notin {"idle", "failed"} => mutex = q /\ arg[q] \in Runners

\* The worker has begun to leave when _stop is true, and start() goes on only then.
StopInv ==
  /\ stopped => worker \in {"none", "exit", "finished"}
  /\ \A q \in Queuers :
       /\ pc[q] \in {"joinable", "join", "joining", "reset", "clearStop"} => stopped
       /\ pc[q] \in {"clearRequest", "spawn"} => ~stopped

\* _thread is joinable as long as there is a thread, which start() has joined.
ThreadInv ==
  /\ joinable <=> worker # "none"
  /\ \A q \in Queuers :
       pc[q] \in {"reset", "clearStop", "clearRequest", "spawn"} => ~joinable

\* One thread at a time joins.
JoinInv ==
  /\ \A p \in Queuers \cup Stoppers : pc[p] = "joining" => joiner = p
  /\ joiner # None => joinable

\* The worker runs tasks when it has some.
BatchInv == worker = "run" <=> batch # <<>>

IInv ==
  /\ TypeOK
  /\ LockInv /\ StopInv /\ ThreadInv /\ JoinInv /\ BatchInv
  /\ RunningIsAlive

\* The conclusion of NoStranded.
Seen ==
  runners # <<>> /\ (\A q \in Queuers : pc[q] # "wake") =>
    \/ worker \in {"check", "run"}
    \/ worker = "wait" /\ signal

\* Before any exception: a worker which leaves has set _stop, under the lock.
QuietInv ==
  /\ worker = "exit" => stopped
  /\ \A q \in Queuers : pc[q] \in {"emplace", "wake"} => ~stopped
  /\ Seen

CalmInv == Calm => QuietInv

-----------------------------------------------------------------------------
(* IInv is inductive. *)

\* Nobody is in queue() or stop(), and there is no worker.
LEMMA IInvInit == Init => IInv
<1> SUFFICES ASSUME Init PROVE IInv
  OBVIOUS
<1> USE DEF Init
<1>1. pc \in [Queuers \cup Stoppers -> QueuerPC \cup StopperPC]
  BY DEF QueuerPC, StopperPC
<1>2. /\ arg \in [Queuers -> Runners \cup {None}]
      /\ before \in [Stoppers -> SUBSET Runners]
  OBVIOUS
<1>3. runners \in Seq(Runners) /\ batch \in Seq(Runners) /\ done \in Seq(Runners)
  OBVIOUS
<1>4. TypeOK
  BY <1>1, <1>2, <1>3 DEF TypeOK, QueuerPC, StopperPC, WorkerPC
<1>5. LockInv /\ StopInv /\ ThreadInv /\ JoinInv /\ BatchInv /\ RunningIsAlive
  BY DEF LockInv, StopInv, ThreadInv, JoinInv, BatchInv, RunningIsAlive
<1> QED
  BY <1>4, <1>5 DEF IInv

\* The steps of queue().
LEMMA IInvQueuer ==
  ASSUME IInv, NEW q \in Queuers, Queuer(q)
  PROVE  IInv'
<1> USE ThreadQueueAssumption DEF IInv, TypeOK, LockInv, StopInv, ThreadInv, JoinInv, BatchInv,
        RunningIsAlive, QueuerPC, StopperPC, WorkerPC, Goto, threadVars, callerVars, historyVars
<1>1. ASSUME NEW r \in Runners, QLock(q, r) PROVE IInv'
  BY <1>1 DEF QLock
<1>2. CASE QStart(q)
  BY <1>2 DEF QStart
<1>3. CASE QJoinable(q)
  BY <1>3 DEF QJoinable
<1>4. CASE QJoin(q)
  BY <1>4 DEF QJoin, BeginJoin, JoinFails
<1>5. CASE QJoinFails(q)
  BY <1>5 DEF QJoinFails, JoinFails
<1>6. CASE QJoined(q)
  BY <1>6 DEF QJoined, EndJoin
<1>7. CASE QReset(q)
  BY <1>7 DEF QReset
<1>8. CASE QClearStop(q)
  <2>1. /\ pc[q] = "clearStop" /\ pc' = [pc EXCEPT ![q] = "clearRequest"]
        /\ stopped' = FALSE
        /\ UNCHANGED <<arg, mutex, runners, signal, requestStop, joiner, joinable, worker,
                       timeout, batch, historyVars>>
    BY <1>8 DEF QClearStop
  <2>2. TypeOK'
    BY <2>1
  <2>3. LockInv' /\ StopInv'
    BY <2>1
  <2>4. ThreadInv' /\ JoinInv'
    BY <2>1
  <2>5. BatchInv' /\ RunningIsAlive'
    BY <2>1
  <2> QED BY ONLY <2>2, <2>3, <2>4, <2>5 DEF IInv
<1>9. CASE QClearRequest(q)
  BY <1>9 DEF QClearRequest
<1>10. CASE QSpawn(q)
  BY <1>10 DEF QSpawn
<1>11. CASE QEmplace(q)
  <2>1. /\ pc[q] = "emplace" /\ pc' = [pc EXCEPT ![q] = "wake"]
        /\ runners' = Append(runners, arg[q])
        /\ UNCHANGED <<arg, mutex, signal, threadVars, worker, timeout, batch, historyVars>>
    BY <1>11 DEF QEmplace
  <2>2. runners' \in Seq(Runners)
    <3>1. runners \in Seq(Runners) /\ arg[q] \in Runners
      BY <2>1
    <3> QED BY ONLY <2>1, <3>1
  <2>3. TypeOK'
    BY <2>1, <2>2
  <2>4. LockInv' /\ StopInv'
    BY <2>1
  <2>5. ThreadInv' /\ JoinInv'
    BY <2>1
  <2>6. BatchInv' /\ RunningIsAlive'
    BY <2>1
  <2> QED BY ONLY <2>3, <2>4, <2>5, <2>6 DEF IInv
<1>12. CASE QWake(q)
  BY <1>12 DEF QWake
<1> QED
  BY <1>1, <1>2, <1>3, <1>4, <1>5, <1>6, <1>7, <1>8, <1>9, <1>10, <1>11, <1>12 DEF Queuer

\* The steps of stop().
LEMMA IInvStopper ==
  ASSUME IInv, NEW s \in Stoppers, Stopper(s)
  PROVE  IInv'
<1> USE ThreadQueueAssumption DEF IInv, TypeOK, LockInv, StopInv, ThreadInv, JoinInv, BatchInv,
        RunningIsAlive, QueuerPC, StopperPC, WorkerPC, Goto, threadVars, callerVars, historyVars
<1>1. CASE SRequest(s)
  BY <1>1 DEF SRequest, Known, Members
<1>2. CASE SJoinable(s)
  BY <1>2 DEF SJoinable
<1>3. CASE SWake(s)
  BY <1>3 DEF SWake
<1>4. CASE SJoin(s)
  BY <1>4 DEF SJoin, BeginJoin, JoinFails
<1>5. CASE SJoinFails(s)
  BY <1>5 DEF SJoinFails, JoinFails
<1>6. CASE SJoined(s)
  BY <1>6 DEF SJoined, EndJoin
<1>7. CASE SAgain(s)
  BY <1>7 DEF SAgain
<1> QED
  BY <1>1, <1>2, <1>3, <1>4, <1>5, <1>6, <1>7 DEF Stopper, StopperStep

\* The steps of the worker.
LEMMA IInvWorker ==
  ASSUME IInv, Worker
  PROVE  IInv'
<1> USE ThreadQueueAssumption DEF IInv, TypeOK, LockInv, StopInv, ThreadInv, JoinInv, BatchInv,
        RunningIsAlive, QueuerPC, StopperPC, WorkerPC, Goto, threadVars, callerVars, historyVars
<1>1. ASSUME NEW r \in Runners, WQueue(r) PROVE IInv'
  BY <1>1 DEF WQueue
<1>2. CASE WWoken
  BY <1>2 DEF WWoken
<1>3. CASE WTimeout
  BY <1>3 DEF WTimeout
<1>4. CASE WTake
  BY <1>4 DEF WTake
<1>5. CASE WWaitMore
  BY <1>5 DEF WWaitMore
<1>6. CASE WStop
  BY <1>6 DEF WStop
<1>7. CASE WRun
  BY <1>7 DEF WRun
<1>8. CASE WRaise
  BY <1>8 DEF WRaise, Members
<1>9. CASE WExit
  BY <1>9 DEF WExit
<1> QED
  BY <1>1, <1>2, <1>3, <1>4, <1>5, <1>6, <1>7, <1>8, <1>9 DEF Worker, WorkerStep

\* IInv holds in every state, however queue(), stop() and the worker interleave.
THEOREM Inductive == Spec => []IInv
<1>1. IInv /\ [Next]_vars => IInv'
  <2> SUFFICES ASSUME IInv, [Next]_vars PROVE IInv'
    OBVIOUS
  <2>1. CASE \E q \in Queuers : Queuer(q)
    BY <2>1, IInvQueuer
  <2>2. CASE \E s \in Stoppers : Stopper(s)
    BY <2>2, IInvStopper
  <2>3. CASE Worker
    BY <2>3, IInvWorker
  <2>4. CASE UNCHANGED vars
    BY <2>4 DEF vars, IInv, TypeOK, LockInv, StopInv, ThreadInv, JoinInv, BatchInv,
                RunningIsAlive
  <2> QED
    BY <2>1, <2>2, <2>3, <2>4 DEF Next
<1> QED
  BY IInvInit, <1>1, PTL DEF Spec

-----------------------------------------------------------------------------
(* What follows from IInv, whatever the tasks raise. *)

\* Every variable keeps its type: above all, what queue() adds is a task, and
\* the worker never takes the head of an empty batch.
THEOREM TypeCorrect == Spec => []TypeOK
<1>1. IInv => TypeOK
  BY DEF IInv
<1> QED
  BY Inductive, <1>1, PTL

\* queue() never waits, with the lock, for a worker which may want this lock.
THEOREM JoinNeverBlocks == Spec => []JoinSafe
<1>1. IInv => JoinSafe
  BY ThreadQueueAssumption
     DEF IInv, TypeOK, StopInv, ThreadInv, JoinInv, JoinSafe
<1> QED
  BY Inductive, <1>1, PTL

\* A worker is only started when there is none.
THEOREM OneWorker == Spec => []SingleWorker
<1>1. IInv => SingleWorker
  BY DEF IInv, ThreadInv, SingleWorker
<1> QED
  BY Inductive, <1>1, PTL

\* _stop is only false when a worker runs, or is about to be started.
THEOREM RunningIsTrue == Spec => []RunningIsAlive
<1>1. IInv => RunningIsAlive
  BY DEF IInv
<1> QED
  BY Inductive, <1>1, PTL

-----------------------------------------------------------------------------
(* Before any exception, no task is stranded. *)

\* The steps of queue() keep QuietInv.
LEMMA QuietQueuer ==
  ASSUME IInv, QuietInv, NEW q \in Queuers, Queuer(q)
  PROVE  QuietInv'
<1> USE ThreadQueueAssumption
    DEF IInv, TypeOK, LockInv, StopInv, ThreadInv, JoinInv, QuietInv, Seen,
        RunningIsAlive, QueuerPC, WorkerPC, Goto, threadVars, historyVars
<1>1. ASSUME NEW r \in Runners, QLock(q, r) PROVE QuietInv'
  BY <1>1 DEF QLock
<1>2. CASE QStart(q)
  BY <1>2 DEF QStart
<1>3. CASE QJoinable(q)
  BY <1>3 DEF QJoinable
<1>4. CASE QJoin(q)
  BY <1>4 DEF QJoin, BeginJoin, JoinFails
<1>5. CASE QJoinFails(q)
  BY <1>5 DEF QJoinFails, JoinFails
<1>6. CASE QJoined(q)
  BY <1>6 DEF QJoined, EndJoin
<1>7. CASE QReset(q)
  BY <1>7 DEF QReset
<1>8. CASE QClearStop(q)
  BY <1>8 DEF QClearStop
<1>9. CASE QClearRequest(q)
  BY <1>9 DEF QClearRequest
<1>10. CASE QSpawn(q)
  BY <1>10 DEF QSpawn
<1>11. CASE QEmplace(q)
  BY <1>11 DEF QEmplace
<1>12. CASE QWake(q)
  BY <1>12 DEF QWake
<1> QED
  BY <1>1, <1>2, <1>3, <1>4, <1>5, <1>6, <1>7, <1>8, <1>9, <1>10, <1>11, <1>12 DEF Queuer

\* The steps of stop() keep QuietInv.
LEMMA QuietStopper ==
  ASSUME IInv, QuietInv, NEW s \in Stoppers, Stopper(s)
  PROVE  QuietInv'
<1> USE ThreadQueueAssumption
    DEF IInv, TypeOK, LockInv, StopInv, ThreadInv, JoinInv, QuietInv, Seen,
        RunningIsAlive, StopperPC, WorkerPC, Goto, threadVars, historyVars
<1>1. CASE SRequest(s)
  BY <1>1 DEF SRequest
<1>2. CASE SJoinable(s)
  BY <1>2 DEF SJoinable
<1>3. CASE SWake(s)
  BY <1>3 DEF SWake
<1>4. CASE SJoin(s)
  BY <1>4 DEF SJoin, BeginJoin, JoinFails
<1>5. CASE SJoinFails(s)
  BY <1>5 DEF SJoinFails, JoinFails
<1>6. CASE SJoined(s)
  BY <1>6 DEF SJoined, EndJoin
<1>7. CASE SAgain(s)
  BY <1>7 DEF SAgain
<1> QED
  BY <1>1, <1>2, <1>3, <1>4, <1>5, <1>6, <1>7 DEF Stopper, StopperStep

\* The steps of the worker keep QuietInv, but an exception.
LEMMA QuietWorker ==
  ASSUME IInv, QuietInv, Worker, ~WRaise
  PROVE  QuietInv'
<1> USE ThreadQueueAssumption
    DEF IInv, TypeOK, LockInv, StopInv, ThreadInv, QuietInv, Seen, BatchInv,
        RunningIsAlive, WorkerPC, callerVars, threadVars, historyVars
<1>1. CASE WWoken
  BY <1>1 DEF WWoken
<1>2. CASE WTimeout
  BY <1>2 DEF WTimeout
<1>3. CASE WTake
  BY <1>3 DEF WTake
<1>4. CASE WWaitMore
  BY <1>4 DEF WWaitMore
<1>5. CASE WStop
  BY <1>5 DEF WStop
<1>6. ASSUME NEW r \in Runners, WQueue(r) PROVE QuietInv'
  BY <1>6 DEF WQueue
<1>7. CASE WRun
  BY <1>7 DEF WRun
<1>8. CASE WExit
  BY <1>8 DEF WExit
<1> QED
  BY <1>1, <1>2, <1>3, <1>4, <1>5, <1>6, <1>7, <1>8 DEF Worker, WorkerStep

\* The empty sequence has no member.
LEMMA MembersEmpty == Members(<<>>) = {}
BY DEF Members

\* Append adds one member.
LEMMA MembersAppend ==
  ASSUME NEW S, NEW s \in Seq(S), NEW x \in S
  PROVE  Members(Append(s, x)) = Members(s) \cup {x}
<1>1. DOMAIN Append(s, x) = 1 .. Len(s) + 1 /\ DOMAIN s = 1 .. Len(s)
  OBVIOUS
<1>2. \A i \in 1 .. Len(s) : Append(s, x)[i] = s[i]
  OBVIOUS
<1>3. Append(s, x)[Len(s) + 1] = x
  OBVIOUS
<1> QED
  BY <1>1, <1>2, <1>3 DEF Members

\* Only WRun and WRaise change done.
LEMMA DoneChanges ==
  ASSUME [Next]_vars, ~WRun, ~WRaise
  PROVE  done' = done
<1>1. ASSUME NEW q \in Queuers, Queuer(q) PROVE done' = done
  BY <1>1 DEF Queuer, QLock, QStart, QJoinable, QJoin, QJoinFails, QJoined,
              QReset, QClearStop, QClearRequest, QSpawn, QEmplace, QWake, historyVars
<1>2. ASSUME NEW s \in Stoppers, Stopper(s) PROVE done' = done
  BY <1>2 DEF Stopper, StopperStep, SRequest, SJoinable, SWake, SJoin, SJoinFails,
              SJoined, SAgain, historyVars
<1>3. CASE Worker
  BY <1>3 DEF Worker, WorkerStep, WWoken, WTimeout, WTake, WWaitMore, WStop, WQueue,
              WExit, historyVars
<1>4. CASE UNCHANGED vars
  BY <1>4 DEF vars
<1> QED
  BY <1>1, <1>2, <1>3, <1>4 DEF Next

\* It is calm until an exception, and never again after it.
LEMMA CalmBefore ==
  ASSUME IInv, [Next]_vars, Calm'
  PROVE  Calm /\ ~WRaise
<1>1. CASE WRun \/ WRaise
  <2>1. done \in Seq(Runners) /\ batch \in Seq(Runners) /\ batch # <<>>
    BY <1>1 DEF IInv, TypeOK, BatchInv, WRun, WRaise
  <2>2. Head(batch) \in Runners /\ done' = Append(done, Head(batch))
    BY <1>1, <2>1 DEF WRun, WRaise
  <2>3. Members(done') = Members(done) \cup {Head(batch)}
    BY <2>1, <2>2, MembersAppend
  <2>4. Members(done)' = Members(done')
    BY DEF Members
  <2>5. Calm /\ Head(batch) \notin Throwing
    BY <2>3, <2>4 DEF Calm
  <2> QED
    BY <2>5 DEF WRaise
<1>2. CASE ~WRun /\ ~WRaise
  BY <1>2, DoneChanges DEF Calm, Members
<1> QED
  BY <1>1, <1>2

\* CalmInv holds in every state.
LEMMA CalmHolds == Spec => []CalmInv
<1>1. Init => CalmInv
  BY DEF Init, CalmInv, QuietInv, Seen
<1>2. IInv /\ CalmInv /\ [Next]_vars => CalmInv'
  <2> SUFFICES ASSUME IInv, CalmInv, [Next]_vars, Calm' PROVE QuietInv'
    BY DEF CalmInv
  <2>1. QuietInv /\ ~WRaise
    BY CalmBefore DEF CalmInv
  <2>2. CASE \E q \in Queuers : Queuer(q)
    BY <2>1, <2>2, QuietQueuer
  <2>3. CASE \E s \in Stoppers : Stopper(s)
    BY <2>1, <2>3, QuietStopper
  <2>4. CASE Worker
    BY <2>1, <2>4, QuietWorker
  <2>5. CASE UNCHANGED vars
    BY <2>1, <2>5 DEF vars, QuietInv, Seen
  <2> QED
    BY <2>2, <2>3, <2>4, <2>5 DEF Next
<1> QED
  BY <1>1, <1>2, Inductive, PTL DEF Spec

\* No lost wake-up: until a task raises an exception, a task in the queue has a
\* worker which drains it, or the signal which will wake this worker up.
THEOREM NothingStranded == Spec => []NoStranded
<1>1. CalmInv => NoStranded
  BY DEF CalmInv, QuietInv, Seen, NoStranded
<1> QED
  BY <1>1, CalmHolds, PTL

-----------------------------------------------------------------------------
(* Facts about the members of sequences. *)

\* A sequence which is not empty is its head and its tail.
LEMMA MembersTail ==
  ASSUME NEW S, NEW s \in Seq(S), s # <<>>
  PROVE  Members(s) = {Head(s)} \cup Members(Tail(s))
<1>1. DOMAIN s = 1 .. Len(s) /\ DOMAIN Tail(s) = 1 .. Len(s) - 1 /\ Len(s) \in Nat \ {0}
  OBVIOUS
<1>2. \A i \in 1 .. Len(s) - 1 : Tail(s)[i] = s[i + 1]
  OBVIOUS
<1>3. Head(s) = s[1]
  OBVIOUS
<1>4. ASSUME NEW i \in 2 .. Len(s) PROVE s[i] \in Members(Tail(s))
  <2>1. i - 1 \in DOMAIN Tail(s) /\ Tail(s)[i - 1] = s[i]
    BY <1>1, <1>2
  <2> QED
    BY <2>1 DEF Members
<1> QED
  BY <1>1, <1>2, <1>3, <1>4 DEF Members

\* A concatenation has the members of both sequences.
LEMMA MembersConcat ==
  ASSUME NEW S, NEW s \in Seq(S), NEW t \in Seq(S)
  PROVE  Members(s \o t) = Members(s) \cup Members(t)
<1>1. /\ DOMAIN (s \o t) = 1 .. Len(s) + Len(t)
      /\ DOMAIN s = 1 .. Len(s) /\ DOMAIN t = 1 .. Len(t)
      /\ Len(s) \in Nat /\ Len(t) \in Nat
  OBVIOUS
<1>2. /\ \A i \in 1 .. Len(s) : (s \o t)[i] = s[i]
      /\ \A i \in 1 .. Len(t) : (s \o t)[Len(s) + i] = t[i]
  OBVIOUS
<1>3. Members(s \o t) \subseteq Members(s) \cup Members(t)
  <2> SUFFICES ASSUME NEW i \in 1 .. Len(s) + Len(t)
               PROVE  (s \o t)[i] \in Members(s) \cup Members(t)
    BY <1>1 DEF Members
  <2>1. CASE i <= Len(s)
    BY <1>1, <1>2, <2>1 DEF Members
  <2>2. CASE ~(i <= Len(s))
    <3>1. i - Len(s) \in 1 .. Len(t) /\ (s \o t)[i] = t[i - Len(s)]
      BY <1>1, <1>2, <2>2
    <3> QED
      BY <1>1, <3>1 DEF Members
  <2> QED
    BY <2>1, <2>2
<1>4. \A i \in 1 .. Len(s) : s[i] \in Members(s \o t)
  BY <1>1, <1>2 DEF Members
<1>5. ASSUME NEW i \in 1 .. Len(t) PROVE t[i] \in Members(s \o t)
  <2>1. Len(s) + i \in 1 .. Len(s) + Len(t)
    BY <1>1
  <2> QED
    BY <1>1, <1>2, <2>1 DEF Members
<1> QED
  BY <1>1, <1>3, <1>4, <1>5 DEF Members

-----------------------------------------------------------------------------
(* The tasks queued. *)

\* The task which a queuer is about to add has not been queued before.
NewInv ==
  \A q \in Queuers : pc[q] \notin {"idle", "failed", "wake"} => arg[q] \notin Known

\* A task queued becomes a task known.
LEMMA KnownEmplace ==
  ASSUME TypeOK, NEW r \in Runners, runners' = Append(runners, r),
         UNCHANGED <<batch, done, lost>>
  PROVE  Known' = Known \cup {r}
<1>1. Members(runners') = Members(runners) \cup {r}
  BY MembersAppend DEF TypeOK
<1>2. Members(runners)' = Members(runners') /\ Members(batch)' = Members(batch)
      /\ Members(done)' = Members(done)
  BY DEF Members
<1> QED
  BY <1>1, <1>2 DEF Known

\* What leaves the queue, the batch and the histories alone leaves Known alone.
LEMMA KnownStable ==
  ASSUME UNCHANGED <<runners, batch, done, lost>>
  PROVE  Known' = Known
BY DEF Known, Members

\* The batch taken by the worker (ThreadQueue.cpp:42) stays known.
LEMMA KnownTake ==
  ASSUME IInv, WTake
  PROVE  Known' = Known
<1>1. batch = <<>>
  BY DEF IInv, BatchInv, WTake
<1>2. Members(batch') = Members(runners) /\ Members(runners') = {} /\ Members(batch) = {}
  BY <1>1, MembersEmpty DEF WTake
<1>3. Members(runners)' = Members(runners') /\ Members(batch)' = Members(batch')
      /\ Members(done)' = Members(done) /\ lost' = lost
  BY DEF Members, WTake, historyVars
<1> QED
  BY <1>2, <1>3 DEF Known

\* A task which runs stays known.
LEMMA KnownRun ==
  ASSUME IInv, WRun
  PROVE  Known' = Known
<1>1. batch # <<>> /\ batch \in Seq(Runners) /\ done \in Seq(Runners)
  BY DEF IInv, TypeOK, BatchInv, WRun
<1>2. Members(batch) = {Head(batch)} \cup Members(batch')
  BY <1>1, MembersTail DEF WRun
<1>3. Head(batch) \in Runners
  BY <1>1
<1>4. Members(done') = Members(done) \cup {Head(batch)}
  BY <1>1, <1>3, MembersAppend DEF WRun
<1>5. Members(runners)' = Members(runners) /\ Members(batch)' = Members(batch')
      /\ Members(done)' = Members(done') /\ lost' = lost
  BY DEF Members, WRun
<1> QED
  BY <1>2, <1>4, <1>5 DEF Known

\* What an exception destroys stays known, as lost.
LEMMA KnownRaise ==
  ASSUME IInv, WRaise
  PROVE  Known' = Known
<1>1. batch # <<>> /\ batch \in Seq(Runners) /\ done \in Seq(Runners)
  BY DEF IInv, TypeOK, BatchInv, WRaise
<1>2. Members(batch) = {Head(batch)} \cup Members(Tail(batch))
  BY <1>1, MembersTail
<1>3. Head(batch) \in Runners
  BY <1>1
<1>4. Members(done') = Members(done) \cup {Head(batch)} /\ Members(batch') = {}
  BY <1>1, <1>3, MembersAppend, MembersEmpty DEF WRaise
<1>5. Members(runners)' = Members(runners) /\ Members(batch)' = Members(batch')
      /\ Members(done)' = Members(done') /\ lost' = lost \cup Members(Tail(batch))
  BY DEF Members, WRaise
<1> QED
  BY <1>2, <1>4, <1>5 DEF Known

\* NewInv is inductive with IInv.
LEMMA NewInvStep ==
  ASSUME IInv, NewInv, [Next]_vars
  PROVE  NewInv'
<1> USE ThreadQueueAssumption DEF IInv, TypeOK, LockInv, NewInv, Goto
<1>1. ASSUME NEW q \in Queuers, Queuer(q) PROVE NewInv'
  <2>1. ASSUME NEW r \in Runners, QLock(q, r) PROVE NewInv'
    BY <2>1, KnownStable DEF QLock, historyVars
  <2>2. CASE QStart(q)
    BY <2>2, KnownStable DEF QStart, historyVars
  <2>3. CASE QJoinable(q)
    BY <2>3, KnownStable DEF QJoinable, historyVars
  <2>4. CASE QJoin(q)
    BY <2>4, KnownStable DEF QJoin, BeginJoin, historyVars
  <2>5. CASE QJoinFails(q)
    BY <2>5, KnownStable DEF QJoinFails, historyVars
  <2>6. CASE QJoined(q)
    BY <2>6, KnownStable DEF QJoined, EndJoin, historyVars
  <2>7. CASE QReset(q)
    BY <2>7, KnownStable DEF QReset, historyVars
  <2>8. CASE QClearStop(q)
    BY <2>8, KnownStable DEF QClearStop, historyVars
  <2>9. CASE QClearRequest(q)
    BY <2>9, KnownStable DEF QClearRequest, historyVars
  <2>10. CASE QSpawn(q)
    BY <2>10, KnownStable DEF QSpawn, historyVars
  <2>11. CASE QEmplace(q)
    <3>1. Known' = Known \cup {arg[q]}
      BY <2>11, KnownEmplace DEF QEmplace, historyVars
    <3> QED
      BY <2>11, <3>1 DEF QEmplace
  <2>12. CASE QWake(q)
    BY <2>12, KnownStable DEF QWake, historyVars
  <2> QED
    BY <1>1, <2>1, <2>2, <2>3, <2>4, <2>5, <2>6, <2>7, <2>8, <2>9, <2>10, <2>11, <2>12
       DEF Queuer
<1>2. ASSUME NEW s \in Stoppers, Stopper(s) PROVE NewInv'
  <2>1. UNCHANGED <<runners, batch, done, lost, arg>>
    BY <1>2 DEF Stopper, StopperStep, SRequest, SJoinable, SWake, SJoin, BeginJoin,
                SJoinFails, SJoined, EndJoin, SAgain, historyVars
  <2>2. \A q \in Queuers : pc'[q] = pc[q]
    BY <1>2 DEF Stopper, StopperStep, SRequest, SJoinable, SWake, SJoin, BeginJoin,
                SJoinFails, SJoined, EndJoin, SAgain
  <2> QED
    BY <2>1, <2>2, KnownStable
<1>3. CASE Worker
  <2>1. pc' = pc /\ arg' = arg
    BY <1>3 DEF Worker, WorkerStep, WWoken, WTimeout, WTake, WWaitMore, WStop, WQueue,
                WRun, WRaise, WExit, callerVars
  <2>2. CASE WWoken \/ WTimeout \/ WWaitMore \/ WStop \/ WExit
    BY <2>1, <2>2, KnownStable DEF WWoken, WTimeout, WWaitMore, WStop, WExit, historyVars
  <2>3. CASE WTake
    BY <2>1, <2>3, KnownTake
  <2>4. CASE WRun
    BY <2>1, <2>4, KnownRun
  <2>5. CASE WRaise
    BY <2>1, <2>5, KnownRaise
  <2>6. ASSUME NEW r \in Runners, WQueue(r) PROVE NewInv'
    <3>1. Known' = Known \cup {r}
      BY <2>6, KnownEmplace DEF WQueue, historyVars
    <3> QED
      BY <2>1, <2>6, <3>1 DEF WQueue
  <2> QED
    BY <1>3, <2>2, <2>3, <2>4, <2>5, <2>6 DEF Worker, WorkerStep
<1>4. CASE UNCHANGED vars
  BY <1>4, KnownStable DEF vars
<1> QED
  BY <1>1, <1>2, <1>3, <1>4 DEF Next

\* A task on its way through queue() is not known yet, in every state.
LEMMA NewInvHolds == Spec => [](IInv /\ NewInv)
<1>1. Init => NewInv
  BY DEF Init, NewInv
<1>2. IInv /\ NewInv /\ [Next]_vars => NewInv'
  BY NewInvStep
<1> QED
  BY <1>1, <1>2, Inductive, PTL DEF Spec

-----------------------------------------------------------------------------
(* The refinement: what is pending is the batch, and then the deque. *)

pending == batch \o runners

\* What is pending of the abstract queue: the batch, then the queue.
LEMMA PendingType ==
  ASSUME TypeOK
  PROVE  pending \in Seq(Runners) /\ Members(pending) = Members(batch) \cup Members(runners)
BY MembersConcat DEF TypeOK, pending

\* The initial states map to the initial states.
LEMMA RefineInit == Init => RQ!Init
BY DEF Init, RQ!Init

\* Both ways to queue: by another thread, or by the task which runs.
LEMMA RefineQueue ==
  ASSUME TypeOK, NEW r \in Runners, r \notin Known,
         runners' = Append(runners, r), UNCHANGED <<batch, done, lost>>
  PROVE  RQ!Queue(r)
<1>1. r \notin RQ!Known
  BY PendingType DEF Known, RQ!Known, RQ!Members, Members, pending
<1>2. batch' \o runners' = Append(batch \o runners, r)
  BY DEF TypeOK
<1> QED
  BY <1>1, <1>2 DEF RQ!Queue

\* A task of the batch which runs is the oldest task pending.
LEMMA RefineRun ==
  ASSUME IInv, WRun
  PROVE  RQ!Run
<1>1. batch # <<>> /\ batch \in Seq(Runners) /\ runners \in Seq(Runners)
  BY DEF IInv, TypeOK, BatchInv, WRun
<1>2. /\ batch \o runners # <<>>
      /\ Head(batch \o runners) = Head(batch)
      /\ Tail(batch \o runners) = Tail(batch) \o runners
  BY <1>1
<1> QED
  BY <1>2 DEF WRun, RQ!Run

\* What is lost is the rest of the batch, which the exception destroys.
LEMMA RefineRaise ==
  ASSUME IInv, WRaise
  PROVE  RQ!Raise
<1> DEFINE n == Len(batch)
<1>1. batch # <<>> /\ batch \in Seq(Runners) /\ runners \in Seq(Runners)
  BY DEF IInv, TypeOK, BatchInv, WRaise
<1>2. /\ batch \o runners # <<>>
      /\ Head(batch \o runners) = Head(batch)
      /\ Len(batch \o runners) = n + Len(runners)
      /\ n \in 1 .. Len(batch \o runners)
  BY <1>1
<1>3. SubSeq(batch \o runners, n + 1, Len(batch \o runners)) = <<>> \o runners
  BY <1>1, <1>2
<1>4. SubSeq(batch \o runners, 2, n) = Tail(batch)
  BY <1>1
<1>5. /\ batch' \o runners' = SubSeq(batch \o runners, n + 1, Len(batch \o runners))
      /\ lost' = lost \cup RQ!Members(SubSeq(batch \o runners, 2, n))
  BY <1>3, <1>4 DEF WRaise, Members, RQ!Members
<1> QED
  BY <1>2, <1>5 DEF WRaise, RQ!Raise

\* A step which touches neither the tasks nor the histories maps to a stutter.
LEMMA RefineStutter ==
  ASSUME UNCHANGED <<runners, batch, done, lost>>
  PROVE  UNCHANGED RQ!vars
BY DEF RQ!vars

\* Every step maps to a step of RunQueue, or to a stutter.
LEMMA RefineStep ==
  ASSUME IInv, NewInv, [Next]_vars
  PROVE  [RQ!Next]_(RQ!vars)
<1>1. ASSUME NEW q \in Queuers, Queuer(q) PROVE [RQ!Next]_(RQ!vars)
  <2>1. CASE QEmplace(q)
    <3>1. arg[q] \in Runners /\ arg[q] \notin Known
      BY <2>1 DEF IInv, LockInv, NewInv, QEmplace, Goto
    <3> QED
      BY <2>1, <3>1, RefineQueue DEF IInv, QEmplace, historyVars, RQ!Next
  <2>2. CASE ~QEmplace(q)
    <3>1. UNCHANGED <<runners, batch, done, lost>>
      BY <1>1, <2>2 DEF Queuer, QLock, QStart, QJoinable, QJoin, QJoinFails, QJoined,
           QReset, QClearStop, QClearRequest, QSpawn, QWake, historyVars
    <3> QED
      BY <3>1, RefineStutter
  <2> QED
    BY <2>1, <2>2
<1>2. ASSUME NEW s \in Stoppers, Stopper(s) PROVE [RQ!Next]_(RQ!vars)
  <2>1. UNCHANGED <<runners, batch, done, lost>>
    BY <1>2 DEF Stopper, StopperStep, SRequest, SJoinable, SWake, SJoin, SJoinFails,
                SJoined, SAgain, historyVars
  <2> QED
    BY <2>1, RefineStutter
<1>3. CASE Worker
  <2>1. CASE WWoken \/ WTimeout \/ WWaitMore \/ WStop \/ WExit
    <3>1. UNCHANGED <<runners, batch, done, lost>>
      BY <2>1 DEF WWoken, WTimeout, WWaitMore, WStop, WExit, historyVars
    <3> QED
      BY <3>1, RefineStutter
  <2>2. CASE WTake
    <3>1. batch = <<>> /\ runners \in Seq(Runners)
      BY <2>2 DEF IInv, TypeOK, BatchInv, WTake
    <3>2. batch' \o runners' = batch \o runners
      BY <2>2, <3>1 DEF WTake
    <3> QED
      BY <2>2, <3>2 DEF WTake, historyVars, RQ!vars
  <2>3. CASE WRun
    BY <2>3, RefineRun DEF RQ!Next
  <2>4. CASE WRaise
    BY <2>4, RefineRaise DEF RQ!Next
  <2>5. ASSUME NEW r \in Runners, WQueue(r) PROVE [RQ!Next]_(RQ!vars)
    BY <2>5, RefineQueue DEF IInv, WQueue, historyVars, RQ!Next
  <2> QED
    BY <1>3, <2>1, <2>2, <2>3, <2>4, <2>5 DEF Worker, WorkerStep
<1>4. CASE UNCHANGED vars
  BY <1>4, RefineStutter DEF vars
<1> QED
  BY <1>1, <1>2, <1>3, <1>4 DEF Next

\* The tasks run in the order of queue(), once and one at a time, and are only
\* lost behind a task which raises an exception.
THEOREM QueueIsFifo == Spec => ImplementsRunQueue
<1>1. Init => RQ!Init
  BY RefineInit
<1>2. IInv /\ NewInv /\ [Next]_vars => [RQ!Next]_(RQ!vars)
  BY RefineStep
<1> QED
  BY <1>1, <1>2, NewInvHolds, PTL DEF Spec, ImplementsRunQueue, RQ!Spec

-----------------------------------------------------------------------------
(* stop() drains, before any exception. *)

DrainInv ==
  /\ Calm => lost = {}
  /\ \A s \in Stoppers : before[s] \subseteq Known
  /\ Drained

\* The set of the tasks queued grows, and so does what has run.
LEMMA KnownGrows ==
  ASSUME IInv, Next
  PROVE  Known \subseteq Known' /\ Members(done) \subseteq Members(done)'
<1>1. CASE UNCHANGED <<runners, batch, done, lost>>
  BY <1>1, KnownStable DEF Members
<1>2. ASSUME NEW q \in Queuers, QEmplace(q)
      PROVE  Known \subseteq Known' /\ Members(done) \subseteq Members(done)'
  <2>1. arg[q] \in Runners
    BY <1>2 DEF IInv, LockInv, QEmplace, Goto
  <2> QED
    BY <1>2, <2>1, KnownEmplace DEF IInv, QEmplace, historyVars, Members
<1>3. ASSUME NEW r \in Runners, WQueue(r)
      PROVE  Known \subseteq Known' /\ Members(done) \subseteq Members(done)'
  BY <1>3, KnownEmplace DEF IInv, WQueue, historyVars, Members
<1>4. CASE WTake
  BY <1>4, KnownTake DEF WTake, historyVars, Members
<1>5. ASSUME done' = Append(done, Head(batch)), batch # <<>>
      PROVE  Members(done) \subseteq Members(done)'
  <2>1. done \in Seq(Runners) /\ Head(batch) \in Runners
    BY <1>5 DEF IInv, TypeOK
  <2> QED
    BY <1>5, <2>1, MembersAppend DEF Members
<1>6. CASE WRun
  BY <1>5, <1>6, KnownRun DEF IInv, BatchInv, WRun
<1>7. CASE WRaise
  BY <1>5, <1>7, KnownRaise DEF IInv, BatchInv, WRaise
<1>8. ASSUME NEW q \in Queuers, Queuer(q), ~QEmplace(q)
      PROVE  UNCHANGED <<runners, batch, done, lost>>
  BY <1>8 DEF Queuer, QLock, QStart, QJoinable, QJoin, QJoinFails, QJoined,
              QReset, QClearStop, QClearRequest, QSpawn, QWake, historyVars
<1>9. ASSUME NEW s \in Stoppers, Stopper(s)
      PROVE  UNCHANGED <<runners, batch, done, lost>>
  BY <1>9 DEF Stopper, StopperStep, SRequest, SJoinable, SWake, SJoin, SJoinFails,
              SJoined, SAgain, historyVars
<1>10. ASSUME WWoken \/ WTimeout \/ WWaitMore \/ WStop \/ WExit
       PROVE  UNCHANGED <<runners, batch, done, lost>>
  BY <1>10 DEF WWoken, WTimeout, WWaitMore, WStop, WExit, historyVars
<1> QED
  BY <1>1, <1>2, <1>3, <1>4, <1>6, <1>7, <1>8, <1>9, <1>10 DEF Next, Worker, WorkerStep

\* A worker leaves an empty queue behind it.
LEMMA GoneIsEmpty ==
  ASSUME IInv, QuietInv, lost = {}, worker \in {"none", "finished"}
  PROVE  Known = Members(done)
<1>1. \A q \in Queuers : pc[q] # "wake"
  BY ThreadQueueAssumption
     DEF IInv, TypeOK, LockInv, RunningIsAlive, QuietInv
<1>2. runners = <<>>
  BY <1>1 DEF QuietInv, Seen
<1>3. batch = <<>>
  BY DEF IInv, BatchInv
<1> QED
  BY <1>2, <1>3, MembersEmpty DEF Known

\* No step lets a stop() return while a task queued before it is still to run.
LEMMA DrainStep ==
  ASSUME IInv, CalmInv, DrainInv, [Next]_vars
  PROVE  DrainInv'
<1> USE ThreadQueueAssumption DEF IInv, TypeOK, DrainInv, Drained, Goto
<1>1. Calm' => Calm /\ ~WRaise
  BY CalmBefore
<1>2. CASE UNCHANGED vars
  <2>1. UNCHANGED <<runners, batch, done, lost, before, pc>>
    BY <1>2 DEF vars
  <2> QED
    BY <2>1, KnownStable DEF Members, Calm
<1>3. ASSUME Next, UNCHANGED before, Calm' => lost' = lost,
             \A s \in Stoppers : pc'[s] = pc[s]
      PROVE  DrainInv'
  BY <1>1, <1>3, KnownGrows
<1>4. ASSUME NEW q \in Queuers, Queuer(q) PROVE DrainInv'
  <2>1. UNCHANGED <<before, lost>>
    BY <1>4 DEF Queuer, QLock, QStart, QJoinable, QJoin, QJoinFails, QJoined,
         QReset, QClearStop, QClearRequest, QSpawn, QEmplace, QWake, historyVars
  <2>2. \A s \in Stoppers : pc'[s] = pc[s]
    BY <1>4 DEF Queuer, QLock, QStart, QJoinable, QJoin, BeginJoin, QJoinFails, QJoined,
         EndJoin, QReset, QClearStop, QClearRequest, QSpawn, QEmplace, QWake
  <2> QED
    BY <1>3, <1>4, <2>1, <2>2 DEF Next
<1>5. ASSUME NEW s \in Stoppers, Stopper(s) PROVE DrainInv'
  <2>1. UNCHANGED <<runners, batch, done, lost>> /\ Known' = Known
    <3>1. UNCHANGED <<runners, batch, done, lost>>
      BY <1>5 DEF Stopper, StopperStep, SRequest, SJoinable, SWake, SJoin, SJoinFails,
                  SJoined, SAgain, historyVars
    <3> QED
      BY <3>1, KnownStable
  <2>2. Members(done)' = Members(done) /\ (Calm' <=> Calm)
    BY <2>1 DEF Members, Calm
  <2>3. CASE SRequest(s)
    BY <2>1, <2>2, <2>3 DEF SRequest
  <2>4. CASE SJoinable(s)
    <3>1. Calm /\ ~joinable => Known = Members(done)
      BY GoneIsEmpty DEF ThreadInv, CalmInv
    <3> QED
      BY <2>1, <2>2, <2>4, <3>1 DEF SJoinable, historyVars
  <2>5. CASE SJoined(s)
    <3>1. Calm => Known = Members(done)
      BY <2>5, GoneIsEmpty DEF SJoined, EndJoin, CalmInv
    <3> QED
      BY <2>1, <2>2, <2>5, <3>1 DEF SJoined, EndJoin, historyVars
  <2>6. CASE SWake(s) \/ SJoin(s) \/ SJoinFails(s)
    BY <2>1, <2>2, <2>6 DEF SWake, SJoin, BeginJoin, SJoinFails, historyVars
  <2>7. CASE SAgain(s)
    BY <2>1, <2>2, <2>7 DEF SAgain
  <2> QED
    BY <1>5, <2>3, <2>4, <2>5, <2>6, <2>7 DEF Stopper, StopperStep
<1>6. CASE Worker
  <2>1. UNCHANGED <<before, pc>>
    BY <1>6 DEF Worker, WorkerStep, WWoken, WTimeout, WTake, WWaitMore, WStop, WQueue,
                WRun, WRaise, WExit, callerVars, historyVars
  <2>2. ~WRaise => lost' = lost
    BY <1>6 DEF Worker, WorkerStep, WWoken, WTimeout, WTake, WWaitMore, WStop, WQueue,
                WRun, WExit, historyVars
  <2> QED
    BY <1>1, <1>3, <1>6, <2>1, <2>2 DEF Next
<1> QED
  BY <1>2, <1>4, <1>5, <1>6 DEF Next

\* When stop() returns, what was queued before it was called has run, whatever
\* the other threads queue, start or stop meanwhile, until a task raises.
THEOREM StopDrains == Spec => []Drained
<1>1. Init => DrainInv
  BY DEF Init, DrainInv, Drained
<1>2. IInv /\ CalmInv /\ DrainInv /\ [Next]_vars => DrainInv'
  BY DrainStep
<1>3. DrainInv => Drained
  BY DEF DrainInv
<1> QED
  BY <1>1, <1>2, <1>3, Inductive, CalmHolds, PTL DEF Spec
-----------------------------------------------------------------------------
(* Signal: what the other modules use of it, in the atomic steps of        *)
(* SignalSpec, is what its mutex and its condition variable give.          *)

\* Inside wait(), wherever the condition variable has the thread, a waiter waits.
Answer == [w \in Waiters |->
             IF wait[w] \in {"enter", "asleep", "awake", "expired"} THEN "waiting" ELSE wait[w]]

LEMMA SignalStarts == SignalInit => SignalTypeOK /\ Event!Init
BY DEF SignalInit, SignalTypeOK, WaitPC, Event!Init

\* A step of one waiter changes its own answer, or nothing.
LEMMA AnswerChanges ==
  ASSUME SignalTypeOK, NEW w \in Waiters, NEW pc1 \in WaitPC, wait' = [wait EXCEPT ![w] = pc1]
  PROVE  /\ wait' \in [Waiters -> WaitPC]
         /\ Answer' = [Answer EXCEPT ![w] = IF pc1 \in {"enter", "asleep", "awake", "expired"}
                                            THEN "waiting" ELSE pc1]
<1>1. wait \in [Waiters -> WaitPC]
  BY DEF SignalTypeOK
<1>2. wait' \in [Waiters -> WaitPC]
  BY ONLY <1>1, wait' = [wait EXCEPT ![w] = pc1], w \in Waiters, pc1 \in WaitPC
<1>3. wait'[w] = pc1 /\ \A v \in Waiters \ {w} : wait'[v] = wait[v]
  BY <1>1
<1> QED BY <1>2, <1>3 DEF Answer

\* Each step of a waiter is one of the event, or goes unnoticed.
LEMMA SignalWaiter ==
  ASSUME SignalTypeOK, NEW w \in Waiters,
         Wait(w) \/ Look(w) \/ Spurious(w) \/ TimeOut(w)
  PROVE  SignalTypeOK' /\ [Event!Next]_Event!vars
<1> USE DEF WaitPC
<1>1. autoReset \in BOOLEAN /\ set \in BOOLEAN /\ wait \in [Waiters -> WaitPC]
  BY DEF SignalTypeOK
<1>2. CASE Wait(w)
  <2>1. /\ wait[w] \in {"none", "true", "false"} /\ wait' = [wait EXCEPT ![w] = "enter"]
        /\ UNCHANGED <<autoReset, set>>
    BY <1>2 DEF Wait, Returned
  <2>2. wait' \in [Waiters -> WaitPC] /\ Answer' = [Answer EXCEPT ![w] = "waiting"]
    BY <2>1, AnswerChanges
  <2>3. Answer[w] # "waiting"
    BY <2>1 DEF Answer
  <2>4. Event!Call(w)
    BY <2>1, <2>2, <2>3 DEF Event!Call, Answer
  <2> QED BY <1>1, <2>1, <2>2, <2>4 DEF SignalTypeOK, Event!Next
<1>3. CASE Take(w)
  <2>1. /\ wait[w] \in {"enter", "awake", "expired"} /\ set
        /\ wait' = [wait EXCEPT ![w] = "true"] /\ set' = ~autoReset /\ autoReset' = autoReset
    BY <1>3 DEF Take
  <2>2. wait' \in [Waiters -> WaitPC] /\ Answer' = [Answer EXCEPT ![w] = "true"]
    BY <2>1, AnswerChanges
  <2>3. Answer[w] = "waiting"
    BY <2>1 DEF Answer
  <2>4. Event!Take(w)
    BY <2>1, <2>2, <2>3 DEF Event!Take, Answer
  <2> QED BY <1>1, <2>1, <2>2, <2>4 DEF SignalTypeOK, Event!Next
<1>4. CASE GiveUp(w)
  <2>1. /\ wait[w] = "expired" /\ ~set /\ wait' = [wait EXCEPT ![w] = "false"]
        /\ UNCHANGED <<autoReset, set>>
    BY <1>4 DEF GiveUp
  <2>2. wait' \in [Waiters -> WaitPC] /\ Answer' = [Answer EXCEPT ![w] = "false"]
    BY <2>1, AnswerChanges
  <2>3. Answer[w] = "waiting"
    BY <2>1 DEF Answer
  <2>4. Event!GiveUp(w)
    BY <2>1, <2>2, <2>3 DEF Event!GiveUp, Answer
  <2> QED BY <1>1, <2>1, <2>2, <2>4 DEF SignalTypeOK, Event!Next
<1>5. CASE Sleep(w) \/ Spurious(w) \/ TimeOut(w)
  <2>1. PICK pc1 \in {"asleep", "awake", "expired"} : wait' = [wait EXCEPT ![w] = pc1]
    BY <1>5 DEF Sleep, Spurious, TimeOut
  <2>2. wait[w] \in {"enter", "asleep", "awake"} /\ UNCHANGED <<autoReset, set>>
    BY <1>5 DEF Sleep, Spurious, TimeOut
  <2>3. wait' \in [Waiters -> WaitPC] /\ Answer' = [Answer EXCEPT ![w] = "waiting"]
    BY <2>1, AnswerChanges
  <2>4. Answer' = Answer
    BY <2>2, <2>3 DEF Answer
  <2> QED BY <1>1, <2>2, <2>3, <2>4 DEF SignalTypeOK, Event!vars, Answer
<1> QED BY <1>2, <1>3, <1>4, <1>5 DEF Look

\* notify_all wakes sleepers up, who go on waiting.
LEMMA SignalStep ==
  ASSUME SignalTypeOK, [SignalNext]_signalVars
  PROVE  SignalTypeOK' /\ [Event!Next]_Event!vars
<1>1. autoReset \in BOOLEAN /\ set \in BOOLEAN /\ wait \in [Waiters -> WaitPC]
  BY DEF SignalTypeOK
<1>2. CASE Set
  <2>1. /\ set' = TRUE /\ autoReset' = autoReset
        /\ wait' = [w \in Waiters |-> IF wait[w] = "asleep" THEN "awake" ELSE wait[w]]
    BY <1>2 DEF Set
  <2>2. wait' \in [Waiters -> WaitPC]
    BY <1>1, <2>1 DEF WaitPC
  <2>3. Answer' = Answer
    BY <2>1 DEF Answer
  <2>4. Event!Set
    BY <2>1, <2>3 DEF Event!Set, Answer
  <2> QED BY <1>1, <2>1, <2>2, <2>4 DEF SignalTypeOK, Event!Next
<1>3. CASE Reset
  <2>1. Event!Reset /\ SignalTypeOK'
    BY <1>1, <1>3 DEF Reset, SignalTypeOK, Event!Reset
  <2> QED BY <2>1 DEF Event!Next
<1>4. CASE \E w \in Waiters : Wait(w) \/ Look(w) \/ Spurious(w) \/ TimeOut(w)
  BY <1>4, SignalWaiter
<1>5. CASE UNCHANGED signalVars
  BY <1>1, <1>5 DEF signalVars, SignalTypeOK, Event!vars
<1> QED BY <1>2, <1>3, <1>4, <1>5 DEF SignalNext

\* Every variable of Signal has its type.
THEOREM SignalTypeCorrect == SignalBehaviour => []SignalTypeOK
BY SignalStarts, SignalStep, PTL DEF SignalBehaviour

\* The mutex and the condition variable of Signal make wait(), set() and reset() atomic:
\* each step under the mutex is one of the event of SignalSpec, or goes unnoticed.
THEOREM SignalIsAtomic == SignalBehaviour => ImplementsSignalSpec
<1>1. SignalInit => Event!Init
  BY SignalStarts
<1>2. SignalTypeOK /\ [SignalNext]_signalVars => [Event!Next]_Event!vars
  BY SignalStep
<1> QED BY <1>1, <1>2, SignalTypeCorrect, PTL DEF SignalBehaviour, Event!Spec, ImplementsSignalSpec
-----------------------------------------------------------------------------
(* ThreadPool: what its operations do to a pool of n threads.              *)

PoolType(n) == [current : 0 .. Wrap - 1, threads : Threads(n)]
ThreadType == [pending : Seq(Files), running : BOOLEAN, expired : BOOLEAN]

\* A thread which has something to do runs.
Busy(p, n) == \A i \in 1 .. n : p.threads[i].pending # <<>> => p.threads[i].running

\* What a thread has to do is of the files whose track leads to it.
Follows(p, track, n) ==
  \A i \in 1 .. n : \A k \in DOMAIN p.threads[i].pending : track[p.threads[i].pending[k]] = i

LEMMA PoolSize ==
  ASSUME NEW n \in Nat \ {0}, NEW p \in PoolType(n)
  PROVE  /\ Size(p) = n /\ p.threads \in [1 .. n -> ThreadType] /\ p.current \in 0 .. Wrap - 1
         /\ \A i \in 1 .. n : p.threads[i] \in ThreadType
<1>1. p.threads \in [1 .. n -> ThreadType] /\ p.current \in 0 .. Wrap - 1
  BY DEF PoolType, Threads, ThreadType
<1>2. Len(p.threads) = n
  BY ONLY <1>1, n \in Nat \ {0}
<1> QED BY <1>1, <1>2 DEF Size

\* Another state of the thread i.
Put(p, i, thread) == [current |-> p.current, threads |-> [p.threads EXCEPT ![i] = thread]]

LEMMA PoolPut ==
  ASSUME NEW n \in Nat \ {0}, NEW p \in PoolType(n), NEW i \in 1 .. n, NEW thread \in ThreadType
  PROVE  /\ Put(p, i, thread) \in PoolType(n) /\ Put(p, i, thread).threads[i] = thread
         /\ \A j \in 1 .. n \ {i} : Put(p, i, thread).threads[j] = p.threads[j]
<1>1. p.threads \in [1 .. n -> ThreadType] /\ p.current \in 0 .. Wrap - 1
  BY PoolSize
<1>2. [p.threads EXCEPT ![i] = thread] \in [1 .. n -> ThreadType]
  BY ONLY <1>1, thread \in ThreadType, i \in 1 .. n
<1> QED BY <1>1, <1>2 DEF Put, PoolType, Threads, ThreadType

LEMMA PoolExcept ==
  ASSUME NEW n, NEW p \in PoolType(n), NEW t
  PROVE  [p EXCEPT !.threads = t] = [current |-> p.current, threads |-> t]
BY DEF PoolType

\* A thread with other tasks, or whose wait has expired.
LEMMA ThreadExcept ==
  ASSUME NEW thread \in ThreadType
  PROVE  /\ \A tasks \in Seq(Files) : LET new == [thread EXCEPT !.pending = tasks] IN
              new \in ThreadType /\ new.pending = tasks /\ new.running = thread.running
         /\ LET new == [thread EXCEPT !.expired = TRUE] IN
              new \in ThreadType /\ new.pending = thread.pending /\ new.running = thread.running
BY DEF ThreadType

LEMMA PoolRan ==
  ASSUME NEW n \in Nat \ {0}, NEW p \in PoolType(n), NEW i \in 1 .. n, p.threads[i].pending # <<>>
  PROVE  /\ Ran(p, i) \in PoolType(n)
         /\ Ran(p, i).threads[i].pending = Tail(p.threads[i].pending)
         /\ Ran(p, i).threads[i].running = p.threads[i].running
         /\ \A j \in 1 .. n \ {i} : Ran(p, i).threads[j] = p.threads[j]
<1> DEFINE rest == Tail(p.threads[i].pending)
           new == [p.threads[i] EXCEPT !.pending = rest]
<1>1. p.threads[i] \in ThreadType
  BY PoolSize
<1>2. rest \in Seq(Files)
  <2>1. p.threads[i].pending \in Seq(Files)
    BY <1>1 DEF ThreadType
  <2> QED BY <2>1
<1>3. Ran(p, i) = [p EXCEPT !.threads = [p.threads EXCEPT ![i] = new]]
  BY DEF Ran
<1> HIDE DEF rest
<1>4. new \in ThreadType /\ new.pending = rest /\ new.running = p.threads[i].running
  BY <1>1, <1>2, ThreadExcept
<1> HIDE DEF new
<1>5. Ran(p, i) = Put(p, i, new)
  BY <1>3, PoolExcept DEF Put
<1> QED BY <1>4, <1>5, PoolPut DEF rest

LEMMA PoolExpire ==
  ASSUME NEW n \in Nat \ {0}, NEW p \in PoolType(n), NEW i \in 1 .. n
  PROVE  /\ Expire(p, i) \in PoolType(n)
         /\ Expire(p, i).threads[i].pending = p.threads[i].pending
         /\ Expire(p, i).threads[i].running = p.threads[i].running
         /\ \A j \in 1 .. n \ {i} : Expire(p, i).threads[j] = p.threads[j]
<1> DEFINE new == [p.threads[i] EXCEPT !.expired = TRUE]
<1>1. p.threads[i] \in ThreadType
  BY PoolSize
<1>2. Expire(p, i) = [p EXCEPT !.threads = [p.threads EXCEPT ![i] = new]]
  BY DEF Expire
<1>3. /\ new \in ThreadType /\ new.pending = p.threads[i].pending
      /\ new.running = p.threads[i].running
  BY <1>1, ThreadExcept
<1> HIDE DEF new
<1>4. Expire(p, i) = Put(p, i, new)
  BY <1>2, PoolExcept DEF Put
<1> QED BY <1>3, <1>4, PoolPut

LEMMA PoolStop ==
  ASSUME NEW n \in Nat \ {0}, NEW p \in PoolType(n), NEW i \in 1 .. n
  PROVE  /\ Stop(p, i) \in PoolType(n) /\ Stop(p, i).threads[i] = NewThread
         /\ \A j \in 1 .. n \ {i} : Stop(p, i).threads[j] = p.threads[j]
<1>1. NewThread \in ThreadType
  <2>1. <<>> \in Seq(Files)
    OBVIOUS
  <2> QED BY <2>1 DEF NewThread, ThreadType
<1>2. Stop(p, i) = [p EXCEPT !.threads = [p.threads EXCEPT ![i] = NewThread]]
  BY DEF Stop
<1>3. Stop(p, i) = Put(p, i, NewThread)
  BY <1>2, PoolExcept DEF Put
<1> QED BY <1>1, <1>3, PoolPut

\* A task comes at the end of a thread: the one of its track if it has a track.
LEMMA PoolQueue ==
  ASSUME NEW n \in Nat \ {0}, NEW p \in PoolType(n), NEW t \in 0 .. n, NEW f \in Files
  PROVE  LET i == TrackOf(p, t)
             q == Queue(p, t, f)
         IN  /\ i \in 1 .. n
             /\ t # 0 => i = t
             /\ q \in PoolType(n)
             /\ q.threads[i].pending = Append(p.threads[i].pending, f)
             /\ q.threads[i].running
             /\ \A j \in 1 .. n \ {i} : q.threads[j] = p.threads[j]
<1> USE ThreadPoolAssumption
<1> DEFINE i == TrackOf(p, t)
           q == Queue(p, t, f)
           thread == p.threads[i]
           new == [pending |-> Append(thread.pending, f), running |-> TRUE,
                   expired |-> thread.running /\ thread.expired]
<1>1. /\ Size(p) = n /\ p.threads \in [1 .. n -> ThreadType] /\ p.current \in 0 .. Wrap - 1
      /\ \A j \in 1 .. n : p.threads[j] \in ThreadType
  BY PoolSize
<1> HIDE DEF q, i
<1>2. i \in 1 .. n /\ (t # 0 => i = t)
  BY <1>1 DEF i, TrackOf
<1>3. thread \in ThreadType
  BY <1>1, <1>2
<1>4. new \in ThreadType
  <2> HIDE DEF thread
  <2> QED BY <1>3 DEF ThreadType
<1>5. q = [current |-> IF t # 0 THEN p.current ELSE (p.current + 1) % Wrap,
           threads |-> [p.threads EXCEPT ![i] = new]]
  BY DEF q, i, Queue
<1>6. q.current \in 0 .. Wrap - 1
  <2>1. p.current \in 0 .. Wrap - 1 /\ (p.current + 1) % Wrap \in 0 .. Wrap - 1
    BY <1>1
  <2> HIDE DEF new
  <2> QED BY <1>5, <2>1
<1> HIDE DEF thread
<1>7. new.pending = Append(thread.pending, f) /\ new.running
  OBVIOUS
<1> HIDE DEF new
<1>8. q.threads = [p.threads EXCEPT ![i] = new]
  BY <1>5
<1>9. q.threads \in [1 .. n -> ThreadType] /\ q.threads[i] = new
      /\ \A j \in 1 .. n \ {i} : q.threads[j] = p.threads[j]
  BY <1>1, <1>2, <1>4, <1>8
<1>10. q \in PoolType(n)
  BY <1>5, <1>6, <1>9 DEF PoolType, Threads, ThreadType
<1> QED BY <1>2, <1>7, <1>9, <1>10 DEF thread, i, q

LEMMA QueueFollows ==
  ASSUME NEW n \in Nat \ {0}, NEW p \in PoolType(n), NEW track \in [Files -> 0 .. n],
         NEW f \in Files, Busy(p, n), Follows(p, track, n)
  PROVE  LET q == Queue(p, track[f], f)
             next == [track EXCEPT ![f] = TrackOf(p, track[f])]
         IN  /\ q \in PoolType(n) /\ next \in [Files -> 0 .. n]
             /\ Busy(q, n) /\ Follows(q, next, n)
             /\ \A i \in 1 .. n : p.threads[i].running => q.threads[i].running
             /\ \E i \in 1 .. n : q.threads[i].running
<1> DEFINE t == track[f]
           i == TrackOf(p, t)
           q == Queue(p, t, f)
           next == [track EXCEPT ![f] = i]
<1>1. t \in 0 .. n
  OBVIOUS
<1> HIDE DEF t
<1>2. /\ i \in 1 .. n
      /\ t # 0 => i = t
      /\ q \in PoolType(n)
      /\ q.threads[i].pending = Append(p.threads[i].pending, f)
      /\ q.threads[i].running
      /\ \A j \in 1 .. n \ {i} : q.threads[j] = p.threads[j]
  BY ONLY n \in Nat \ {0}, p \in PoolType(n), f \in Files, <1>1, PoolQueue
<1> HIDE DEF i, q
<1>3. next \in [Files -> 0 .. n] /\ next[f] = i /\ \A g \in Files \ {f} : next[g] = track[g]
  BY <1>2
<1> HIDE DEF next
<1>4. Busy(q, n) /\ \A j \in 1 .. n : p.threads[j].running => q.threads[j].running
  BY <1>2 DEF Busy
<1>5. \A j \in 1 .. n : p.threads[j].pending \in Seq(Files)
  BY PoolSize DEF ThreadType
<1>6. ASSUME NEW j \in 1 .. n, NEW k \in DOMAIN p.threads[j].pending
      PROVE  next[p.threads[j].pending[k]] = j
  <2> DEFINE g == p.threads[j].pending[k]
  <2>1. g \in Files
    <3>1. p.threads[j].pending \in Seq(Files)
      BY <1>5
    <3> QED BY <3>1
  <2>2. track[g] = j /\ j # 0
    BY DEF Follows
  <2> HIDE DEF g
  <2>3. CASE g = f
    BY <1>2, <1>3, <2>2, <2>3 DEF g, t
  <2>4. CASE g # f
    BY <1>3, <2>1, <2>2, <2>4 DEF g
  <2> QED BY <2>3, <2>4
<1>7. Follows(q, next, n)
  <2> SUFFICES ASSUME NEW j \in 1 .. n, NEW k \in DOMAIN q.threads[j].pending
               PROVE  next[q.threads[j].pending[k]] = j
    BY DEF Follows
  <2>1. CASE j # i
    <3>1. q.threads[j] = p.threads[j]
      BY <1>2, <2>1
    <3> QED BY <1>6, <3>1
  <2>2. CASE j = i
    <3> DEFINE s == p.threads[j].pending
    <3>1. q.threads[j].pending = Append(s, f) /\ s \in Seq(Files)
      BY <1>2, <1>5, <2>2
    <3>2. \A m \in DOMAIN s : next[s[m]] = j
      BY <1>6
    <3>3. next[f] = j
      BY <1>3, <2>2
    <3> HIDE DEF s
    <3>4. \/ k \in DOMAIN s /\ Append(s, f)[k] = s[k]
          \/ Append(s, f)[k] = f
      BY <3>1
    <3> QED BY <3>1, <3>2, <3>3, <3>4
  <2> QED BY <2>1, <2>2
<1> QED BY <1>2, <1>3, <1>4, <1>7 DEF i, q, next, t

LEMMA RanFollows ==
  ASSUME NEW n \in Nat \ {0}, NEW p \in PoolType(n), NEW track, NEW i \in 1 .. n,
         p.threads[i].pending # <<>>, Busy(p, n), Follows(p, track, n)
  PROVE  /\ Ran(p, i) \in PoolType(n) /\ Busy(Ran(p, i), n) /\ Follows(Ran(p, i), track, n)
         /\ \A j \in 1 .. n : Ran(p, i).threads[j].running = p.threads[j].running
         /\ \A j \in 1 .. n : p.threads[j].pending = <<>> => Ran(p, i).threads[j].pending = <<>>
<1> DEFINE q == Ran(p, i)
           s == p.threads[i].pending
<1>1. /\ q \in PoolType(n) /\ q.threads[i].pending = Tail(s)
      /\ q.threads[i].running = p.threads[i].running
      /\ \A j \in 1 .. n \ {i} : q.threads[j] = p.threads[j]
  BY PoolRan
<1>2. s \in Seq(Files) /\ s # <<>>
  BY PoolSize DEF ThreadType
<1> HIDE DEF q
<1>3. Busy(q, n)
  BY <1>1 DEF Busy
<1>4. Follows(q, track, n)
  <2> SUFFICES ASSUME NEW j \in 1 .. n, NEW k \in DOMAIN q.threads[j].pending
               PROVE  track[q.threads[j].pending[k]] = j
    BY DEF Follows
  <2>1. CASE j # i
    BY <1>1, <2>1 DEF Follows
  <2>2. CASE j = i
    <3>1. \A m \in DOMAIN s : track[s[m]] = i
      BY DEF Follows
    <3> HIDE DEF s
    <3>2. k \in DOMAIN Tail(s)
      BY <1>1, <2>2
    <3>3. k + 1 \in DOMAIN s /\ Tail(s)[k] = s[k + 1]
      BY ONLY <1>2, <3>2
    <3> QED BY <1>1, <2>2, <3>1, <3>3
  <2> QED BY <2>1, <2>2
<1> QED BY <1>1, <1>2, <1>3, <1>4 DEF q

LEMMA StopFollows ==
  ASSUME NEW n \in Nat \ {0}, NEW p \in PoolType(n), NEW track, NEW i \in 1 .. n,
         Busy(p, n), Follows(p, track, n)
  PROVE  /\ Stop(p, i) \in PoolType(n) /\ Busy(Stop(p, i), n)
         /\ Follows(Stop(p, i), track, n)
         /\ Stop(p, i).threads[i].pending = <<>>
         /\ \A j \in 1 .. n \ {i} : Stop(p, i).threads[j] = p.threads[j]
<1>1. /\ Stop(p, i) \in PoolType(n) /\ Stop(p, i).threads[i] = NewThread
      /\ \A j \in 1 .. n \ {i} : Stop(p, i).threads[j] = p.threads[j]
  BY PoolStop
<1>2. NewThread.pending = <<>> /\ DOMAIN NewThread.pending = {}
  BY DEF NewThread
<1> QED BY <1>1, <1>2 DEF Busy, Follows

LEMMA ExpireFollows ==
  ASSUME NEW n \in Nat \ {0}, NEW p \in PoolType(n), NEW track, NEW i \in 1 .. n,
         Busy(p, n), Follows(p, track, n)
  PROVE  /\ Expire(p, i) \in PoolType(n) /\ Busy(Expire(p, i), n)
         /\ Follows(Expire(p, i), track, n)
         /\ \A j \in 1 .. n : /\ Expire(p, i).threads[j].pending = p.threads[j].pending
                              /\ Expire(p, i).threads[j].running = p.threads[j].running
<1> DEFINE q == Expire(p, i)
<1>1. /\ q \in PoolType(n)
      /\ \A j \in 1 .. n : /\ q.threads[j].pending = p.threads[j].pending
                           /\ q.threads[j].running = p.threads[j].running
  <2>1. /\ q \in PoolType(n)
        /\ q.threads[i].pending = p.threads[i].pending
        /\ q.threads[i].running = p.threads[i].running
        /\ \A j \in 1 .. n \ {i} : q.threads[j] = p.threads[j]
    BY PoolExpire
  <2> HIDE DEF q
  <2> QED BY <2>1
<1> HIDE DEF q
<1>2. Busy(q, n) /\ Follows(q, track, n)
  BY <1>1 DEF Busy, Follows
<1> QED BY <1>1, <1>2 DEF q

-----------------------------------------------------------------------------
(* IOFile::join over two pools.                                            *)

\* No thread of IOFile's pool runs.
Quiet == \A i \in 1 .. IOSize : ~io.threads[i].running
Free(i) == dec.threads[i].pending = <<>>

Pools ==
  /\ io \in PoolType(IOSize) /\ dec \in PoolType(DecSize)
  /\ ioTrack \in [Files -> 0 .. IOSize] /\ decTrack \in [Files -> 0 .. DecSize]
  /\ Busy(io, IOSize) /\ Busy(dec, DecSize)
  /\ Follows(io, ioTrack, IOSize) /\ Follows(dec, decTrack, DecSize)

\* Where join() is.
Walk ==
  /\ phase \in {"app", "dec", "io"} /\ at \in Nat /\ count \in Nat
  /\ stopping \in BOOLEAN /\ lapsed \in BOOLEAN
  /\ phase = "app" => at = 1 /\ count = 0
  /\ stopping => /\ phase # "app" /\ count > 0
                 /\ at <= IF phase = "dec" THEN DecSize ELSE IOSize

\* As long as no thread of IOFile's pool runs, the decodings that join() has waited for
\* stay done; a thread which runs would be found, since no one lapses.
Alone ==
  /\ phase = "dec" /\ ~lapsed /\ Quiet => \A i \in 1 .. DecSize : i < at => Free(i)
  /\ phase = "io" /\ ~lapsed /\ count = 0 =>
       /\ Quiet => \A i \in 1 .. DecSize : Free(i)
       /\ (\A i \in 1 .. IOSize : i >= at => ~io.threads[i].running) => Quiet

Wants == left \in [Files -> 0 .. Reads] /\ todo \in [Files -> 0 .. Calls]

IOJoinInv == Pools /\ Walk /\ Alone /\ Wants

LEMMA JoinStarts == IOInit => IOJoinInv
<1> SUFFICES ASSUME IOInit PROVE IOJoinInv
  OBVIOUS
<1> USE IOFileJoinAssumption, ThreadPoolAssumption
<1>1. ASSUME NEW n \in Nat \ {0}, NEW track
      PROVE  /\ NewPool(n) \in PoolType(n) /\ Busy(NewPool(n), n)
             /\ Follows(NewPool(n), track, n)
  <2>1. <<>> \in Seq(Files) /\ DOMAIN <<>> = {}
    OBVIOUS
  <2>2. NewThread \in ThreadType /\ NewThread.pending = <<>>
    BY <2>1 DEF NewThread, ThreadType
  <2>3. 0 \in 0 .. Wrap - 1
    OBVIOUS
  <2>4. NewPool(n) \in PoolType(n)
    BY <2>2, <2>3 DEF NewPool, PoolType, Threads, ThreadType
  <2>5. \A i \in 1 .. n : NewPool(n).threads[i] = NewThread
    BY DEF NewPool
  <2> QED BY <2>1, <2>2, <2>4, <2>5 DEF Busy, Follows
<1>2. Pools
  <2>1. /\ io = NewPool(IOSize) /\ dec = NewPool(DecSize)
        /\ ioTrack \in [Files -> 0 .. IOSize] /\ decTrack \in [Files -> 0 .. DecSize]
    BY DEF IOInit
  <2> QED BY <1>1, <2>1 DEF Pools
<1>3. Walk /\ Alone
  BY DEF IOInit, Walk, Alone
<1>4. Wants
  BY DEF IOInit, Wants
<1> QED BY <1>2, <1>3, <1>4 DEF IOJoinInv

\* The pools work while join() waits.
LEMMA AloneKept ==
  ASSUME Walk, Alone, UNCHANGED joinVars,
         \A i \in 1 .. IOSize : io.threads[i].running => io'.threads[i].running,
         Quiet' => \A i \in 1 .. DecSize : Free(i) => Free(i)',
         phase # "app" /\ Quiet /\ (\A i \in 1 .. DecSize : Free(i)) => Quiet'
  PROVE  Walk' /\ Alone'
<1>1. UNCHANGED <<phase, at, stopping, count, lapsed>>
  BY DEF joinVars
<1>2. Walk'
  BY <1>1 DEF Walk
<1>3. Quiet' => Quiet
  BY DEF Quiet
<1>4. CASE phase = "app"
  BY <1>1, <1>2, <1>4 DEF Alone, Free
<1>5. CASE phase = "dec"
  BY <1>1, <1>2, <1>3, <1>5 DEF Alone, Free
<1>6. CASE phase = "io"
  BY <1>1, <1>2, <1>3, <1>6 DEF Alone, Free
<1> QED BY <1>2, <1>4, <1>5, <1>6 DEF Walk

LEMMA JoinRead ==
  ASSUME IOJoinInv, NEW f \in Files, Read(f)
  PROVE  IOJoinInv'
<1> USE IOFileJoinAssumption, ThreadPoolAssumption
<1>1. /\ phase = "app" /\ todo[f] > 0 /\ todo' = [todo EXCEPT ![f] = @ - 1]
      /\ io' = Queue(io, ioTrack[f], f)
      /\ ioTrack' = [ioTrack EXCEPT ![f] = TrackOf(io, ioTrack[f])]
      /\ UNCHANGED <<dec, decTrack, left, phase, at, stopping, count, lapsed>>
  BY DEF Read, QueueIO, joinVars
<1>2. Pools'
  BY <1>1, QueueFollows DEF IOJoinInv, Pools
<1>3. Walk' /\ Alone'
  BY <1>1 DEF IOJoinInv, Walk, Alone
<1>4. Wants'
  BY <1>1 DEF IOJoinInv, Wants
<1> QED BY <1>2, <1>3, <1>4 DEF IOJoinInv

LEMMA JoinRunRead ==
  ASSUME IOJoinInv, NEW i \in 1 .. IOSize, RunRead(i)
  PROVE  IOJoinInv'
<1> USE IOFileJoinAssumption, ThreadPoolAssumption
<1> DEFINE f == Head(io.threads[i].pending)
<1>1. /\ io.threads[i].pending # <<>> /\ io' = Ran(io, i)
      /\ dec' = Queue(dec, decTrack[f], f)
      /\ decTrack' = [decTrack EXCEPT ![f] = TrackOf(dec, decTrack[f])]
      /\ UNCHANGED <<ioTrack, left, todo>> /\ UNCHANGED joinVars
  BY DEF RunRead
<1>2. f \in Files
  <2>1. io.threads[i] \in ThreadType
    BY PoolSize DEF IOJoinInv, Pools
  <2>2. io.threads[i].pending \in Seq(Files) /\ io.threads[i].pending # <<>>
    BY <1>1, <2>1 DEF ThreadType
  <2> QED BY ONLY <2>2
<1> HIDE DEF f
<1>3. /\ io' \in PoolType(IOSize) /\ Busy(io', IOSize) /\ Follows(io', ioTrack', IOSize)
      /\ \A j \in 1 .. IOSize : io'.threads[j].running = io.threads[j].running
  <2>1. io \in PoolType(IOSize) /\ Busy(io, IOSize) /\ Follows(io, ioTrack, IOSize)
    BY DEF IOJoinInv, Pools
  <2> QED BY <1>1, <2>1, RanFollows
<1>4. /\ dec' \in PoolType(DecSize) /\ decTrack' \in [Files -> 0 .. DecSize]
      /\ Busy(dec', DecSize) /\ Follows(dec', decTrack', DecSize)
  BY <1>1, <1>2, QueueFollows DEF IOJoinInv, Pools
<1>5. Pools'
  BY <1>1, <1>3, <1>4 DEF IOJoinInv, Pools
<1>6. ~Quiet /\ ~Quiet'
  BY <1>1, <1>3 DEF IOJoinInv, Pools, Busy, Quiet
<1>7. Walk' /\ Alone'
  BY <1>1, <1>3, <1>6, AloneKept DEF IOJoinInv
<1> QED BY <1>1, <1>5, <1>7 DEF IOJoinInv, Wants

LEMMA JoinRunDecode ==
  ASSUME IOJoinInv, NEW i \in 1 .. DecSize, RunDecode(i)
  PROVE  IOJoinInv'
<1> USE IOFileJoinAssumption, ThreadPoolAssumption
<1> DEFINE f == Head(dec.threads[i].pending)
<1>1. /\ dec.threads[i].pending # <<>> /\ dec' = Ran(dec, i)
      /\ \/ /\ left[f] > 0 /\ left' = [left EXCEPT ![f] = @ - 1]
            /\ io' = Queue(io, ioTrack[f], f)
            /\ ioTrack' = [ioTrack EXCEPT ![f] = TrackOf(io, ioTrack[f])]
         \/ UNCHANGED <<io, ioTrack, left>>
      /\ UNCHANGED <<decTrack, todo>> /\ UNCHANGED joinVars
  BY DEF RunDecode, QueueIO
<1>2. f \in Files
  <2>1. dec.threads[i] \in ThreadType
    BY PoolSize DEF IOJoinInv, Pools
  <2>2. dec.threads[i].pending \in Seq(Files) /\ dec.threads[i].pending # <<>>
    BY <1>1, <2>1 DEF ThreadType
  <2> QED BY ONLY <2>2
<1> HIDE DEF f
<1>3. /\ dec' \in PoolType(DecSize) /\ Busy(dec', DecSize) /\ Follows(dec', decTrack', DecSize)
      /\ \A j \in 1 .. DecSize : Free(j) => Free(j)'
  BY <1>1, RanFollows DEF IOJoinInv, Pools, Free
<1>4. /\ io' \in PoolType(IOSize) /\ ioTrack' \in [Files -> 0 .. IOSize]
      /\ Busy(io', IOSize) /\ Follows(io', ioTrack', IOSize)
      /\ \A j \in 1 .. IOSize : io.threads[j].running => io'.threads[j].running
  <2>1. CASE UNCHANGED <<io, ioTrack, left>>
    BY <2>1 DEF IOJoinInv, Pools
  <2>2. CASE /\ io' = Queue(io, ioTrack[f], f)
             /\ ioTrack' = [ioTrack EXCEPT ![f] = TrackOf(io, ioTrack[f])]
    BY <1>2, <2>2, QueueFollows DEF IOJoinInv, Pools
  <2> QED BY <1>1, <2>1, <2>2
<1>5. Pools'
  BY <1>1, <1>3, <1>4 DEF IOJoinInv, Pools
<1>6. ~Free(i)
  BY <1>1 DEF Free
<1>7. Walk' /\ Alone'
  BY <1>1, <1>3, <1>4, <1>6, AloneKept DEF IOJoinInv
<1>8. Wants'
  <2>1. left \in [Files -> 0 .. Reads] /\ todo' = todo /\ todo \in [Files -> 0 .. Calls]
    BY <1>1 DEF IOJoinInv, Wants
  <2>2. left' = left \/ (left[f] > 0 /\ left' = [left EXCEPT ![f] = @ - 1])
    BY <1>1
  <2>3. left[f] > 0 => left[f] - 1 \in 0 .. Reads
    BY <1>2, <2>1
  <2>4. left' \in [Files -> 0 .. Reads]
    BY ONLY <1>2, <2>1, <2>2, <2>3
  <2> QED BY <2>1, <2>4 DEF Wants
<1> QED BY <1>5, <1>7, <1>8 DEF IOJoinInv

LEMMA JoinExpires ==
  ASSUME IOJoinInv,
         (\E i \in 1 .. IOSize : IOExpires(i)) \/ \E i \in 1 .. DecSize : DecExpires(i)
  PROVE  IOJoinInv'
<1> USE IOFileJoinAssumption
<1>1. /\ UNCHANGED <<ioTrack, decTrack, left, todo>> /\ UNCHANGED joinVars
      /\ \/ dec' = dec /\ \E i \in 1 .. IOSize : io' = Expire(io, i)
         \/ io' = io /\ \E i \in 1 .. DecSize : dec' = Expire(dec, i)
  BY DEF IOExpires, DecExpires
<1>2. /\ io' \in PoolType(IOSize) /\ Busy(io', IOSize) /\ Follows(io', ioTrack', IOSize)
      /\ \A j \in 1 .. IOSize : io'.threads[j].running = io.threads[j].running
  <2>1. CASE io' = io
    BY <1>1, <2>1 DEF IOJoinInv, Pools
  <2>2. CASE \E i \in 1 .. IOSize : io' = Expire(io, i)
    <3>1. PICK i \in 1 .. IOSize : io' = Expire(io, i)
      BY <2>2
    <3>2. /\ IOSize \in Nat \ {0} /\ io \in PoolType(IOSize) /\ ioTrack' = ioTrack
          /\ Busy(io, IOSize) /\ Follows(io, ioTrack, IOSize)
      BY <1>1 DEF IOJoinInv, Pools
    <3> QED BY ONLY <3>1, <3>2, ExpireFollows
  <2> QED BY <1>1, <2>1, <2>2
<1>3. /\ dec' \in PoolType(DecSize) /\ Busy(dec', DecSize) /\ Follows(dec', decTrack', DecSize)
      /\ \A j \in 1 .. DecSize : Free(j) => Free(j)'
  <2>1. CASE dec' = dec
    BY <1>1, <2>1 DEF IOJoinInv, Pools, Free
  <2>2. CASE \E i \in 1 .. DecSize : dec' = Expire(dec, i)
    <3>1. PICK i \in 1 .. DecSize : dec' = Expire(dec, i)
      BY <2>2
    <3>2. /\ DecSize \in Nat \ {0} /\ dec \in PoolType(DecSize) /\ decTrack' = decTrack
          /\ Busy(dec, DecSize) /\ Follows(dec, decTrack, DecSize)
      BY <1>1 DEF IOJoinInv, Pools
    <3>3. /\ dec' \in PoolType(DecSize) /\ Busy(dec', DecSize) /\ Follows(dec', decTrack', DecSize)
          /\ \A j \in 1 .. DecSize : dec'.threads[j].pending = dec.threads[j].pending
      BY ONLY <3>1, <3>2, ExpireFollows
    <3> QED BY <3>3 DEF Free
  <2> QED BY <1>1, <2>1, <2>2
<1>4. Pools'
  BY <1>1, <1>2, <1>3 DEF IOJoinInv, Pools
<1>5. Quiet' = Quiet
  BY <1>2 DEF Quiet
<1>6. Walk' /\ Alone'
  BY <1>1, <1>2, <1>3, <1>5, AloneKept DEF IOJoinInv
<1> QED BY <1>1, <1>4, <1>6 DEF IOJoinInv, Wants

\* join() begins, and goes from a thread to the next one.
LEMMA JoinWalks ==
  ASSUME IOJoinInv, EnterJoin \/ JoinThread \/ JoinNext
  PROVE  IOJoinInv'
<1> USE IOFileJoinAssumption
<1>1. UNCHANGED <<io, dec, ioTrack, decTrack, left, todo>>
  BY DEF EnterJoin, JoinThread, JoinNext, poolVars
<1>2. Pools' /\ Wants'
  BY <1>1 DEF IOJoinInv, Pools, Wants
<1>3. /\ Quiet' = Quiet /\ \A i : Free(i)' = Free(i)
      /\ Size(io) = IOSize /\ Size(dec) = DecSize
  BY <1>1, PoolSize DEF Quiet, Free, IOJoinInv, Pools
<1>4. CASE EnterJoin
  <2>1. phase = "app" /\ phase' = "dec" /\ lapsed' = FALSE /\ UNCHANGED <<at, stopping, count>>
    BY <1>4 DEF EnterJoin
  <2>2. Walk'
    BY <2>1 DEF IOJoinInv, Walk
  <2>3. Alone'
    BY <2>1 DEF IOJoinInv, Walk, Alone
  <2> QED BY <1>2, <2>2, <2>3 DEF IOJoinInv
<1>5. CASE JoinNext
  <2>1. /\ phase # "app" /\ at > Size(Pool) /\ at' = 1 /\ count' = 0
        /\ phase' = IF phase = "dec" THEN "io" ELSE IF count > 0 THEN "dec" ELSE "app"
        /\ UNCHANGED <<stopping, lapsed>>
    BY <1>5 DEF JoinNext
  <2>2. at \in Nat /\ at > IF phase = "dec" THEN DecSize ELSE IOSize
    BY <1>3, <2>1 DEF Pool, IOJoinInv, Walk
  <2>3. ~stopping
    BY <2>2 DEF IOJoinInv, Walk
  <2>4. Walk'
    BY <2>1, <2>3 DEF IOJoinInv, Walk
  <2>5. CASE phase = "dec"
    <3>1. ~lapsed /\ Quiet => \A i \in 1 .. DecSize : Free(i)
      BY <2>2, <2>5 DEF IOJoinInv, Alone
    <3>2. (\A i \in 1 .. IOSize : i >= 1 => ~io.threads[i].running) => Quiet
      BY DEF Quiet
    <3>3. Alone'
      BY <1>1, <1>3, <2>1, <2>5, <3>1, <3>2 DEF Alone
    <3> QED BY <1>2, <2>4, <3>3 DEF IOJoinInv
  <2>6. CASE phase # "dec"
    <3>1. phase' \in {"dec", "app"} /\ at' = 1
      BY <2>1, <2>6
    <3>2. Alone'
      BY <3>1 DEF Alone
    <3> QED BY <1>2, <2>4, <3>2 DEF IOJoinInv
  <2> QED BY <2>5, <2>6
<1>6. CASE JoinThread
  <2>1. /\ phase # "app" /\ at <= Size(Pool) /\ ~stopping /\ UNCHANGED <<phase, lapsed>>
        /\ \/ stopping' = TRUE /\ count' = count + 1 /\ UNCHANGED at
           \/ ~Pool.threads[at].running /\ at' = at + 1 /\ UNCHANGED <<stopping, count>>
    BY <1>6 DEF JoinThread
  <2>2. phase \in {"dec", "io"} /\ at \in Nat /\ count \in Nat
    BY <2>1 DEF IOJoinInv, Walk
  <2>3. Walk'
    <3>1. at <= IF phase = "dec" THEN DecSize ELSE IOSize
      BY <1>3, <2>1 DEF Pool
    <3>2. /\ at' \in Nat /\ count' \in Nat
          /\ stopping' => count' > 0 /\ at' = at
      BY <2>1, <2>2
    <3>3. lapsed' \in BOOLEAN /\ stopping' \in BOOLEAN
      BY <2>1 DEF IOJoinInv, Walk
    <3>4. phase' = phase
      BY <2>1
    <3> QED BY <2>2, <3>1, <3>2, <3>3, <3>4 DEF Walk
  <2>4. CASE stopping' = TRUE /\ count' = count + 1 /\ UNCHANGED at
    <3>1. count' # 0
      BY <2>2, <2>4
    <3>2. Alone'
      BY <1>1, <1>3, <2>1, <2>4, <3>1 DEF IOJoinInv, Alone
    <3> QED BY <1>2, <2>3, <3>2 DEF IOJoinInv
  <2>5. CASE ~Pool.threads[at].running /\ at' = at + 1 /\ UNCHANGED <<stopping, count>>
    <3>1. CASE phase = "dec"
      <4>1. ~dec.threads[at].running /\ at <= DecSize
        BY <1>3, <2>1, <2>5, <3>1 DEF Pool
      <4>2. at \in 1 .. DecSize => Free(at)
        BY <4>1 DEF IOJoinInv, Pools, Busy, Free
      <4>3. \A i \in 1 .. DecSize : i < at + 1 => i < at \/ i = at
        BY <2>2
      <4>4. ~lapsed /\ Quiet => \A i \in 1 .. DecSize : i < at + 1 => Free(i)
        BY <3>1, <4>2, <4>3 DEF IOJoinInv, Alone
      <4>5. Alone'
        BY <1>1, <1>3, <2>1, <2>5, <3>1, <4>4 DEF Alone
      <4> QED BY <1>2, <2>3, <4>5 DEF IOJoinInv
    <3>2. CASE phase = "io"
      <4>1. ~io.threads[at].running
        BY <2>5, <3>2 DEF Pool
      <4>2. \A i \in 1 .. IOSize : i >= at => i >= at + 1 \/ i = at
        BY <2>2
      <4>3. /\ ~lapsed /\ count = 0 =>
                 /\ Quiet => \A i \in 1 .. DecSize : Free(i)
                 /\ (\A i \in 1 .. IOSize : i >= at + 1 => ~io.threads[i].running) => Quiet
        BY <3>2, <4>1, <4>2 DEF IOJoinInv, Alone
      <4>4. Alone'
        BY <1>1, <1>3, <2>1, <2>5, <3>2, <4>3 DEF Alone
      <4> QED BY <1>2, <2>3, <4>4 DEF IOJoinInv
    <3> QED BY <2>2, <3>1, <3>2
  <2> QED BY <2>1, <2>4, <2>5
<1> QED BY <1>4, <1>5, <1>6

\* A thread of IOFile's pool stops: for join(), which will have found it, or by itself.
LEMMA JoinIOStops ==
  ASSUME IOJoinInv, NEW i \in 1 .. IOSize, IOStops(i)
  PROVE  IOJoinInv'
<1> USE IOFileJoinAssumption
<1>1. /\ io' = Stop(io, i) /\ UNCHANGED <<dec, ioTrack, decTrack, left, todo, phase, count>>
      /\ \/ /\ phase = "io" /\ stopping /\ at = i
            /\ at' = at + 1 /\ stopping' = FALSE /\ lapsed' = lapsed
         \/ lapsed' = TRUE /\ UNCHANGED <<at, stopping>>
  BY DEF IOStops, Stopped, IOJoinInv, Walk
<1>2. Pools'
  BY <1>1, StopFollows DEF IOJoinInv, Pools
<1>3. Walk'
  <2>1. Walk /\ at \in Nat
    BY DEF IOJoinInv, Walk
  <2>2. at' \in Nat
    BY <1>1, <2>1
  <2>3. lapsed' \in BOOLEAN /\ stopping' \in BOOLEAN
    <3>1. lapsed' = lapsed \/ lapsed' = TRUE
      BY <1>1
    <3>2. stopping' = stopping \/ stopping' = FALSE
      BY <1>1
    <3> QED BY <2>1, <3>1, <3>2 DEF Walk
  <2>4. phase' = phase /\ count' = count
    BY <1>1
  <2>5. UNCHANGED <<at, stopping>> \/ (phase # "app" /\ ~stopping')
    BY <1>1
  <2> QED BY <2>1, <2>2, <2>3, <2>4, <2>5 DEF Walk
<1>4. Alone'
  <2>1. CASE lapsed'
    BY <2>1 DEF Alone
  <2>2. CASE phase = "io" /\ stopping
    <3>1. phase' = "io" /\ count' # 0
      BY <1>1, <2>2 DEF IOJoinInv, Walk
    <3> QED BY <3>1 DEF Alone
  <2> QED BY <1>1, <2>1, <2>2
<1> QED BY <1>1, <1>2, <1>3, <1>4 DEF IOJoinInv, Wants

LEMMA JoinDecStops ==
  ASSUME IOJoinInv, NEW i \in 1 .. DecSize, DecStops(i)
  PROVE  IOJoinInv'
<1> USE IOFileJoinAssumption
<1>1. /\ dec' = Stop(dec, i)
      /\ UNCHANGED <<io, ioTrack, decTrack, left, todo, phase, count, lapsed>>
      /\ \/ phase = "dec" /\ stopping /\ at = i /\ at' = at + 1 /\ stopping' = FALSE
         \/ UNCHANGED <<at, stopping>>
  BY DEF DecStops, Stopped
<1>2. /\ dec' \in PoolType(DecSize) /\ Busy(dec', DecSize) /\ Follows(dec', decTrack', DecSize)
      /\ dec'.threads[i].pending = <<>>
      /\ \A j \in 1 .. DecSize \ {i} : dec'.threads[j] = dec.threads[j]
  <2>1. /\ DecSize \in Nat \ {0} /\ dec \in PoolType(DecSize) /\ decTrack' = decTrack
        /\ Busy(dec, DecSize) /\ Follows(dec, decTrack, DecSize) /\ dec' = Stop(dec, i)
    BY <1>1 DEF IOJoinInv, Pools
  <2> QED BY ONLY <2>1, i \in 1 .. DecSize, StopFollows
<1>3. Pools'
  BY <1>1, <1>2 DEF IOJoinInv, Pools
<1>4. Walk'
  <2>1. Walk /\ at \in Nat
    BY DEF IOJoinInv, Walk
  <2>2. at' \in Nat
    BY <1>1, <2>1
  <2>3. stopping' = stopping \/ stopping' = FALSE
    BY <1>1
  <2>4. stopping' \in BOOLEAN
    BY <2>1, <2>3 DEF Walk
  <2>5. phase' = phase /\ count' = count /\ lapsed' = lapsed
    BY <1>1
  <2>6. UNCHANGED <<at, stopping>> \/ (phase # "app" /\ ~stopping')
    BY <1>1
  <2> QED BY <2>1, <2>2, <2>4, <2>5, <2>6 DEF Walk
<1>5. /\ Quiet' = Quiet /\ \A j \in 1 .. DecSize : Free(j) => Free(j)'
      /\ Free(i)'
  BY <1>1, <1>2 DEF Quiet, Free
<1>6. Alone'
  <2>1. CASE UNCHANGED <<at, stopping>>
    BY <1>1, <1>5, <2>1 DEF IOJoinInv, Alone, Free
  <2>2. CASE phase = "dec" /\ at = i /\ at' = at + 1
    <3>1. \A j \in 1 .. DecSize : j < at + 1 => j < at \/ j = i
      BY <2>2
    <3>2. ~lapsed' /\ Quiet' => \A j \in 1 .. DecSize : j < at' => Free(j)'
      BY <1>1, <1>5, <2>2, <3>1 DEF IOJoinInv, Alone
    <3> QED BY <1>1, <2>2, <3>2 DEF Alone, Free
  <2> QED BY <1>1, <2>1, <2>2
<1> QED BY <1>1, <1>3, <1>4, <1>6 DEF IOJoinInv, Wants

LEMMA JoinStutter ==
  ASSUME IOJoinInv, UNCHANGED ioVars
  PROVE  IOJoinInv'
<1>1. UNCHANGED <<io, dec, ioTrack, decTrack, left, todo, phase, at, stopping, count, lapsed>>
  BY DEF ioVars
<1>2. Pools' /\ Walk' /\ Wants'
  BY <1>1 DEF IOJoinInv, Pools, Walk, Wants
<1>3. Alone'
  BY <1>1 DEF IOJoinInv, Alone, Quiet, Free
<1> QED BY <1>2, <1>3 DEF IOJoinInv

\* IOJoinInv is inductive.
THEOREM JoinInductive == IOBehaviour => []IOJoinInv
<1>1. IOInit => IOJoinInv
  BY JoinStarts
<1>2. IOJoinInv /\ [IONext]_ioVars => IOJoinInv'
  <2> SUFFICES ASSUME IOJoinInv, [IONext]_ioVars PROVE IOJoinInv'
    OBVIOUS
  <2>1. CASE \E f \in Files : Read(f)
    BY <2>1, JoinRead
  <2>2. CASE \E i \in 1 .. IOSize : RunRead(i)
    BY <2>2, JoinRunRead
  <2>3. CASE \E i \in 1 .. IOSize : IOStops(i)
    BY <2>3, JoinIOStops
  <2>4. CASE \E i \in 1 .. DecSize : RunDecode(i)
    BY <2>4, JoinRunDecode
  <2>5. CASE \E i \in 1 .. DecSize : DecStops(i)
    BY <2>5, JoinDecStops
  <2>6. CASE (\E i \in 1 .. IOSize : IOExpires(i)) \/ \E i \in 1 .. DecSize : DecExpires(i)
    BY <2>6, JoinExpires
  <2>7. CASE EnterJoin \/ JoinThread \/ JoinNext
    BY <2>7, JoinWalks
  <2>8. CASE UNCHANGED ioVars
    BY <2>8, JoinStutter
  <2> QED BY <2>1, <2>2, <2>3, <2>4, <2>5, <2>6, <2>7, <2>8
          DEF IONext, IOThread, DecThread, Join
<1> QED BY <1>1, <1>2, PTL DEF IOBehaviour

\* Every variable of IOFileJoin has its type; a thread which has something to do runs.
THEOREM JoinTypeCorrect == IOBehaviour => []IOTypeOK
<1>1. IOJoinInv => IOTypeOK
  BY DEF IOJoinInv, Pools, Walk, Wants, PoolType, Busy, IOTypeOK
<1> QED BY <1>1, JoinInductive, PTL

\* The operations of a file are never on two threads of a pool, whatever the sizes of the
\* pools, the files, and the threads which stop and start again: they stay in order.
THEOREM OneThreadAlways == IOBehaviour => []OneThreadPerFile
<1>1. IOJoinInv => OneThreadPerFile
  <2> SUFFICES ASSUME IOJoinInv PROVE OneThreadPerFile
    OBVIOUS
  <2> USE IOFileJoinAssumption
  <2>1. ASSUME NEW n, NEW p, NEW track, Follows(p, track, n), Size(p) = n, NEW f \in Files,
               NEW i \in 1 .. Size(p), NEW j \in 1 .. Size(p),
               \E k \in DOMAIN p.threads[i].pending : p.threads[i].pending[k] = f,
               \E k \in DOMAIN p.threads[j].pending : p.threads[j].pending[k] = f
        PROVE  i = j
    BY <2>1 DEF Follows
  <2>2. Size(io) = IOSize /\ Size(dec) = DecSize
    BY PoolSize DEF IOJoinInv, Pools
  <2> QED BY <2>1, <2>2 DEF OneThreadPerFile, IOJoinInv, Pools
<1> QED BY <1>1, JoinInductive, PTL

\* When join() returns, both pools are idle, however they have fed each other meanwhile,
\* unless a thread of IOFile's pool has stopped by itself since it began.
THEOREM JoinWaits == IOBehaviour => JoinWaitsForAll
<1>1. IOJoinInv /\ [IONext]_ioVars =>
        [phase = "io" /\ phase' = "app" /\ ~lapsed => Idle(io) /\ Idle(dec)]_ioVars
  <2> SUFFICES ASSUME IOJoinInv, [IONext]_ioVars, phase = "io", phase' = "app", ~lapsed
               PROVE  Idle(io) /\ Idle(dec)
    OBVIOUS
  <2> USE IOFileJoinAssumption
  <2>1. JoinNext
    BY DEF IONext, ioVars, Read, IOThread, RunRead, IOStops, IOExpires, DecThread,
           RunDecode, DecStops, DecExpires, EnterJoin, Join, JoinThread, joinVars
  <2>2. Size(io) = IOSize /\ Size(dec) = DecSize
    BY PoolSize DEF IOJoinInv, Pools
  <2>3. at > IOSize /\ count = 0 /\ at \in Nat
    BY <2>1, <2>2 DEF JoinNext, Pool, IOJoinInv, Walk
  <2>4. \A i \in 1 .. IOSize : ~(i >= at)
    BY <2>3
  <2>5. Quiet /\ \A i \in 1 .. DecSize : Free(i)
    BY <2>3, <2>4 DEF IOJoinInv, Alone
  <2>6. \A i \in 1 .. IOSize : io.threads[i].pending = <<>>
    BY <2>5 DEF Quiet, IOJoinInv, Pools, Busy
  <2> QED BY <2>2, <2>5, <2>6 DEF Free, Idle
<1> QED BY <1>1, JoinInductive, PTL DEF IOBehaviour, JoinWaitsForAll
=============================================================================
