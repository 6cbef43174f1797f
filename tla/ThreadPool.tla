----------------------------- MODULE ThreadPool -----------------------------
(***************************************************************************)
(* Mona::ThreadPool (Mona/Threading/ThreadPool.h, ThreadPool.cpp): some    *)
(* ThreadQueues, the tasks being spread over them by "tracks".  A pool is  *)
(* a value here, and its operations are functions on it, so that a module  *)
(* may have several pools.  Each thread is what the module ThreadQueue     *)
(* shows it to be: a FIFO queue with a worker, which runs until it is      *)
(* asked to stop, or until its wait of two minutes has expired, and in     *)
(* both cases drains its queue before; queue() starts it again.            *)
(***************************************************************************)
EXTENDS Naturals, Sequences

CONSTANT Wrap   \* 2^16 in the code, where _current is an uint16_t

ASSUME ThreadPoolAssumption == Wrap \in Nat \ {0}

NewThread == [pending |-> <<>>, running |-> FALSE, expired |-> FALSE]

NewPool(size) == [current |-> 0, threads |-> [i \in 1 .. size |-> NewThread]]

Size(pool) == Len(pool.threads)

\* queue(): a task without a track (0) goes to the next thread, which becomes
\* its track; the others follow their track.
TrackOf(pool, track) ==
  IF track # 0 THEN track ELSE (pool.current % Size(pool)) + 1

Queue(pool, track, task) ==
  LET i == TrackOf(pool, track)
      thread == pool.threads[i]
  IN  [current |-> IF track # 0 THEN pool.current ELSE (pool.current + 1) % Wrap,
       threads |-> [pool.threads EXCEPT
         ![i] = [pending |-> Append(thread.pending, task),
                 running |-> TRUE,
                 expired |-> thread.running /\ thread.expired]]]

\* The thread i has run its first task.
Ran(pool, i) == [pool EXCEPT !.threads[i].pending = Tail(@)]

\* The wait of the idle thread i has expired: it will stop when its queue is empty.
MayExpire(pool, i) ==
  /\ pool.threads[i].running
  /\ pool.threads[i].pending = <<>>
  /\ ~pool.threads[i].expired
Expire(pool, i) == [pool EXCEPT !.threads[i].expired = TRUE]

\* The worker of the thread i stops.
Emptied(pool, i) == pool.threads[i].running /\ pool.threads[i].pending = <<>>
Stop(pool, i) == [pool EXCEPT !.threads[i] = NewThread]

Idle(pool) ==
  \A i \in 1 .. Size(pool) : pool.threads[i].pending = <<>>
=============================================================================
