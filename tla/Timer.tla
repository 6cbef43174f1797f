------------------------------- MODULE Timer -------------------------------
(***************************************************************************)
(* Mona::Timer (Mona/Timing/Timer.h, Timer.cpp): a map from a raising time *)
(* to the set of the timers due at this time.  Each timer remembers its    *)
(* own raising time in _nextRaising (0 when it is not armed), which is how *)
(* set() finds it again to move or remove it.  raise() is called by the    *)
(* loop of the application: it calls the timers which are due, bucket by   *)
(* bucket, and returns how long to wait for the next one.  A callback may  *)
(* itself set timers; what it returns arms its own timer again.            *)
(***************************************************************************)
EXTENDS Integers, FiniteSets, FiniteSetsExt

CONSTANTS
  Timers,       \* the OnTimer objects
  Timeouts,     \* the timeouts given to set() and returned by the callbacks; 0 is none
  MaxTime       \* bound: the time stops here

ASSUME TimerAssumption ==
  /\ IsFiniteSet(Timers)
  /\ Timeouts \subseteq Nat /\ IsFiniteSet(Timeouts) /\ 0 \in Timeouts
  /\ MaxTime \in Nat \ {0}

VARIABLES
  now,      \* Time::Now()
  next,     \* _nextRaising of each timer
  timers,   \* _timers: the timers of each bucket, {} when there is no bucket
  count,    \* _count
  phase,    \* "idle", "loop" (between two buckets of raise()), "raising", "failed"
  bucket,   \* itTimers: the timers of the bucket still to call
  waiting,  \* what raise() has returned, 0 before
  due,      \* history: the time asked for each timer by the program, 0 for none
  twice     \* history: a callback has set its own timer, and returned a timeout too

vars == <<now, next, timers, count, phase, bucket, waiting, due, twice>>

\* A time later than every timeout, and every time before.
Horizon == MaxTime + Max(Timeouts)
Times == 1 .. Horizon

Init ==
  /\ now = 1
  /\ next = [t \in Timers |-> 0]
  /\ timers = [k \in Times |-> {}]
  /\ count = 0
  /\ phase = "idle"
  /\ bucket = {}
  /\ waiting = 0
  /\ due = [t \in Timers |-> 0]
  /\ twice = FALSE

Tick ==
  /\ now < MaxTime
  /\ now' = now + 1
  /\ UNCHANGED <<next, timers, count, phase, bucket, waiting, due, twice>>

\* remove() raises FATAL_ERROR: the bucket of t does not hold t.
RemoveFails(t) == next[t] # 0 /\ t \notin timers[next[t]]

(***************************************************************************)
(* set(t, timeout): remove t from its bucket, and arm it again unless the  *)
(* timeout is 0.  Written as its effect on nx, tm and cnt, the values of   *)
(* next, timers and count when it is called; not defined on a failure.     *)
(***************************************************************************)
SetCount(t, timeout, nx, cnt) ==
  (IF nx[t] # 0 THEN cnt - 1 ELSE cnt) + (IF timeout # 0 THEN 1 ELSE 0)

SetNext(t, timeout, nx) ==
  [nx EXCEPT ![t] = IF timeout = 0 THEN 0 ELSE now + timeout]

\* Mutant of SetTimers: the timer is not removed from its former bucket.
SetTimersTwice(t, timeout, nx, tm) ==
  [k \in Times |->
     IF timeout # 0 /\ k = now + timeout THEN tm[k] \cup {t} ELSE tm[k]]

SetTimers(t, timeout, nx, tm) ==
  [k \in Times |->
     IF timeout # 0 /\ k = now + timeout THEN tm[k] \cup {t}
     ELSE IF k = nx[t] THEN tm[k] \ {t} ELSE tm[k]]

\* add(t, timeout) after a call: t is not searched in another bucket.
AddNext(t, timeout, nx) ==
  IF timeout = 0 THEN nx ELSE [nx EXCEPT ![t] = now + timeout]

AddTimers(t, timeout, tm) ==
  IF timeout = 0 THEN tm ELSE [tm EXCEPT ![now + timeout] = @ \cup {t}]

\* The application sets a timer, out of raise().
Set(t, timeout) ==
  /\ phase = "idle"
  /\ ~RemoveFails(t)
  /\ next' = SetNext(t, timeout, next)
  /\ timers' = SetTimers(t, timeout, next, timers)
  /\ count' = SetCount(t, timeout, next, count)
  /\ due' = SetNext(t, timeout, due)
  /\ UNCHANGED <<now, phase, bucket, waiting, twice>>

\* The application calls raise().
Raise ==
  /\ phase = "idle"
  /\ phase' = "loop"
  /\ UNCHANGED <<now, next, timers, count, bucket, waiting, due, twice>>

Armed == {k \in Times : timers[k] # {}}

\* The first bucket is due: it is taken out of the map.
TakeBucket ==
  /\ phase = "loop"
  /\ Armed # {}
  /\ LET first == Min(Armed) IN
       /\ first <= now
       /\ bucket' = timers[first]
       /\ timers' = [timers EXCEPT ![first] = {}]
  /\ phase' = "raising"
  /\ UNCHANGED <<now, next, count, waiting, due, twice>>

\* Mutant of RaiseReturns: a bucket due right now is left for the next raise().
RaiseReturnsSoon ==
  /\ phase = "loop"
  /\ Armed # {} => Min(Armed) >= now
  /\ waiting' = IF Armed = {} THEN 0 ELSE Min(Armed) - now
  /\ phase' = "idle"
  /\ UNCHANGED <<now, next, timers, count, bucket, due, twice>>

\* Nothing is due: raise() returns the time to wait, 0 when there is no timer.
RaiseReturns ==
  /\ phase = "loop"
  /\ Armed # {} => Min(Armed) > now
  /\ waiting' = IF Armed = {} THEN 0 ELSE Min(Armed) - now
  /\ phase' = "idle"
  /\ UNCHANGED <<now, next, timers, count, bucket, due, twice>>

(***************************************************************************)
(* A timer t of the bucket is called; its callback returns timeout, and    *)
(* may set another timer u before: in the model, a single one.             *)
(***************************************************************************)
Called(t, nx) == [nx EXCEPT ![t] = 0]

Call(t, timeout) ==
  /\ phase = "raising" /\ t \in bucket
  /\ bucket' = bucket \ {t}
  /\ next' = AddNext(t, timeout, Called(t, next))
  /\ timers' = AddTimers(t, timeout, timers)
  /\ count' = (count - 1) + (IF timeout # 0 THEN 1 ELSE 0)
  /\ due' = AddNext(t, timeout, Called(t, due))
  /\ UNCHANGED <<now, phase, waiting, twice>>

CallSetting(t, timeout, u, other) ==
  /\ phase = "raising" /\ t \in bucket
  /\ u = t \/ ~RemoveFails(u)
  /\ bucket' = bucket \ {t}
  /\ next' = AddNext(t, timeout, SetNext(u, other, Called(t, next)))
  /\ timers' = AddTimers(t, timeout, SetTimers(u, other, Called(t, next), timers))
  /\ count' = SetCount(u, other, Called(t, next), count) - 1
               + (IF timeout # 0 THEN 1 ELSE 0)
  /\ due' = AddNext(t, timeout, SetNext(u, other, Called(t, due)))
  /\ twice' = (twice \/ (u = t /\ timeout # 0 /\ other # 0))
  /\ UNCHANGED <<now, phase, waiting>>

\* The exception of remove() leaves the callback and raise(), the bucket is lost.
CallFailing(t, u) ==
  /\ phase = "raising" /\ t \in bucket
  /\ u # t /\ RemoveFails(u)
  /\ next' = Called(t, next)
  /\ due' = Called(t, due)
  /\ bucket' = {}
  /\ phase' = "failed"
  /\ UNCHANGED <<now, timers, count, waiting, twice>>

EndBucket ==
  /\ phase = "raising" /\ bucket = {}
  /\ phase' = "loop"
  /\ UNCHANGED <<now, next, timers, count, bucket, waiting, due, twice>>

Next ==
  \/ Tick
  \/ \E t \in Timers, timeout \in Timeouts : Set(t, timeout) \/ Call(t, timeout)
  \/ Raise \/ TakeBucket \/ RaiseReturns \/ EndBucket
  \/ \E t, u \in Timers, timeout, other \in Timeouts : CallSetting(t, timeout, u, other)
  \/ \E t, u \in Timers : CallFailing(t, u)

Spec == Init /\ [][Next]_vars

-----------------------------------------------------------------------------
(* Correctness *)

\* Every variable has its type.
TypeOK ==
  /\ now \in 1 .. MaxTime
  /\ next \in [Timers -> 0 .. Horizon] /\ due \in [Timers -> 0 .. Horizon]
  /\ timers \in [Times -> SUBSET Timers]
  /\ count \in Int /\ waiting \in Nat /\ twice \in BOOLEAN
  /\ ~twice => count \in Nat
  /\ phase \in {"idle", "loop", "raising", "failed"}
  /\ bucket \subseteq Timers

\* No callback has failed, or armed its own timer before returning a timeout: add()
\* (Timer.cpp:93) leaves such a timer in both buckets.
Regular == phase # "failed" /\ ~twice

\* A timer is armed for the last time the program has asked, in the bucket of
\* its _nextRaising and in no other one, unless it waits in the bucket which
\* raise() is calling: moves, removals and callbacks lose and double none, what has been
\* stopped is not called, and count() is the number of timers armed (Timer.h:64).
Indexed ==
  Regular =>
    /\ \A t \in Timers :
         /\ next[t] = due[t]
         /\ \A k \in Times : t \in timers[k] <=> next[t] = k /\ t \notin bucket
    /\ \A t \in bucket : due[t] # 0
    /\ count = Cardinality({t \in Timers : due[t] # 0})

\* raise() leaves no timer due behind it, and the wait it returns is the time
\* left before the first of the armed timers ("> 0, or 0 if there is no more timer").
WaitIsExact ==
  [][RaiseReturns /\ Regular =>
       /\ \A t \in Timers : due[t] # 0 => due[t] >= now + waiting' /\ waiting' > 0
       /\ waiting' = 0 <=> \A t \in Timers : due[t] = 0]_vars

=============================================================================
