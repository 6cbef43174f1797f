------------------------------- MODULE Signal -------------------------------
(***************************************************************************)
(* Mona::Signal (Mona/Threading/Signal.h, Signal.cpp): a flag, a mutex and *)
(* a condition variable.  A critical section of the mutex is one action: a *)
(* waiter is outside of it before its first look at the flag, while the    *)
(* condition variable has it asleep, and between its wake-up and the next  *)
(* look.  The condition variable may wake a sleeper up without reason.     *)
(***************************************************************************)
CONSTANTS
  Waiters,    \* the threads which call wait()
  Timed       \* those which give it a timeout (millisec # 0)

ASSUME SignalAssumption == Timed \subseteq Waiters

VARIABLES
  autoReset,  \* _autoReset: the constructor's choice, never changed
  set,        \* _set
  wait        \* where each waiter is in wait(), or what it has returned

signalVars == <<autoReset, set, wait>>

WaitPC == {"none", "enter", "asleep", "awake", "expired", "true", "false"}

Returned(w) == wait[w] \in {"none", "true", "false"}

SignalInit ==
  /\ autoReset \in BOOLEAN
  /\ set = FALSE
  /\ wait = [w \in Waiters |-> "none"]

Wait(w) ==
  /\ Returned(w)
  /\ wait' = [wait EXCEPT ![w] = "enter"]
  /\ UNCHANGED <<autoReset, set>>

\* Mutant of Take: the flag of an auto-reset signal is not lowered.
TakeKeeping(w) ==
  /\ wait[w] \in {"enter", "awake", "expired"}
  /\ set
  /\ wait' = [wait EXCEPT ![w] = "true"]
  /\ UNCHANGED <<autoReset, set>>

\* The loop ends on a raised flag, also after a timeout; an auto-reset signal lowers it.
Take(w) ==
  /\ wait[w] \in {"enter", "awake", "expired"}
  /\ set
  /\ wait' = [wait EXCEPT ![w] = "true"]
  /\ set' = ~autoReset
  /\ UNCHANGED autoReset

\* _condition.wait or wait_until: falls asleep and releases the mutex at once.
Sleep(w) ==
  /\ wait[w] \in {"enter", "awake"}
  /\ ~set
  /\ wait' = [wait EXCEPT ![w] = "asleep"]
  /\ UNCHANGED <<autoReset, set>>

\* wait_until has returned timeout, and the flag is still down.
GiveUp(w) ==
  /\ wait[w] = "expired"
  /\ ~set
  /\ wait' = [wait EXCEPT ![w] = "false"]
  /\ UNCHANGED <<autoReset, set>>

\* A wake-up for nothing.
Spurious(w) ==
  /\ wait[w] = "asleep"
  /\ wait' = [wait EXCEPT ![w] = "awake"]
  /\ UNCHANGED <<autoReset, set>>

\* The timeout, while asleep or between a wake-up and the mutex.
TimeOut(w) ==
  /\ w \in Timed
  /\ wait[w] \in {"asleep", "awake"}
  /\ wait' = [wait EXCEPT ![w] = "expired"]
  /\ UNCHANGED <<autoReset, set>>

\* Mutant of Set: notify_one instead of notify_all.
SetOne ==
  /\ set' = TRUE
  /\ IF \E w \in Waiters : wait[w] = "asleep"
     THEN \E w \in Waiters :
            wait[w] = "asleep" /\ wait' = [wait EXCEPT ![w] = "awake"]
     ELSE UNCHANGED wait
  /\ UNCHANGED autoReset

\* notify_all: every sleeper will look at the flag again.
Set ==
  /\ set' = TRUE
  /\ wait' = [w \in Waiters |-> IF wait[w] = "asleep" THEN "awake" ELSE wait[w]]
  /\ UNCHANGED autoReset

Reset ==
  /\ set' = FALSE
  /\ UNCHANGED <<autoReset, wait>>

Look(w) == Take(w) \/ Sleep(w) \/ GiveUp(w)

SignalNext ==
  \/ \E w \in Waiters : Wait(w) \/ Look(w) \/ Spurious(w) \/ TimeOut(w)
  \/ Set
  \/ Reset

SignalBehaviour == SignalInit /\ [][SignalNext]_signalVars

\* The system schedules the waiters which are not asleep, and timeouts expire.
FairSignalBehaviour ==
  SignalBehaviour /\ \A w \in Waiters : WF_signalVars(Look(w)) /\ WF_signalVars(TimeOut(w))

-----------------------------------------------------------------------------
(* Correctness *)

\* Every variable has its type.
SignalTypeOK ==
  /\ autoReset \in BOOLEAN /\ set \in BOOLEAN
  /\ wait \in [Waiters -> WaitPC]

\* The mutex and the condition variable make wait(), set() and reset() atomic:
\* true is only returned on a raised flag, which an auto-reset signal gives to
\* one waiter only, and false only on a lowered one.
Event == INSTANCE SignalSpec WITH
  answer <- [w \in Waiters |->
               IF wait[w] \in {"enter", "asleep", "awake", "expired"}
               THEN "waiting" ELSE wait[w]]

ImplementsSignalSpec == Event!Spec

\* A set() gets through to every waiter, unless the flag is lowered before.
SetWakesUp ==
  \A w \in Waiters : (set /\ ~Returned(w)) ~> (Returned(w) \/ ~set)
=============================================================================
