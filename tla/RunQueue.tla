------------------------------ MODULE RunQueue ------------------------------
(***************************************************************************)
(* What Mona::ThreadQueue promises to the code that calls queue(): a FIFO  *)
(* executor.  Runners are executed one at a time, in the order in which    *)
(* they were queued, and each of them once.  A runner which raises an      *)
(* exception may take with it runners queued behind it; nothing else is    *)
(* ever lost.  Threads, locks and the wake-up signal are not mentioned:    *)
(* they are the business of the module ThreadQueue, which implements this  *)
(* one.                                                                    *)
(***************************************************************************)
EXTENDS Naturals, Sequences

CONSTANTS
  Runners,   \* the tasks that may be queued
  Throwing   \* the tasks whose run() may raise an exception

VARIABLES
  pending,   \* the tasks queued and not run yet, oldest first
  done,      \* the tasks run, in the order of their execution
  lost       \* the tasks lost by an exception raised before them

vars == <<pending, done, lost>>

Members(s) == {s[i] : i \in DOMAIN s}

Known == Members(pending) \cup Members(done) \cup lost

Init ==
  /\ pending = <<>>
  /\ done = <<>>
  /\ lost = {}

Queue(r) ==
  /\ r \notin Known
  /\ pending' = Append(pending, r)
  /\ UNCHANGED <<done, lost>>

Run ==
  /\ pending # <<>>
  /\ done' = Append(done, Head(pending))
  /\ pending' = Tail(pending)
  /\ UNCHANGED lost

\* The oldest task raises an exception, and the n - 1 tasks behind it are lost.
Raise ==
  /\ pending # <<>>
  /\ Head(pending) \in Throwing
  /\ done' = Append(done, Head(pending))
  /\ \E n \in 1 .. Len(pending) :
       /\ pending' = SubSeq(pending, n + 1, Len(pending))
       /\ lost' = lost \cup Members(SubSeq(pending, 2, n))

Next ==
  \/ \E r \in Runners : Queue(r)
  \/ Run
  \/ Raise

Spec == Init /\ [][Next]_vars

=============================================================================
