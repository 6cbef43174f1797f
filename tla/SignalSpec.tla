----------------------------- MODULE SignalSpec -----------------------------
(***************************************************************************)
(* What Mona::Signal promises: an event with a flag.  set() raises the     *)
(* flag, reset() lowers it, and wait() is one atomic step: either it finds *)
(* the flag raised, lowers it when the signal is an auto-reset one, and    *)
(* returns true, or it gives up on a lowered flag and returns false.  The  *)
(* other modules use a signal through these steps.                         *)
(***************************************************************************)
CONSTANTS
  Waiters     \* the threads which call wait()

VARIABLES
  autoReset,  \* the signal's kind
  set,        \* is the flag raised
  answer      \* "none", "waiting", or what the last wait() has returned

vars == <<autoReset, set, answer>>

Init ==
  /\ autoReset \in BOOLEAN
  /\ set = FALSE
  /\ answer = [w \in Waiters |-> "none"]

Set == set' = TRUE /\ UNCHANGED <<autoReset, answer>>

Reset == set' = FALSE /\ UNCHANGED <<autoReset, answer>>

Call(w) ==
  /\ answer[w] # "waiting"
  /\ answer' = [answer EXCEPT ![w] = "waiting"]
  /\ UNCHANGED <<autoReset, set>>

Take(w) ==
  /\ answer[w] = "waiting" /\ set
  /\ answer' = [answer EXCEPT ![w] = "true"]
  /\ set' = ~autoReset
  /\ UNCHANGED autoReset

GiveUp(w) ==
  /\ answer[w] = "waiting" /\ ~set
  /\ answer' = [answer EXCEPT ![w] = "false"]
  /\ UNCHANGED <<autoReset, set>>

Next == Set \/ Reset \/ \E w \in Waiters : Call(w) \/ Take(w) \/ GiveUp(w)

Spec == Init /\ [][Next]_vars
=============================================================================
