----------------------------- MODULE MCThreads -----------------------------
(***************************************************************************)
(* Instances of Handler and of Signal for TLC, each by itself: a behaviour *)
(* is one of one of them, and the other one stays as it is.  The           *)
(* properties are those of the two modules.                                *)
(***************************************************************************)
EXTENDS Handler, Signal

CONSTANTS r1, r2, r3, r4

VARIABLE part

\* Four results: r4 is only queued by r1, while a flush runs it.
MCRunners == {r1, r2, r3, r4}
MCChained == [r \in MCRunners |-> IF r = r1 THEN r4 ELSE None]

ThreadsInit ==
  /\ part \in {"Handler", "Signal"}
  /\ Init
  /\ SignalInit /\ (part = "Signal" \/ ~autoReset)

ThreadsNext ==
  \/ part = "Handler" /\ Next /\ UNCHANGED <<part, signalVars>>
  \/ part = "Signal" /\ SignalNext /\ UNCHANGED <<part, vars>>

\* With the fairness which the two modules state.
ThreadsSpec ==
  /\ ThreadsInit /\ [][ThreadsNext]_<<part, vars, signalVars>>
  /\ WF_vars(part = "Handler" /\ Woken) /\ WF_vars(part = "Handler" /\ Flush)
  /\ \A w \in Waiters : /\ WF_signalVars(part = "Signal" /\ Look(w))
                       /\ WF_signalVars(part = "Signal" /\ TimeOut(w))
=============================================================================
