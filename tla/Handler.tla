------------------------------ MODULE Handler ------------------------------
(***************************************************************************)
(* Mona::Handler (Mona/Threading/Handler.h, Handler.cpp): the way back of  *)
(* a result from any thread to the thread of the application.  Producers   *)
(* queue runners and set the signal; the owner waits for the signal and    *)
(* flushes the handler, that is runs all what it held when the flush has   *)
(* begun.  A last flush closes the handler: from then on tryQueue() fails, *)
(* until a reset() opens it again.  The loop of the owner belongs to the   *)
(* application (it is the code the comments of Handler.cpp:32-33 have in   *)
(* mind); all the critical sections of _mutex are single actions.          *)
(***************************************************************************)
EXTENDS Naturals, Sequences

CONSTANTS
  Producers,  \* the threads which queue results
  Runners,    \* the results; each is queued at most once, by one producer
  Chained,    \* Chained[r]: the result which r queues when it runs, or None
  None

ASSUME HandlerAssumption ==
  /\ None \notin Runners
  /\ Chained \in [Runners -> Runners \cup {None}]

VARIABLES
  open,      \* _pSignal # NULL
  signal,    \* the flag of *_pSignal
  runners,   \* _runners
  batch,     \* flush()'s local deque
  owner,     \* where the application's thread is
  last,      \* the parameter of the flush under way
  raised,    \* the producers which have got an exception from queue()
  accepted,  \* history: the runners accepted, in order
  done,      \* history: the runners run, in order
  cleared    \* history: the runners dropped by reset()

historyVars == <<done, cleared>>
vars == <<open, signal, runners, batch, owner, last, raised, accepted, historyVars>>

OwnerPC == {"wait", "flush", "run", "closed"}

Members(s) == {s[i] : i \in DOMAIN s}

\* The results which only another result queues.
Links == {Chained[r] : r \in Runners} \ {None}

Init ==
  /\ open = TRUE
  /\ signal = FALSE
  /\ runners = <<>>
  /\ batch = <<>>
  /\ owner = "wait"
  /\ last = FALSE
  /\ raised = {}
  /\ accepted = <<>>
  /\ done = <<>>
  /\ cleared = {}

\* Mutant of Queued: no signal.
QueuedSilently(r) ==
  /\ runners' = Append(runners, r)
  /\ accepted' = Append(accepted, r)
  /\ UNCHANGED signal

\* Mutant of Queued: at the front of the deque.
QueuedFirst(r) ==
  /\ runners' = <<r>> \o runners
  /\ accepted' = Append(accepted, r)
  /\ signal' = TRUE

Queued(r) ==
  /\ runners' = Append(runners, r)
  /\ accepted' = Append(accepted, r)
  /\ signal' = TRUE

NotQueued == UNCHANGED <<runners, accepted, signal>>

CanQueue(p, r) == p \notin raised /\ r \notin Members(accepted) \cup Links

\* tryQueue(): the handler is tested and filled under the lock; false when closed.
TryQueue(p, r) ==
  /\ CanQueue(p, r)
  /\ IF open THEN Queued(r) ELSE NotQueued
  /\ UNCHANGED <<open, batch, owner, last, raised, historyVars>>

\* queue(): a tryQueue() which ends with an exception when it fails.
Queue(p, r) ==
  /\ CanQueue(p, r)
  /\ IF open
     THEN Queued(r) /\ UNCHANGED raised
     ELSE NotQueued /\ raised' = raised \cup {p}
  /\ UNCHANGED <<open, batch, owner, last, historyVars>>

\* The application waits for the signal, or decides to end.
Woken ==
  /\ owner = "wait" /\ signal
  /\ signal' = FALSE
  /\ owner' = "flush"
  /\ UNCHANGED <<open, runners, batch, last, raised, accepted, historyVars>>

End ==
  /\ owner = "wait"
  /\ owner' = "flush"
  /\ last' = TRUE
  /\ UNCHANGED <<open, signal, runners, batch, raised, accepted, historyVars>>

\* The critical section of flush(last).
FlushTake ==
  /\ owner = "flush"
  /\ open' = (open /\ ~last)
  /\ batch' = runners
  /\ runners' = <<>>
  /\ owner' = "run"
  /\ UNCHANGED <<signal, last, raised, accepted, done, cleared>>

\* A runner of the batch runs, and tries to queue the next one of its chain.
FlushRun ==
  /\ owner = "run" /\ batch # <<>>
  /\ done' = Append(done, Head(batch))
  /\ batch' = Tail(batch)
  /\ IF open /\ Chained[Head(batch)] # None
     THEN Queued(Chained[Head(batch)])
     ELSE NotQueued
  /\ UNCHANGED <<open, owner, last, raised, cleared>>

FlushEnd ==
  /\ owner = "run" /\ batch = <<>>
  /\ owner' = IF last THEN "closed" ELSE "wait"
  /\ last' = FALSE
  /\ UNCHANGED <<open, signal, runners, batch, raised, accepted, historyVars>>

\* reset(signal), out of the flushes.
Reopen ==
  /\ owner \in {"wait", "closed"}
  /\ cleared' = cleared \cup Members(runners)
  /\ runners' = <<>>
  /\ open' = TRUE
  /\ owner' = "wait"
  /\ UNCHANGED <<signal, batch, last, raised, accepted, done>>

Flush == FlushTake \/ FlushRun \/ FlushEnd

Next ==
  \/ \E p \in Producers, r \in Runners : TryQueue(p, r) \/ Queue(p, r)
  \/ Woken \/ End \/ Flush
  \/ Reopen

Spec == Init /\ [][Next]_vars

\* The loop of the application goes on.
FairSpec == Spec /\ WF_vars(Woken) /\ WF_vars(Flush)

-----------------------------------------------------------------------------
(* Correctness *)

\* Every variable has its type.
TypeOK ==
  /\ open \in BOOLEAN /\ signal \in BOOLEAN /\ last \in BOOLEAN
  /\ owner \in OwnerPC
  /\ runners \in Seq(Runners) /\ batch \in Seq(Runners)
  /\ accepted \in Seq(Runners) /\ done \in Seq(Runners)
  /\ raised \subseteq Producers
  /\ cleared \subseteq Runners

\* s is t without some of its elements.
SubSeqOf(s, t) ==
  \E at \in [DOMAIN s -> DOMAIN t] :
    /\ \A i \in DOMAIN s : s[i] = t[at[i]]
    /\ \A i, j \in DOMAIN s : i < j => at[i] < at[j]

\* The results run in the order of their acceptance, and once for each acceptance.
RunInOrder == SubSeqOf(done, accepted)

\* A result accepted is run, unless a reset() drops it.
EveryResultRuns ==
  \A r \in Runners :
    r \in Members(accepted) ~> r \in Members(done) \cup cleared
=============================================================================
