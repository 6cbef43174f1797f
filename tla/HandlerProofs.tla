---------------------------- MODULE HandlerProofs ----------------------------
(***************************************************************************)
(* Theorems about Handler, for any producers and results, and any chain of *)
(* results which queue other ones.                                         *)
(*                                                                         *)
(* The order of the results run is not inductive: a result which waits in  *)
(* the deque or in the batch under way has its place too.  The invariant   *)
(* is about the three together, and about the results which are no more in *)
(* any of them.                                                            *)
(***************************************************************************)
EXTENDS Handler, TLAPS

(* Sequences without some elements of another one.                         *)

\* A new last element on both sides.
LEMMA SubSeqAppend ==
  ASSUME NEW S, NEW s \in Seq(S), NEW t \in Seq(S), NEW x \in S, SubSeqOf(s, t)
  PROVE  SubSeqOf(Append(s, x), Append(t, x))
<1>1. PICK at \in [DOMAIN s -> DOMAIN t] :
         /\ \A i \in DOMAIN s : s[i] = t[at[i]]
         /\ \A i, j \in DOMAIN s : i < j => at[i] < at[j]
  BY DEF SubSeqOf
<1> DEFINE n == Len(s)
           m == Len(t)
           new == [i \in 1 .. n + 1 |-> IF i = n + 1 THEN m + 1 ELSE at[i]]
<1>2. /\ DOMAIN s = 1 .. n /\ n \in Nat /\ DOMAIN t = 1 .. m /\ m \in Nat
      /\ DOMAIN Append(s, x) = 1 .. n + 1 /\ DOMAIN Append(t, x) = 1 .. m + 1
  OBVIOUS
<1>3. \A i \in 1 .. n : at[i] \in 1 .. m
  BY <1>2
<1>4. new \in [1 .. n + 1 -> 1 .. m + 1]
  BY <1>2, <1>3
<1>5. \A i \in 1 .. n + 1 : Append(s, x)[i] = Append(t, x)[new[i]]
  <2> SUFFICES ASSUME NEW i \in 1 .. n + 1 PROVE Append(s, x)[i] = Append(t, x)[new[i]]
    OBVIOUS
  <2>1. CASE i = n + 1
    BY <1>2, <2>1
  <2>2. CASE i # n + 1
    BY <1>1, <1>2, <1>3, <2>2
  <2> QED BY <2>1, <2>2
<1>6. /\ new[n + 1] = m + 1
      /\ \A i \in 1 .. n : new[i] = at[i]
  BY <1>2
<1> HIDE DEF new
<1>7. \A i, j \in 1 .. n + 1 : i < j => new[i] < new[j]
  <2> SUFFICES ASSUME NEW i \in 1 .. n + 1, NEW j \in 1 .. n + 1, i < j PROVE new[i] < new[j]
    OBVIOUS
  <2>1. i \in 1 .. n /\ new[i] = at[i] /\ at[i] \in 1 .. m
    BY <1>2, <1>3, <1>6
  <2>2. CASE j = n + 1
    BY <1>2, <1>6, <2>1, <2>2
  <2>3. CASE j # n + 1
    <3> HIDE DEF n, m
    <3>1. j \in 1 .. n
      BY <1>2, <2>3
    <3>2. new[j] = at[j]
      BY <1>6, <3>1
    <3>3. at[i] < at[j]
      BY <1>1, <1>2, <2>1, <3>1
    <3> QED BY <2>1, <3>2, <3>3
  <2> QED BY <2>2, <2>3
<1> QED BY <1>2, <1>4, <1>5, <1>7 DEF SubSeqOf

\* The end of the shorter one may be dropped.
LEMMA SubSeqPrefix ==
  ASSUME NEW S, NEW s \in Seq(S), NEW u \in Seq(S), NEW t \in Seq(S), SubSeqOf(s \o u, t)
  PROVE  SubSeqOf(s, t)
<1>1. PICK at \in [DOMAIN (s \o u) -> DOMAIN t] :
         /\ \A i \in DOMAIN (s \o u) : (s \o u)[i] = t[at[i]]
         /\ \A i, j \in DOMAIN (s \o u) : i < j => at[i] < at[j]
  BY DEF SubSeqOf
<1> DEFINE cut == [i \in DOMAIN s |-> at[i]]
<1>2. DOMAIN s \subseteq DOMAIN (s \o u) /\ \A i \in DOMAIN s : (s \o u)[i] = s[i]
  OBVIOUS
<1>3. cut \in [DOMAIN s -> DOMAIN t] /\ \A i \in DOMAIN s : cut[i] = at[i]
  BY <1>2
<1> HIDE DEF cut
<1> QED BY <1>1, <1>2, <1>3 DEF SubSeqOf

\* The elements of a sequence which grows.
LEMMA MembersAppend ==
  ASSUME NEW S, NEW s \in Seq(S), NEW x \in S
  PROVE  Members(Append(s, x)) = Members(s) \cup {x}
<1>1. \A i \in 1 .. Len(s) + 1 : Append(s, x)[i] = IF i = Len(s) + 1 THEN x ELSE s[i]
  OBVIOUS
<1>2. DOMAIN Append(s, x) = 1 .. Len(s) + 1 /\ DOMAIN s = 1 .. Len(s) /\ Len(s) \in Nat
  OBVIOUS
<1> QED BY <1>1, <1>2 DEF Members

\* The elements of two sequences which follow.
LEMMA MembersConcat ==
  ASSUME NEW S, NEW s \in Seq(S), NEW t \in Seq(S)
  PROVE  Members(s \o t) = Members(s) \cup Members(t)
<1>1. /\ DOMAIN (s \o t) = 1 .. Len(s) + Len(t) /\ Len(s) \in Nat /\ Len(t) \in Nat
      /\ DOMAIN s = 1 .. Len(s) /\ DOMAIN t = 1 .. Len(t)
      /\ \A i \in 1 .. Len(s) + Len(t) :
           (s \o t)[i] = IF i <= Len(s) THEN s[i] ELSE t[i - Len(s)]
  OBVIOUS
<1>2. \A i \in 1 .. Len(s) : s[i] \in Members(s \o t)
  BY <1>1 DEF Members
<1>3. \A i \in 1 .. Len(t) : t[i] \in Members(s \o t)
  <2> SUFFICES ASSUME NEW i \in 1 .. Len(t) PROVE t[i] \in Members(s \o t)
    OBVIOUS
  <2>1. Len(s) + i \in DOMAIN (s \o t) /\ (s \o t)[Len(s) + i] = t[i]
    BY <1>1
  <2> QED BY <2>1 DEF Members
<1>4. \A i \in DOMAIN (s \o t) : (s \o t)[i] \in Members(s) \cup Members(t)
  BY <1>1 DEF Members
<1> QED BY <1>1, <1>2, <1>3, <1>4 DEF Members

-----------------------------------------------------------------------------
(* The invariant.                                                          *)

\* The results run, those of the batch and those of the deque, in this order.
Line == (done \o batch) \o runners

\* They are in the order of their acceptance.
Ordered == SubSeqOf(Line, accepted)

\* A result accepted is one of them, unless a reset() has dropped it.
Accounted == Members(accepted) = Members(Line) \cup cleared

\* There is a batch only while flush() runs it.
BatchUnderWay == owner # "run" => batch = <<>>

IInv == TypeOK /\ Ordered /\ Accounted /\ BatchUnderWay

\* tryQueue() adds at the end of the line.
LEMMA QueuedLine ==
  ASSUME TypeOK, NEW r \in Runners, Queued(r),
         NEW d \in Seq(Runners), NEW b \in Seq(Runners),
         SubSeqOf((d \o b) \o runners, accepted),
         Members(accepted) = Members((d \o b) \o runners) \cup cleared
  PROVE  /\ SubSeqOf((d \o b) \o runners', accepted')
         /\ Members(accepted') = Members((d \o b) \o runners') \cup cleared
         /\ runners' \in Seq(Runners) /\ accepted' \in Seq(Runners)
<1> DEFINE l == d \o b
<1>1. l \in Seq(Runners) /\ runners \in Seq(Runners) /\ accepted \in Seq(Runners)
  BY DEF TypeOK
<1>2. runners' = Append(runners, r) /\ accepted' = Append(accepted, r)
  BY DEF Queued
<1> HIDE DEF l
<1>3. l \o Append(runners, r) = Append(l \o runners, r) /\ l \o runners \in Seq(Runners)
  BY <1>1
<1>4. SubSeqOf(l \o runners', accepted')
  BY <1>1, <1>2, <1>3, SubSeqAppend DEF l
<1>5. /\ Members(Append(l \o runners, r)) = Members(l \o runners) \cup {r}
      /\ Members(Append(accepted, r)) = Members(accepted) \cup {r}
  <2>1. \A s \in Seq(Runners) : Members(Append(s, r)) = Members(s) \cup {r}
    BY MembersAppend
  <2> QED BY <1>1, <1>3, <2>1
<1>6. Members(accepted') = Members(l \o runners') \cup cleared
  BY <1>2, <1>3, <1>5 DEF l
<1> QED BY <1>1, <1>2, <1>4, <1>6 DEF l

-----------------------------------------------------------------------------
(* The steps.                                                              *)

\* A producer queues a result, or fails to.
LEMMA ProducerStep ==
  ASSUME IInv, NEW p \in Producers, NEW r \in Runners, TryQueue(p, r) \/ Queue(p, r)
  PROVE  IInv'
<1>1. /\ UNCHANGED <<open, batch, owner, last, done, cleared>>
      /\ raised' \in {raised, raised \cup {p}}
      /\ Queued(r) \/ NotQueued
  BY DEF TryQueue, Queue, historyVars
<1>2. /\ SubSeqOf(Line', accepted') /\ Members(accepted') = Members(Line') \cup cleared
      /\ runners' \in Seq(Runners) /\ accepted' \in Seq(Runners) /\ signal' \in BOOLEAN
  <2>1. CASE Queued(r)
    <3>1. done \in Seq(Runners) /\ batch \in Seq(Runners)
      BY DEF IInv, TypeOK
    <3>2. /\ SubSeqOf((done \o batch) \o runners', accepted')
          /\ Members(accepted') = Members((done \o batch) \o runners') \cup cleared
          /\ runners' \in Seq(Runners) /\ accepted' \in Seq(Runners)
      BY <2>1, <3>1, QueuedLine DEF IInv, Ordered, Accounted, Line
    <3>3. signal' \in BOOLEAN
      BY <2>1 DEF Queued
    <3> QED BY <1>1, <3>2, <3>3 DEF Line
  <2>2. CASE NotQueued
    <3>1. Line' = Line /\ accepted' = accepted /\ runners' = runners /\ signal' = signal
      BY <1>1, <2>2 DEF NotQueued, Line
    <3> QED BY <3>1 DEF IInv, Ordered, Accounted, TypeOK
  <2> QED BY <1>1, <2>1, <2>2
<1>3. TypeOK'
  BY <1>1, <1>2 DEF IInv, TypeOK
<1> QED BY <1>1, <1>2, <1>3 DEF IInv, Ordered, Accounted, BatchUnderWay

\* flush() takes the deque.
LEMMA FlushTakeStep ==
  ASSUME IInv, FlushTake
  PROVE  IInv'
<1>1. /\ batch = <<>> /\ batch' = runners /\ runners' = <<>> /\ owner' = "run"
      /\ open' = (open /\ ~last)
      /\ UNCHANGED <<signal, last, raised, accepted, done, cleared>>
  BY DEF FlushTake, IInv, BatchUnderWay
<1>2. runners \in Seq(Runners) /\ done \in Seq(Runners)
  BY DEF IInv, TypeOK
<1>3. (done \o runners) \o <<>> = (done \o <<>>) \o runners
  BY <1>2
<1>4. Line' = Line
  BY <1>1, <1>3 DEF Line
<1>5. open' \in BOOLEAN
  BY <1>1
<1>6. runners' \in Seq(Runners) /\ batch' \in Seq(Runners)
  BY <1>1, <1>2
<1>7. TypeOK'
  BY <1>1, <1>5, <1>6 DEF IInv, TypeOK, OwnerPC
<1> QED BY <1>1, <1>4, <1>7 DEF IInv, Ordered, Accounted, BatchUnderWay

\* A result of the batch runs.
LEMMA FlushRunStep ==
  ASSUME IInv, FlushRun
  PROVE  IInv'
<1> DEFINE r == Head(batch)
           d == Append(done, r)
           b == Tail(batch)
<1>1. /\ done' = d /\ batch' = b /\ owner = "run" /\ batch # <<>>
      /\ UNCHANGED <<open, owner, last, raised, cleared>>
      /\ (Chained[r] # None /\ Queued(Chained[r])) \/ NotQueued
  BY DEF FlushRun
<1>2. TypeOK /\ done \in Seq(Runners) /\ batch \in Seq(Runners) /\ runners \in Seq(Runners)
  BY DEF IInv, TypeOK
<1>3. r \in Runners /\ d \in Seq(Runners) /\ b \in Seq(Runners) /\ batch = <<r>> \o b
  BY <1>1, <1>2
<1>4. d \o b = done \o batch
  BY <1>1, <1>2
<1> HIDE DEF r, d, b
<1>5. /\ SubSeqOf((d \o b) \o runners, accepted)
      /\ Members(accepted) = Members((d \o b) \o runners) \cup cleared
  BY <1>4 DEF IInv, Ordered, Accounted, Line
<1>6. /\ SubSeqOf(Line', accepted') /\ Members(accepted') = Members(Line') \cup cleared
      /\ runners' \in Seq(Runners) /\ accepted' \in Seq(Runners) /\ signal' \in BOOLEAN
  <2>1. CASE Chained[r] # None /\ Queued(Chained[r])
    <3>1. Chained[r] \in Runners
      BY <1>3, <2>1, HandlerAssumption
    <3>2. /\ SubSeqOf((d \o b) \o runners', accepted')
          /\ Members(accepted') = Members((d \o b) \o runners') \cup cleared
          /\ runners' \in Seq(Runners) /\ accepted' \in Seq(Runners)
      BY <1>2, <1>3, <1>5, <2>1, <3>1, QueuedLine
    <3>3. signal' \in BOOLEAN
      BY <2>1 DEF Queued
    <3> QED BY <1>1, <3>2, <3>3 DEF Line
  <2>2. CASE NotQueued
    <3>1. Line' = (d \o b) \o runners /\ UNCHANGED <<accepted, runners, signal>>
      BY <1>1, <2>2 DEF NotQueued, Line
    <3> QED BY <1>2, <1>5, <3>1 DEF TypeOK
  <2> QED BY <1>1, <2>1, <2>2
<1>7. TypeOK'
  BY <1>1, <1>2, <1>3, <1>6 DEF TypeOK
<1> QED BY <1>1, <1>6, <1>7 DEF IInv, Ordered, Accounted, BatchUnderWay

\* reset() drops the deque.
LEMMA ReopenStep ==
  ASSUME IInv, Reopen
  PROVE  IInv'
<1>1. /\ batch = <<>> /\ cleared' = cleared \cup Members(runners) /\ runners' = <<>>
      /\ open' = TRUE /\ owner' = "wait"
      /\ UNCHANGED <<signal, batch, last, raised, accepted, done>>
  BY DEF Reopen, IInv, BatchUnderWay
<1>2. TypeOK /\ runners \in Seq(Runners) /\ done \in Seq(Runners) /\ accepted \in Seq(Runners)
  BY DEF IInv, TypeOK
<1>3. Line = done \o runners /\ Line' = done
  BY <1>1, <1>2 DEF Line
<1>4. SubSeqOf(done, accepted)
  BY <1>2, <1>3, SubSeqPrefix DEF IInv, Ordered
<1>5. Members(Line) = Members(done) \cup Members(runners) /\ Members(runners) \subseteq Runners
  <2>1. Members(done \o runners) = Members(done) \cup Members(runners)
    BY <1>2, MembersConcat
  <2>2. Members(runners) \subseteq Runners
    BY <1>2 DEF Members
  <2> QED BY <1>2, <1>3, <2>1, <2>2
<1>6. Members(accepted') = Members(Line') \cup cleared'
  BY <1>1, <1>3, <1>5 DEF IInv, Accounted
<1>7. TypeOK'
  <2>1. runners' \in Seq(Runners) /\ cleared' \subseteq Runners
    BY <1>1, <1>2, <1>5 DEF TypeOK
  <2> QED BY <1>1, <1>2, <2>1 DEF TypeOK, OwnerPC
<1> QED BY <1>1, <1>3, <1>4, <1>6, <1>7 DEF IInv, Ordered, Accounted, BatchUnderWay

\* The other steps leave the line as it is.
LEMMA OtherStep ==
  ASSUME IInv, Woken \/ End \/ FlushEnd \/ UNCHANGED vars
  PROVE  IInv'
<1>1. UNCHANGED <<runners, batch, accepted, done, cleared>>
  BY DEF Woken, End, FlushEnd, vars, historyVars
<1>2. Line' = Line
  BY <1>1 DEF Line
<1>3. TypeOK'
  BY DEF Woken, End, FlushEnd, vars, historyVars, IInv, TypeOK, OwnerPC
<1>4. BatchUnderWay'
  BY DEF Woken, End, FlushEnd, vars, IInv, BatchUnderWay
<1> QED BY <1>1, <1>2, <1>3, <1>4 DEF IInv, Ordered, Accounted

-----------------------------------------------------------------------------
(* The theorems.                                                           *)

\* IInv is inductive.
THEOREM Inductive ==
  /\ Init => IInv
  /\ IInv /\ [Next]_vars => IInv'
<1>1. ASSUME Init PROVE IInv
  <2>1. Line = <<>>
    BY <1>1 DEF Init, Line
  <2>2. SubSeqOf(<<>>, <<>>)
    <3>1. [i \in DOMAIN <<>> |-> i] \in [DOMAIN <<>> -> DOMAIN <<>>]
      OBVIOUS
    <3> QED BY <3>1 DEF SubSeqOf
  <2>3. <<>> \in Seq(Runners)
    OBVIOUS
  <2>4. TypeOK
    BY <1>1, <2>3 DEF Init, TypeOK, OwnerPC
  <2> QED BY <1>1, <2>1, <2>2, <2>4 DEF Init, IInv, Ordered, Accounted, BatchUnderWay, Members
<1>2. ASSUME IInv, Next PROVE IInv'
  BY <1>2, ProducerStep, FlushTakeStep, FlushRunStep, ReopenStep, OtherStep DEF Next, Flush
<1> QED BY <1>1, <1>2, OtherStep

\* IInv holds in every state.
THEOREM Invariance == Spec => []IInv
BY Inductive, PTL DEF Spec

\* Every variable of Handler has its type.
THEOREM TypeCorrect == Spec => []TypeOK
<1>1. IInv => TypeOK
  BY DEF IInv
<1> QED BY <1>1, Invariance, PTL

\* The results run in the order in which tryQueue() has accepted them, whatever thread has
\* queued them, and once for each acceptance.
THEOREM InOrder == Spec => []RunInOrder
<1>1. IInv => RunInOrder
  <2> SUFFICES ASSUME IInv PROVE RunInOrder
    OBVIOUS
  <2>1. done \in Seq(Runners) /\ batch \in Seq(Runners) /\ runners \in Seq(Runners)
        /\ accepted \in Seq(Runners)
    BY DEF IInv, TypeOK
  <2>2. done \o batch \in Seq(Runners)
    BY <2>1
  <2>3. SubSeqOf(done \o batch, accepted)
    BY <2>1, <2>2, SubSeqPrefix DEF IInv, Ordered, Line
  <2>4. SubSeqOf(done, accepted)
    BY <2>1, <2>3, SubSeqPrefix
  <2> QED BY <2>4 DEF RunInOrder
<1> QED BY <1>1, Invariance, PTL

\* No result accepted is lost between the deque, the batch and its run, but by a reset():
\* the safe part of EveryResultRuns.
THEOREM NothingLost ==
  Spec => [](Members(accepted) = Members(done) \cup Members(batch) \cup Members(runners) \cup cleared)
<1>1. IInv => Members(accepted) = Members(done) \cup Members(batch) \cup Members(runners) \cup cleared
  <2> SUFFICES ASSUME IInv
               PROVE  Members(accepted) = Members(done) \cup Members(batch) \cup Members(runners) \cup cleared
    OBVIOUS
  <2>1. done \in Seq(Runners) /\ batch \in Seq(Runners) /\ runners \in Seq(Runners)
    BY DEF IInv, TypeOK
  <2>2. done \o batch \in Seq(Runners)
    BY <2>1
  <2>3. Members(Line) = Members(done \o batch) \cup Members(runners)
    <3> DEFINE told == done \o batch
    <3>1. told \in Seq(Runners) /\ runners \in Seq(Runners)
      BY <2>1, <2>2
    <3> HIDE DEF told
    <3>2. Members(told \o runners) = Members(told) \cup Members(runners)
      BY ONLY <3>1, MembersConcat
    <3> QED BY ONLY <3>2 DEF Line, told
  <2>4. Members(done \o batch) = Members(done) \cup Members(batch)
    BY ONLY <2>1, MembersConcat
  <2> QED BY <2>3, <2>4 DEF IInv, Accounted
<1> QED BY <1>1, Invariance, PTL
=============================================================================
