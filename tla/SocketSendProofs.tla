-------------------------- MODULE SocketSendProofs --------------------------
(***************************************************************************)
(* Theorems about SocketSend, for any number of threads, any size of the   *)
(* buffer of the system, of the packets and any number of them.            *)
(*                                                                         *)
(* SentInOrder and QueueingIsExact speak of the socket while nobody has    *)
(* its mutex; the invariant says what is true inside a critical section    *)
(* too, and what is left of _queueing once the system has failed.          *)
(*                                                                         *)
(* FlattenSeq is defined by recursion, so the first part is what it does   *)
(* to a queue: a packet comes at its end, its front goes, or a part of it. *)
(* The library's induction theorems take an operator, which the provers    *)
(* cannot instantiate; the induction used here takes a set instead, and    *)
(* comes from the finiteness of an interval.                               *)
(***************************************************************************)
EXTENDS SocketSend, SequenceTheorems, FiniteSetTheorems, TLAPS

(* Induction, and FlattenSeq by its iteration.                             *)

\* \o under a name which the provers do not expand unless they are told to.
Joined(a, b) == a \o b

\* Three pieces joined are the same bytes however they are grouped.
LEMMA JoinedRegroups ==
  ASSUME NEW S, NEW a \in Seq(S), NEW b \in Seq(S), NEW c \in Seq(S)
  PROVE  /\ Joined(b, c) \in Seq(S)
         /\ Joined(Joined(a, b), c) = Joined(a, Joined(b, c))
<1>1. Joined(b, c) \in Seq(S)
  BY DEF Joined
<1>2. (a \o b) \o c = a \o (b \o c)
  BY ConcatAssociative
<1> QED BY <1>1, <1>2 DEF Joined

\* A set which has 0 and the successor of each of its elements has every number: a
\* missing n would make i - 1 an injection of the missing numbers up to n, which
\* are finitely many, that misses n.
LEMMA Induction ==
  ASSUME NEW T, 0 \in T, \A n \in Nat : n \in T => n + 1 \in T
  PROVE  Nat \subseteq T
<1>1. SUFFICES ASSUME NEW n \in Nat, n \notin T PROVE FALSE
  OBVIOUS
<1> DEFINE V == {i \in 0 .. n : i \notin T}
           f == [i \in V |-> i - 1]
<1>2. IsFiniteSet(V)
  <2>1. IsFiniteSet(0 .. n) BY FS_Interval
  <2> QED BY <2>1, FS_Subset
<1>3. \A i \in V : i - 1 \in V \ {n}
  OBVIOUS
<1>4. f \in Injection(V, V)
  BY <1>3 DEF Injection, IsInjective
<1>5. f \in Surjection(V, V)
  <2> HIDE DEF f, V
  <2> QED BY <1>2, <1>4, FS_Injection
<1>6. n \in V
  BY <1>1
<1>7. \E i \in V : f[i] = n
  <2> HIDE DEF f, V
  <2> QED BY <1>5, <1>6 DEF Surjection
<1> QED BY <1>7, <1>3

\* f is the iteration of G from a.
Iterates(f, a, G, n) == f[0] = a /\ \A i \in 1 .. n : f[i] = G[i][f[i - 1]]

\* An iteration exists, by induction on its length.
LEMMA IterationExists ==
  ASSUME NEW V, NEW a \in V, NEW n \in Nat, NEW G \in [1 .. n -> [V -> V]]
  PROVE  \E f \in [0 .. n -> V] : Iterates(f, a, G, n)
<1> DEFINE T == {m \in Nat : m <= n => \E f \in [0 .. m -> V] : Iterates(f, a, G, m)}
<1>1. 0 \in T
  <2>1. [i \in 0 .. 0 |-> a] \in [0 .. 0 -> V] /\ Iterates([i \in 0 .. 0 |-> a], a, G, 0)
    BY DEF Iterates
  <2> QED BY <2>1
<1>2. ASSUME NEW m \in Nat, m \in T PROVE m + 1 \in T
  <2>1. SUFFICES ASSUME m + 1 <= n
                 PROVE  \E f \in [0 .. m + 1 -> V] : Iterates(f, a, G, m + 1)
    OBVIOUS
  <2>2. PICK f \in [0 .. m -> V] : Iterates(f, a, G, m)
    BY <1>2, <2>1
  <2> DEFINE last == G[m + 1][f[m]]
             g == [i \in 0 .. m + 1 |-> IF i = m + 1 THEN last ELSE f[i]]
  <2>3. last \in V
    BY <2>1
  <2>4. g \in [0 .. m + 1 -> V]
    BY <2>3
  <2>5. Iterates(g, a, G, m + 1)
    BY <2>2 DEF Iterates
  <2> QED BY <2>4, <2>5
<1>3. n \in T
  <2> HIDE DEF T
  <2> QED BY <1>1, <1>2, Induction
<1> QED BY <1>3

\* What each step of FlattenSeq does to what comes before.
Concat(S, ss) == [i \in 1 .. Len(ss) |-> [s \in Seq(S) |-> s \o ss[i]]]

\* Each of these steps makes a sequence from a sequence.
LEMMA ConcatType ==
  ASSUME NEW S, NEW ss \in Seq(Seq(S))
  PROVE  Concat(S, ss) \in [1 .. Len(ss) -> [Seq(S) -> Seq(S)]]
<1>1. \A i \in 1 .. Len(ss) : ss[i] \in Seq(S)
  OBVIOUS
<1> QED BY <1>1 DEF Concat

\* FlattenSeq is the last concatenation.
LEMMA FlattenIterates ==
  ASSUME NEW S, NEW ss \in Seq(Seq(S)), NEW f \in [0 .. Len(ss) -> Seq(S)],
         Iterates(f, <<>>, Concat(S, ss), Len(ss))
  PROVE  FlattenSeq(ss) = f[Len(ss)]
<1> DEFINE n == Len(ss)
           Step(h, i) == IF i = 1 THEN ss[i] ELSE h[i - 1] \o ss[i]
           F == CHOOSE h : h = [i \in 1 .. n |-> Step(h, i)]
           r == [i \in 1 .. n |-> f[i]]
<1>1. /\ n \in Nat /\ f \in [0 .. n -> Seq(S)]
      /\ \A i \in 1 .. n : ss[i] \in Seq(S)
  OBVIOUS
<1>2. FlattenSeq(ss) = IF n = 0 THEN ss ELSE F[n]
  BY DEF FlattenSeq
<1>3. f[0] = <<>> /\ \A i \in 1 .. n : f[i] = f[i - 1] \o ss[i]
  <2>1. f[0] = <<>> /\ \A i \in 1 .. n : f[i] = Concat(S, ss)[i][f[i - 1]]
    BY DEF Iterates
  <2>2. \A i \in 1 .. n, s \in Seq(S) : Concat(S, ss)[i][s] = s \o ss[i]
    BY DEF Concat
  <2> HIDE DEF n
  <2>3. \A i \in 1 .. n : f[i - 1] \in Seq(S)
    BY <1>1
  <2> QED BY <2>1, <2>2, <2>3
<1>4. CASE n = 0
  BY <1>2, <1>3, <1>4
<1>5. CASE n # 0
  <2> HIDE DEF n
  <2>1. \A i \in 1 .. n : f[i] = Step(r, i)
    <3>1. ASSUME NEW i \in 1 .. n, i # 1 PROVE f[i] = Step(r, i)
      <4>1. i - 1 \in 1 .. n
        BY <3>1, <1>1
      <4> QED BY <3>1, <4>1, <1>3
    <3>2. f[1] = Step(r, 1)
      <4>1. 1 \in 1 .. n /\ 1 - 1 = 0
        BY <1>1, <1>5
      <4>2. f[1] = <<>> \o ss[1] /\ ss[1] \in Seq(S)
        BY <1>1, <1>3, <4>1
      <4> QED BY <4>2, ConcatEmptySeq
    <3> QED BY <3>1, <3>2
  <2>2. F = [i \in 1 .. n |-> Step(F, i)]
    <3>1. r = [i \in 1 .. n |-> Step(r, i)]
      <4> HIDE DEF Step
      <4> QED BY <2>1
    <3> HIDE DEF Step, r
    <3> QED BY <3>1
  <2>3. \A i \in 1 .. n : F[i] = Step(F, i)
    <3> HIDE DEF Step, F
    <3> QED BY <2>2
  <2> HIDE DEF F
  <2> DEFINE T == {i \in Nat : i \in 1 .. n => F[i] = f[i]}
  <2>4. 0 \in T
    OBVIOUS
  <2>5. ASSUME NEW m \in Nat, m \in T PROVE m + 1 \in T
    <3>1. SUFFICES ASSUME m + 1 \in 1 .. n PROVE F[m + 1] = f[m + 1]
      OBVIOUS
    <3> DEFINE k == m + 1
    <3>2. k \in 1 .. n /\ k - 1 = m
      BY <3>1
    <3> HIDE DEF k
    <3>3. k # 1 => r[k - 1] = F[k - 1]
      BY <2>5, <3>2, <1>1
    <3>4. F[k] = f[k]
      BY <2>1, <2>3, <3>2, <3>3
    <3> QED BY <3>4 DEF k
  <2>6. Nat \subseteq T
    <3> HIDE DEF T
    <3> QED BY <2>4, <2>5, Induction
  <2> QED BY <2>6, <1>1, <1>2, <1>5
<1> QED BY <1>4, <1>5

\* FlattenSeq gives a sequence, whose elements come after those of the sequences before.
LEMMA FlattenAppend ==
  ASSUME NEW S, NEW ss \in Seq(Seq(S)), NEW s \in Seq(S)
  PROVE  /\ FlattenSeq(ss) \in Seq(S)
         /\ FlattenSeq(Append(ss, s)) = FlattenSeq(ss) \o s
<1> DEFINE n == Len(ss)
           tt == Append(ss, s)
<1>1. n \in Nat /\ tt \in Seq(Seq(S)) /\ Len(tt) = n + 1
  OBVIOUS
<1>2. tt[n + 1] = s /\ \A i \in 1 .. n : tt[i] = ss[i] /\ ss[i] \in Seq(S)
  OBVIOUS
<1>3. PICK f \in [0 .. Len(tt) -> Seq(S)] : Iterates(f, <<>>, Concat(S, tt), Len(tt))
  <2>1. <<>> \in Seq(S)
    OBVIOUS
  <2> HIDE DEF tt
  <2>2. Concat(S, tt) \in [1 .. Len(tt) -> [Seq(S) -> Seq(S)]]
    BY <1>1, ConcatType
  <2>3. Len(tt) \in Nat
    BY <1>1
  <2> QED BY <2>1, <2>2, <2>3, IterationExists
<1> DEFINE g == [i \in 0 .. n |-> f[i]]
<1> HIDE DEF tt
<1>4. f \in [0 .. n + 1 -> Seq(S)] /\ g \in [0 .. n -> Seq(S)]
  <2> HIDE DEF n
  <2> QED BY <1>1
<1>5. f[0] = <<>> /\ \A i \in 1 .. n + 1 : f[i] = f[i - 1] \o tt[i]
  <2>1. f[0] = <<>> /\ \A i \in 1 .. n + 1 : f[i] = Concat(S, tt)[i][f[i - 1]]
    BY <1>1, <1>3 DEF Iterates
  <2> HIDE DEF n
  <2>2. \A i \in 1 .. n + 1, x \in Seq(S) : Concat(S, tt)[i][x] = x \o tt[i]
    BY <1>1 DEF Concat
  <2>3. \A i \in 1 .. n + 1 : f[i - 1] \in Seq(S)
    BY <1>1, <1>4
  <2> QED BY <2>1, <2>2, <2>3
<1>6. Iterates(g, <<>>, Concat(S, ss), n)
  <2>1. \A i \in 1 .. n, x \in Seq(S) : Concat(S, ss)[i][x] = x \o ss[i]
    BY DEF Concat
  <2> HIDE DEF n
  <2>2. g[0] = <<>>
    BY <1>1, <1>5
  <2>3. ASSUME NEW i \in 1 .. n PROVE g[i] = Concat(S, ss)[i][g[i - 1]]
    <3>1. i - 1 \in 0 .. n /\ i \in 1 .. n + 1
      BY <1>1
    <3>2. g[i] = f[i] /\ g[i - 1] = f[i - 1]
      BY <3>1
    <3>3. g[i - 1] \in Seq(S)
      BY <3>1, <1>4
    <3>4. f[i] = f[i - 1] \o ss[i]
      BY <3>1, <1>2, <1>5
    <3> HIDE DEF g
    <3> QED BY <2>1, <3>2, <3>3, <3>4
  <2> QED BY <2>2, <2>3 DEF Iterates
<1>7. FlattenSeq(ss) = f[n] /\ FlattenSeq(ss) \in Seq(S)
  <2>1. FlattenSeq(ss) = g[n]
    BY <1>4, <1>6, FlattenIterates
  <2> HIDE DEF n
  <2> QED BY <1>1, <1>4, <2>1
<1>8. FlattenSeq(tt) = f[n + 1]
  BY <1>1, <1>3, FlattenIterates
<1>9. f[n + 1] = f[n] \o s
  <2>1. n + 1 \in 1 .. n + 1 /\ (n + 1) - 1 = n
    BY <1>1
  <2> HIDE DEF n
  <2> QED BY <1>2, <1>5, <2>1
<1> QED BY <1>7, <1>8, <1>9 DEF tt

\* FlattenSeq begins with the elements of the first sequence.
LEMMA FlattenHead ==
  ASSUME NEW S, NEW ss \in Seq(Seq(S)), ss # <<>>
  PROVE  FlattenSeq(ss) = Head(ss) \o FlattenSeq(Tail(ss))
<1> DEFINE tt == Tail(ss)
           n == Len(tt)
           h == Head(ss)
<1>1. n \in Nat /\ tt \in Seq(Seq(S)) /\ Len(ss) = n + 1 /\ h \in Seq(S)
  OBVIOUS
<1>2. h = ss[1] /\ \A i \in 1 .. n : tt[i] = ss[i + 1] /\ tt[i] \in Seq(S)
  OBVIOUS
<1> HIDE DEF tt, n, h
<1>3. PICK f \in [0 .. n -> Seq(S)] : Iterates(f, <<>>, Concat(S, tt), n)
  <2>1. <<>> \in Seq(S)
    OBVIOUS
  <2> QED BY <1>1, <2>1, ConcatType, IterationExists DEF n
<1>4. f[0] = <<>> /\ \A i \in 1 .. n : f[i] = f[i - 1] \o tt[i]
  <2>1. f[0] = <<>> /\ \A i \in 1 .. n : f[i] = Concat(S, tt)[i][f[i - 1]]
    BY <1>3 DEF Iterates
  <2>2. \A i \in 1 .. n, x \in Seq(S) : Concat(S, tt)[i][x] = x \o tt[i]
    BY DEF Concat, n
  <2>3. \A i \in 1 .. n : f[i - 1] \in Seq(S)
    BY <1>1
  <2> QED BY <2>1, <2>2, <2>3
<1> DEFINE g == [i \in 0 .. n + 1 |-> IF i = 0 THEN <<>> ELSE h \o f[i - 1]]
<1>5. g \in [0 .. n + 1 -> Seq(S)]
  BY <1>1
<1>6. Iterates(g, <<>>, Concat(S, ss), n + 1)
  <2>1. \A i \in 1 .. n + 1, x \in Seq(S) : Concat(S, ss)[i][x] = x \o ss[i]
    BY <1>1 DEF Concat
  <2>2. g[0] = <<>>
    BY <1>1
  <2>3. ASSUME NEW i \in 1 .. n + 1, i # 1 PROVE g[i] = Concat(S, ss)[i][g[i - 1]]
    <3> DEFINE j == i - 1
    <3>1. j \in 1 .. n /\ i = j + 1 /\ j - 1 \in 0 .. n /\ j \in 0 .. n + 1 /\ j # 0
      BY <1>1, <2>3
    <3>2. f[j] = f[j - 1] \o tt[j] /\ tt[j] = ss[i] /\ tt[j] \in Seq(S)
      <4> HIDE DEF j
      <4> QED BY <1>2, <1>4, <3>1
    <3>3. g[i] = h \o f[j] /\ g[j] = h \o f[j - 1]
      <4>1. g[i] = h \o f[i - 1]
        BY <2>3
      <4>2. j \in 0 .. n + 1 /\ j # 0
        BY <3>1
      <4> HIDE DEF j
      <4>3. g[j] = h \o f[j - 1]
        BY ONLY <4>2
      <4> QED BY <4>1, <4>3 DEF j
    <3>6. f[j - 1] \in Seq(S)
      BY <3>1
    <3> DEFINE x == f[j - 1]
               y == tt[j]
    <3>7. h \in Seq(S) /\ x \in Seq(S) /\ y \in Seq(S)
      BY <1>1, <3>2, <3>6
    <3>8. f[j] = x \o y /\ g[i] = h \o f[j] /\ g[j] = h \o x /\ ss[i] = y
      BY <3>2, <3>3
    <3> HIDE DEF j, g, x, y
    <3>4. h \o (x \o y) = (h \o x) \o y
      <4>1. Joined(Joined(h, x), y) = Joined(h, Joined(x, y))
        BY ONLY <3>7, JoinedRegroups
      <4> QED BY ONLY <4>1 DEF Joined
    <3>5. g[j] \in Seq(S) /\ g[i] = g[j] \o ss[i]
      BY <3>4, <3>7, <3>8
    <3> QED BY <2>1, <3>5 DEF j
  <2>4. g[1] = Concat(S, ss)[1][g[0]]
    <3>4. 1 \in 1 .. n + 1 /\ 1 \in 0 .. n + 1 /\ 1 - 1 = 0
      BY <1>1
    <3>5. g[1] = h \o f[0]
      BY <3>4
    <3>1. g[1] = h \o <<>>
      BY <1>4, <3>5
    <3>2. g[1] = <<>> \o ss[1]
      BY <1>1, <1>2, <3>1, ConcatEmptySeq
    <3>3. <<>> \in Seq(S)
      OBVIOUS
    <3> HIDE DEF g
    <3> QED BY <2>1, <2>2, <3>2, <3>3, <3>4
  <2>5. \A i \in 1 .. n + 1 : g[i] = Concat(S, ss)[i][g[i - 1]]
    <3> HIDE DEF g
    <3> SUFFICES ASSUME NEW i \in 1 .. n + 1 PROVE g[i] = Concat(S, ss)[i][g[i - 1]]
      OBVIOUS
    <3>1. CASE i = 1
      <4>1. i - 1 = 0
        BY <3>1
      <4> QED BY <3>1, <4>1, <2>4
    <3> QED BY <2>3, <3>1
  <2> HIDE DEF g
  <2> QED BY <2>2, <2>5 DEF Iterates
<1>7. FlattenSeq(ss) = g[n + 1]
  <2> HIDE DEF g
  <2> QED BY <1>1, <1>5, <1>6, FlattenIterates
<1>8. FlattenSeq(tt) = f[n]
  BY <1>1, <1>3, FlattenIterates DEF n
<1>9. g[n + 1] = h \o f[n]
  BY <1>1
<1> QED BY <1>7, <1>8, <1>9 DEF h, tt
\* Nothing is queued.
LEMMA FlattenEmpty == FlattenSeq(<<>>) = <<>>
BY DEF FlattenSeq

\* A part of the front is sent: the rest stays in front.
LEMMA FlattenReplace ==
  ASSUME NEW S, NEW ss \in Seq(Seq(S)), ss # <<>>, NEW r \in Seq(S)
  PROVE  FlattenSeq([ss EXCEPT ![1] = r]) = r \o FlattenSeq(Tail(ss))
<1> DEFINE tt == [ss EXCEPT ![1] = r]
<1>1. tt \in Seq(Seq(S)) /\ tt # <<>> /\ Head(tt) = r /\ Tail(tt) = Tail(ss)
  OBVIOUS
<1> HIDE DEF tt
<1> QED BY <1>1, FlattenHead DEF tt

\* What send() takes and what it leaves.
LEMMA TakesSplits ==
  ASSUME NEW S, NEW b \in Seq(S), NEW n \in 0 .. Len(b)
  PROVE  /\ SubSeq(b, 1, n) \in Seq(S) /\ Len(SubSeq(b, 1, n)) = n
         /\ Rest(b, n) \in Seq(S) /\ Len(Rest(b, n)) = Len(b) - n
         /\ b = SubSeq(b, 1, n) \o Rest(b, n)
         /\ n = Len(b) => SubSeq(b, 1, n) = b
         /\ n < Len(b) => Rest(b, n) # <<>>
<1> DEFINE u == SubSeq(b, 1, n)
           v == SubSeq(b, n + 1, Len(b))
<1>1. n \in Nat /\ Len(b) \in Nat /\ n <= Len(b) /\ \A i \in 1 .. Len(b) : b[i] \in S
  OBVIOUS
<1>2. u \in Seq(S) /\ Len(u) = n /\ \A i \in 1 .. n : u[i] = b[i]
  BY <1>1, SubSeqProperties
<1>3. v \in Seq(S) /\ Len(v) = Len(b) - n /\ \A i \in 1 .. Len(b) - n : v[i] = b[n + i]
  BY <1>1, SubSeqProperties
<1> HIDE DEF u, v
<1>4. u \o v \in Seq(S) /\ Len(u \o v) = Len(b)
  BY <1>1, <1>2, <1>3
<1>5. ASSUME NEW i \in 1 .. Len(b) PROVE (u \o v)[i] = b[i]
  <2>1. CASE i <= n
    BY <1>1, <1>2, <1>3, <2>1
  <2>2. CASE i > n
    <3>1. i - n \in 1 .. Len(b) - n /\ n + (i - n) = i /\ i <= Len(u) + Len(v)
      BY <1>1, <1>2, <1>3, <2>2
    <3>2. v[i - n] = b[i]
      BY <1>3, <3>1
    <3>3. (u \o v)[i] = v[i - n]
      BY <1>1, <1>2, <1>3, <2>2, <3>1
    <3> QED BY <3>2, <3>3
  <2>3. i <= n \/ i > n
    BY <1>1
  <2> QED BY <2>1, <2>2, <2>3
<1>6. b = u \o v
  BY <1>4, <1>5, SeqEqual
<1>7. n = Len(b) => u = b
  BY <1>2, SeqEqual
<1>8. n < Len(b) => v # <<>>
  BY <1>1, <1>3
<1> QED BY <1>2, <1>3, <1>6, <1>7, <1>8 DEF u, v, Rest

-----------------------------------------------------------------------------
(* The invariant.                                                          *)

Queued == FlattenSeq(sendings)
Writing == mutex \in Writers
Flushed == IF mutex \in Flushers THEN written[mutex] ELSE 0

\* The one which has the mutex is where write() or flush() keeps it.
Locked ==
  /\ \A t \in Writers : pc[t] \in {"idle", "write"} /\ (pc[t] = "write" <=> mutex = t)
  /\ \A t \in Flushers : pc[t] # "write" /\ (pc[t] \in {"flush", "end"} <=> mutex = t)

\* No empty packet is queued, and write() only sends when nothing is.
Whole ==
  /\ \A i \in 1 .. Len(sendings) : sendings[i] # <<>>
  /\ Writing => sendings = <<>> /\ packet # <<>>

\* _queueing counts what is queued, and what flush() has sent until its end; the bytes of
\* a datagram which is dropped, or of a flush of a stream which breaks, stay counted.
Counted ==
  /\ queueing >= Len(Queued) + Flushed
  /\ ~lost => queueing = Len(Queued) + Flushed

InOrder == ~lost => wire \o (IF Writing THEN packet ELSE Queued) = asked

Marked == ~lost /\ (Writing \/ sendings # <<>>) => sending

IInv == TypeOK /\ Locked /\ Whole /\ Counted /\ InOrder /\ Marked

\* What no action of the system, of the polling thread nor of the end of a flush changes.
LEMMA IInvSame ==
  ASSUME IInv, TypeOK', Locked',
         UNCHANGED <<sending, sendings, queueing, mutex, written, packet, asked, wire, lost>>
  PROVE  IInv'
BY DEF IInv, Whole, Counted, InOrder, Marked, Queued, Writing, Flushed

\* A socket begins with nothing to send.
LEMMA IInvInit == Init => IInv
<1> SUFFICES ASSUME Init PROVE IInv
  OBVIOUS
<1> USE SocketSendAssumption DEF Init
<1>1. TypeOK
  <2>1. sendings \in Seq(Seq(1 .. MaxWrites)) /\ packet \in Seq(1 .. MaxWrites)
    OBVIOUS
  <2>2. asked \in Seq(1 .. MaxWrites) /\ wire \in Seq(1 .. MaxWrites)
    OBVIOUS
  <2>3. room \in 0 .. MaxRoom /\ count \in 0 .. MaxWrites /\ link \in {"connecting", "up", "down"}
    OBVIOUS
  <2>4. /\ pc \in [Writers \cup Flushers -> {"idle", "write", "flush", "end", "check"}]
        /\ written \in [Flushers -> Nat]
    OBVIOUS
  <2>5. full \in BOOLEAN /\ edge \in BOOLEAN
    OBVIOUS
  <2> QED BY <2>1, <2>2, <2>3, <2>4, <2>5 DEF TypeOK
<1>2. Locked
  BY DEF Locked
<1>3. Queued = <<>> /\ ~Writing /\ Flushed = 0
  BY FlattenEmpty DEF Queued, Writing, Flushed
<1> QED BY <1>1, <1>2, <1>3 DEF IInv, Whole, Counted, InOrder, Marked

\* The system and the polling thread.
LEMMA IInvSystem ==
  ASSUME IInv, Connected \/ Broken \/ Drain \/ FalseWrite \/ Poll
  PROVE  IInv'
<1> USE SocketSendAssumption DEF kernel, polled, writes, Poll, PollWrite, IOWrite, Connected, Broken, Drain, FalseWrite
<1>1. TypeOK'
  <2> USE DEF IInv, TypeOK
  <2>1. CASE Connected BY <2>1
  <2>2. CASE Broken BY <2>2
  <2>3. CASE Drain
    <3>1. edge' \in BOOLEAN /\ full' \in BOOLEAN BY <2>3
    <3>2. room' \in 0 .. MaxRoom BY <2>3
    <3>3. UNCHANGED <<stream, link, polled, sending, sendings, queueing, mutex, pc,
                      written, tasks, events, writes, wire, lost>>
      BY <2>3
    <3> QED BY <3>1, <3>2, <3>3
  <2>4. CASE FalseWrite BY <2>4
  <2>5. CASE PollWrite
    <3>1. seen' \in BOOLEAN /\ edge' \in BOOLEAN BY <2>5
    <3>2. UNCHANGED <<stream, link, room, full, opened, sending, sendings, queueing, mutex, pc,
                      written, tasks, events, writes, wire, lost>>
      BY <2>5
    <3> QED BY ONLY TypeOK, <3>1, <3>2 DEF TypeOK, writes
  <2>6. CASE IOWrite
    <3>1. tasks' = tasks + 1 \/ tasks' = tasks BY <2>6
    <3>2. tasks' \in Nat BY <3>1
    <3>3. seen' \in BOOLEAN /\ opened' \in BOOLEAN BY <2>6
    <3>4. UNCHANGED <<stream, kernel, sending, sendings, queueing, mutex, pc, written, events,
                      writes, wire, lost>>
      BY <2>6
    <3> QED BY ONLY TypeOK, <3>2, <3>3, <3>4 DEF TypeOK, kernel, writes
  <2> QED BY <2>1, <2>2, <2>3, <2>4, <2>5, <2>6
<1>2. Locked'
  BY DEF IInv, Locked
<1> QED BY <1>1, <1>2, IInvSame

\* The end of the Send action, and its Handle.
LEMMA IInvHandle ==
  ASSUME IInv, Dispatch \/ \E t \in Flushers : Signal(t)
  PROVE  IInv'
<1> USE SocketSendAssumption DEF kernel, polled, writes, Dispatch, Signal
<1>1. TypeOK'
  <2> USE DEF IInv, TypeOK
  <2>1. CASE Dispatch
    <3>1. waiting' \in BOOLEAN BY <2>1
    <3>2. events' \in Nat BY <2>1
    <3> QED BY <2>1, <3>1, <3>2
  <2>2. ASSUME NEW t \in Flushers, Signal(t) PROVE TypeOK'
    <3>1. events' \in Nat BY <2>2
    <3> QED BY <2>2, <3>1
  <2> QED BY <2>1, <2>2
<1>2. Locked'
  BY DEF IInv, TypeOK, Locked
<1> QED BY <1>1, <1>2, IInvSame

\* What send() takes of the bytes which are sent.
LEMMA SentTakes ==
  ASSUME IInv, NEW b \in Seq(1 .. MaxWrites), NEW n, Sent(b, n), n = Takes(b)
  PROVE  /\ n \in 0 .. Len(b)
         /\ room' \in 0 .. MaxRoom /\ full' \in BOOLEAN
         /\ wire' = wire \o SubSeq(b, 1, n) /\ wire' \in Seq(1 .. MaxWrites)
         /\ UNCHANGED <<link, edge>>
<1>1. Len(b) \in Nat /\ room \in 0 .. MaxRoom /\ MaxRoom \in Nat /\ wire \in Seq(1 .. MaxWrites)
  BY SocketSendAssumption DEF IInv, TypeOK
<1>2. n \in 0 .. Len(b) /\ n <= room
  BY <1>1 DEF Takes, Smallest
<1>3. room' = room - n /\ wire' = wire \o SubSeq(b, 1, n) /\ UNCHANGED <<link, edge>>
  BY DEF Sent
<1>4. full' \in BOOLEAN
  BY DEF Sent
<1>5. room' \in 0 .. MaxRoom
  BY <1>1, <1>2, <1>3
<1>6. wire' \in Seq(1 .. MaxWrites)
  <2>1. SubSeq(b, 1, n) \in Seq(1 .. MaxWrites)
    BY <1>2, TakesSplits
  <2> QED BY <1>1, <1>3, <2>1
<1> QED BY <1>2, <1>3, <1>4, <1>5, <1>6

\* write() finds a queue, or tries to send.
LEMMA IInvWrite ==
  ASSUME IInv, NEW t \in Writers, NEW size \in 1 .. MaxSize, Write(t, size)
  PROVE  IInv'
<1> DEFINE S == 1 .. MaxWrites
<1>1. /\ pc[t] = "idle" /\ mutex = None /\ count' \in 1 .. MaxWrites
      /\ packet' = Bytes(count', size) /\ asked' = asked \o packet'
      /\ UNCHANGED <<stream, kernel, polled, written, tasks, events, wire, lost>>
  <2>1. count \in 0 .. MaxWrites /\ MaxWrites \in Nat
    BY SocketSendAssumption DEF IInv, TypeOK
  <2>2. count < MaxWrites /\ count' = count + 1
    BY DEF Write
  <2>3. count' \in 1 .. MaxWrites
    BY <2>1, <2>2
  <2> QED BY <2>3 DEF Write
<1>2. packet' \in Seq(S) /\ packet' # <<>>
  <2>1. size \in Nat /\ size # 0
    BY SocketSendAssumption
  <2>2. packet' = [i \in 1 .. size |-> count'] /\ count' \in S
    BY <1>1 DEF Bytes
  <2> HIDE DEF S
  <2>3. packet' \in [1 .. size -> S]
    BY ONLY <2>2
  <2>4. packet' \in Seq(S) /\ Len(packet') = size
    BY ONLY <2>1, <2>3
  <2> QED BY ONLY <2>1, <2>4
<1>3. sendings \in Seq(Seq(S)) /\ asked \in Seq(S) /\ wire \in Seq(S) /\ queueing \in Nat
  BY DEF IInv, TypeOK
<1>4. asked' \in Seq(S)
  BY <1>1, <1>2, <1>3
<1>5. ~Writing /\ Flushed = 0
  BY <1>1, SocketSendAssumption DEF Writing, Flushed
<1>6. CASE sendings # <<>>
  <2>1. /\ sendings' = Append(sendings, packet') /\ queueing' = queueing + Len(packet')
        /\ waiting' = TRUE /\ UNCHANGED <<sending, mutex, pc>>
    BY <1>6 DEF Write, QueueBytes
  <2>2. sendings' \in Seq(Seq(S)) /\ queueing' \in Nat
    BY <1>2, <1>3, <2>1
  <2>3. TypeOK'
    BY <1>1, <1>2, <1>4, <2>1, <2>2 DEF IInv, TypeOK, kernel, polled
  <2>4. Locked'
    BY <2>1 DEF IInv, Locked
  <2>5. ~Writing' /\ Flushed' = 0
    BY <1>1, <1>5, <2>1 DEF Writing, Flushed
  <2>6. Queued \in Seq(S) /\ Queued' = Queued \o packet'
    BY <1>2, <1>3, <2>1, FlattenAppend DEF Queued
  <2>7. Whole'
    BY <1>2, <1>3, <2>1, <2>5 DEF IInv, Whole
  <2>8. Counted'
    <3>1. Len(Queued') = Len(Queued) + Len(packet')
      BY <1>2, <2>6
    <3>2. Len(Queued) \in Nat /\ Len(packet') \in Nat
      BY <1>2, <2>6
    <3>3. queueing >= Len(Queued) /\ (~lost => queueing = Len(Queued))
      BY <1>3, <1>5, <3>2 DEF IInv, Counted
    <3>4. queueing' = queueing + Len(packet') /\ lost' = lost
      BY <1>1, <2>1
    <3>5. queueing' >= Len(Queued') + Flushed'
      BY <1>3, <2>5, <3>1, <3>2, <3>3, <3>4
    <3>6. ~lost' => queueing' = Len(Queued') + Flushed'
      <4>1. ~lost' => ~lost
        BY <3>4
      <4>2. ~lost => queueing' = Len(Queued') + Flushed'
        BY <2>5, <3>1, <3>2, <3>3, <3>4
      <4> QED BY <4>1, <4>2
    <3> QED BY <3>5, <3>6 DEF Counted
  <2>9. InOrder'
    <3>1. wire \o (Queued \o packet') = (wire \o Queued) \o packet'
      <4>1. wire \in Seq(S) /\ Queued \in Seq(S) /\ packet' \in Seq(S)
        BY <1>2, <1>3, <2>6
      <4> HIDE DEF S
      <4>2. Joined(Joined(wire, Queued), packet') = Joined(wire, Joined(Queued, packet'))
        BY ONLY <4>1, JoinedRegroups
      <4> QED BY ONLY <4>2 DEF Joined
    <3> QED BY <1>1, <1>5, <2>5, <2>6, <3>1 DEF IInv, InOrder
  <2>10. Marked'
    BY <1>1, <1>5, <1>6, <2>1 DEF IInv, Marked
  <2> QED BY <2>3, <2>4, <2>7, <2>8, <2>9, <2>10 DEF IInv
<1>7. CASE sendings = <<>>
  <2>1. /\ sending' = TRUE /\ mutex' = t /\ pc' = [pc EXCEPT ![t] = "write"]
        /\ UNCHANGED <<sendings, queueing, waiting>>
    BY <1>7 DEF Write
  <2>2. TypeOK'
    BY <1>1, <1>2, <1>4, <2>1 DEF IInv, TypeOK, kernel, polled
  <2>3. Locked'
    BY <1>1, <2>1, SocketSendAssumption DEF IInv, TypeOK, Locked
  <2>4. Writing' /\ Flushed' = 0
    BY <2>1, SocketSendAssumption DEF Writing, Flushed
  <2>5. Queued = <<>> /\ Queued' = <<>>
    BY <1>7, <2>1, FlattenEmpty DEF Queued
  <2>6. Whole'
    BY <1>2, <1>7, <2>1 DEF Whole
  <2>7. Counted'
    BY <1>1, <1>5, <2>1, <2>4, <2>5 DEF IInv, Counted
  <2>8. InOrder'
    <3>1. wire \o <<>> = wire
      BY <1>3, ConcatEmptySeq
    <3> QED BY <1>1, <1>5, <2>4, <2>5, <3>1 DEF IInv, InOrder
  <2>9. Marked'
    BY <2>1 DEF Marked
  <2> QED BY <2>2, <2>3, <2>6, <2>7, <2>8, <2>9 DEF IInv
<1> QED BY <1>6, <1>7

\* write() has tried to send: what the system has not taken is queued.
LEMMA IInvWriteSent ==
  ASSUME IInv, NEW t \in Writers, WriteSent(t)
  PROVE  IInv'
<1> DEFINE S == 1 .. MaxWrites
           n == Takes(packet)
           u == SubSeq(packet, 1, n)
           r == Rest(packet, n)
<1>1. /\ mutex = t /\ Sent(packet, n) /\ Unlock(t, "idle")
      /\ UNCHANGED <<stream, polled, written, tasks, events, count, packet, asked, lost>>
  BY DEF WriteSent
<1>2. packet \in Seq(S) /\ wire \in Seq(S) /\ queueing \in Nat /\ sendings \in Seq(Seq(S))
  BY DEF IInv, TypeOK
<1>3. /\ n \in 0 .. Len(packet)
      /\ room' \in 0 .. MaxRoom /\ full' \in BOOLEAN
      /\ wire' = wire \o u /\ wire' \in Seq(S)
      /\ UNCHANGED <<link, edge>>
  BY <1>1, <1>2, SentTakes
<1>4. /\ u \in Seq(S) /\ Len(u) = n /\ r \in Seq(S) /\ Len(r) = Len(packet) - n
      /\ packet = u \o r
      /\ n = Len(packet) => u = packet
      /\ n < Len(packet) => r # <<>>
  <2>1. packet \in Seq(S) /\ n \in 0 .. Len(packet)
    BY <1>2, <1>3
  <2> HIDE DEF S, n
  <2> QED BY ONLY <2>1, TakesSplits
<1>5. Writing /\ Flushed = 0 /\ sendings = <<>> /\ Queued = <<>>
  BY <1>1, SocketSendAssumption, FlattenEmpty DEF IInv, Whole, Writing, Flushed, Queued
<1>6. mutex' = None /\ ~Writing' /\ Flushed' = 0 /\ pc' = [pc EXCEPT ![t] = "idle"]
  BY <1>1, SocketSendAssumption DEF Unlock, Writing, Flushed
<1>7. Locked'
  BY <1>1, <1>6, SocketSendAssumption DEF IInv, TypeOK, Locked
<1>8. (~lost => wire \o packet = asked) /\ queueing >= 0 /\ (~lost => queueing = 0 /\ sending)
  BY <1>5 DEF IInv, InOrder, Counted, Marked
<1> HIDE DEF n, u, r
<1>9. CASE n = Len(packet)
  <2>1. sending' = FALSE /\ UNCHANGED <<sendings, queueing, waiting>>
    BY <1>9 DEF WriteSent, n
  <2>2. TypeOK'
    BY <1>1, <1>3, <1>6, <2>1 DEF IInv, TypeOK, polled
  <2>3. sendings' = <<>> /\ Queued' = <<>>
    BY <1>5, <2>1, FlattenEmpty DEF Queued
  <2>4. wire' \o <<>> = wire \o packet
    <3>1. wire' = wire \o packet
      BY <1>3, <1>4, <1>9
    <3> QED BY <1>3, <3>1, ConcatEmptySeq
  <2>5. Whole' /\ Counted' /\ InOrder' /\ Marked'
    BY <1>1, <1>5, <1>6, <1>8, <2>1, <2>3, <2>4 DEF Whole, Counted, InOrder, Marked
  <2> QED BY <1>7, <2>2, <2>5 DEF IInv
<1>10. CASE n # Len(packet)
  <2>1. /\ sendings' = Append(sendings, r) /\ queueing' = queueing + Len(r)
        /\ waiting' = TRUE /\ UNCHANGED sending
    BY <1>10 DEF WriteSent, QueueBytes, n, r
  <2>2. sendings' = <<r>> /\ sendings' \in Seq(Seq(S)) /\ queueing' \in Nat
    BY <1>2, <1>4, <1>5, <2>1
  <2>3. TypeOK'
    BY <1>1, <1>3, <1>6, <2>1, <2>2 DEF IInv, TypeOK, polled
  <2>4. Queued' = r
    <3>1. Queued' = Queued \o r
      BY <1>2, <1>4, <2>1, FlattenAppend DEF Queued
    <3> QED BY <1>4, <1>5, <3>1, ConcatEmptySeq
  <2>5. r # <<>>
    <3>1. Len(packet) \in Nat /\ n \in 0 .. Len(packet)
      BY <1>2, <1>3
    <3> QED BY ONLY <1>4, <1>10, <3>1
  <2>6. Whole'
    BY <1>6, <2>2, <2>5 DEF Whole
  <2>7. wire' \o r = wire \o packet
    <3>1. wire \in Seq(S) /\ u \in Seq(S) /\ r \in Seq(S)
      BY <1>2, <1>4
    <3>2. (wire \o u) \o r = wire \o (u \o r)
      BY ONLY <3>1, ConcatAssociative
    <3> QED BY <1>3, <1>4, <3>2
  <2>8. Counted'
    BY <1>1, <1>2, <1>4, <1>6, <1>8, <2>1, <2>4 DEF Counted
  <2>9. InOrder' /\ Marked'
    BY <1>1, <1>6, <1>8, <2>1, <2>4, <2>7 DEF InOrder, Marked
  <2> QED BY <1>7, <2>3, <2>6, <2>8, <2>9 DEF IInv
<1> QED BY <1>9, <1>10

\* write() fails.
LEMMA IInvWriteFails ==
  ASSUME IInv, NEW t \in Writers, WriteFails(t)
  PROVE  IInv'
<1>1. /\ mutex = t /\ mutex' = None /\ pc' = [pc EXCEPT ![t] = "idle"]
      /\ sending' = FALSE /\ lost'
      /\ UNCHANGED <<stream, kernel, polled, wire, sendings, queueing, written, tasks,
                     events, writes>>
  BY DEF WriteFails, Fails, Unlock
<1>2. Locked'
  BY <1>1, SocketSendAssumption DEF IInv, TypeOK, Locked
<1>3. TypeOK'
  <2>1. sending' \in BOOLEAN /\ lost' \in BOOLEAN
    BY DEF WriteFails
  <2> QED BY <1>1, <2>1 DEF IInv, TypeOK, kernel, polled, writes
<1>4. ~Writing' /\ Flushed' = 0 /\ Flushed = 0 /\ Queued' = Queued
  BY <1>1, SocketSendAssumption DEF Writing, Flushed, Queued
<1> QED BY <1>1, <1>2, <1>3, <1>4 DEF IInv, Whole, Counted, InOrder, Marked

\* flush() begins.
LEMMA IInvFlush ==
  ASSUME IInv, NEW t \in Flushers, Flush(t)
  PROVE  IInv'
<1>1. /\ pc[t] = "idle" /\ mutex = None /\ tasks > 0 /\ tasks' = tasks - 1
      /\ mutex' = t /\ pc' = [pc EXCEPT ![t] = "flush"]
      /\ written' = [written EXCEPT ![t] = 0]
      /\ UNCHANGED <<stream, kernel, polled, sending, sendings, queueing, events, writes,
                     wire, lost>>
  BY DEF Flush
<1>2. Locked'
  BY <1>1, SocketSendAssumption DEF IInv, TypeOK, Locked
<1>3. TypeOK'
  <2>1. tasks' \in Nat /\ written' \in [Flushers -> Nat]
    BY <1>1 DEF IInv, TypeOK
  <2> QED BY <1>1, <2>1 DEF IInv, TypeOK, kernel, polled, writes
<1>4. ~Writing /\ ~Writing' /\ Flushed = 0 /\ Flushed' = 0 /\ Queued' = Queued
  BY <1>1, SocketSendAssumption DEF IInv, TypeOK, Writing, Flushed, Queued
<1> QED BY <1>1, <1>2, <1>3, <1>4 DEF IInv, Whole, Counted, InOrder, Marked, writes

\* flush() sends the front, in part or as a whole.
LEMMA IInvFlushSent ==
  ASSUME IInv, NEW t \in Flushers, FlushSent(t)
  PROVE  IInv'
<1> DEFINE S == 1 .. MaxWrites
           bytes == Head(sendings)
           rest == FlattenSeq(Tail(sendings))
           n == Takes(bytes)
           u == SubSeq(bytes, 1, n)
           r == Rest(bytes, n)
<1>1. /\ pc[t] = "flush" /\ sendings # <<>> /\ Sent(bytes, n)
      /\ written' = [written EXCEPT ![t] = @ + n]
      /\ UNCHANGED <<stream, polled, sending, queueing, mutex, tasks, events, writes, lost>>
  BY DEF FlushSent
<1>2. /\ wire \in Seq(S) /\ queueing \in Nat /\ sendings \in Seq(Seq(S))
      /\ written \in [Flushers -> Nat]
  BY DEF IInv, TypeOK
<1>3. bytes \in Seq(S) /\ Tail(sendings) \in Seq(Seq(S)) /\ rest \in Seq(S) /\ Len(rest) \in Nat
  <2>1. bytes \in Seq(S) /\ Tail(sendings) \in Seq(Seq(S))
    BY <1>1, <1>2
  <2>2. rest \in Seq(S)
    BY <2>1, EmptySeq, FlattenAppend
  <2> QED BY <2>1, <2>2, LenProperties
<1>4. /\ n \in 0 .. Len(bytes)
      /\ room' \in 0 .. MaxRoom /\ full' \in BOOLEAN
      /\ wire' = wire \o u /\ wire' \in Seq(S)
      /\ UNCHANGED <<link, edge>>
  BY <1>1, <1>3, SentTakes
<1>5. /\ u \in Seq(S) /\ Len(u) = n /\ r \in Seq(S) /\ Len(r) = Len(bytes) - n
      /\ bytes = u \o r
      /\ n = Len(bytes) => u = bytes
      /\ n < Len(bytes) => r # <<>>
  <2>1. bytes \in Seq(S) /\ n \in 0 .. Len(bytes)
    BY <1>3, <1>4
  <2> HIDE DEF S, n, bytes
  <2> QED BY ONLY <2>1, TakesSplits
<1>6. Queued = bytes \o rest
  BY <1>1, <1>2, FlattenHead DEF Queued
<1>7. mutex = t /\ ~Writing /\ ~Writing' /\ Flushed = written[t] /\ Flushed' = written[t] + n
  BY <1>1, <1>2, SocketSendAssumption DEF IInv, Locked, Writing, Flushed
<1>8. written' \in [Flushers -> Nat]
  <2>1. n \in Nat
    BY <1>3, <1>4
  <2> HIDE DEF n
  <2> QED BY <1>1, <1>2, <2>1
<1>9. /\ queueing >= Len(bytes) + Len(rest) + written[t]
      /\ ~lost => queueing = Len(bytes) + Len(rest) + written[t]
      /\ ~lost => wire \o (bytes \o rest) = asked /\ sending
  <2> HIDE DEF n, u, r, bytes, rest
  <2>1. Len(Queued) = Len(bytes) + Len(rest)
    BY <1>3, <1>6
  <2> QED BY <1>1, <1>6, <1>7, <2>1 DEF IInv, Counted, InOrder, Marked
<1> HIDE DEF n, u, r, bytes, rest
<1>10. CASE n = Len(bytes)
  <2>1. sendings' = Tail(sendings) /\ UNCHANGED pc
    BY <1>10 DEF FlushSent, n, bytes
  <2>2. TypeOK'
    BY <1>1, <1>3, <1>4, <1>8, <2>1 DEF IInv, TypeOK, polled, writes
  <2>3. Locked'
    BY <1>1, <2>1 DEF IInv, Locked
  <2>4. Queued' = rest
    BY <2>1 DEF Queued, rest
  <2>5. Whole'
    <3>1. \A i \in 1 .. Len(sendings') : sendings'[i] = sendings[i + 1] /\ i + 1 \in 1 .. Len(sendings)
      BY <1>1, <1>2, <2>1
    <3> QED BY <1>7, <3>1 DEF IInv, Whole
  <2>6. Counted'
    <3>1. Len(bytes) \in Nat /\ Len(rest) \in Nat /\ queueing \in Nat /\ written[t] \in Nat
      BY <1>2, <1>3
    <3>2. queueing' = queueing /\ lost' = lost
      BY <1>1
    <3>3. Queued' = rest /\ Flushed' = written[t] + Len(bytes)
      BY <1>7, <1>10, <2>4
    <3>4. queueing' >= Len(Queued') + Flushed'
      BY <1>9, <3>1, <3>2, <3>3
    <3>5. ~lost' => queueing' = Len(Queued') + Flushed'
      BY <1>9, <3>1, <3>2, <3>3
    <3> QED BY <3>4, <3>5 DEF Counted
  <2>7. wire' \o rest = wire \o (bytes \o rest)
    <3>1. wire \in Seq(S) /\ bytes \in Seq(S) /\ rest \in Seq(S)
      BY <1>2, <1>3
    <3>2. (wire \o bytes) \o rest = wire \o (bytes \o rest)
      BY ONLY <3>1, ConcatAssociative
    <3> QED BY <1>4, <1>5, <1>10, <3>2
  <2>8. InOrder' /\ Marked'
    BY <1>1, <1>7, <1>9, <2>4, <2>7 DEF InOrder, Marked, writes
  <2> QED BY <2>2, <2>3, <2>5, <2>6, <2>8 DEF IInv
<1>11. CASE n # Len(bytes)
  <2>1. sendings' = [sendings EXCEPT ![1] = r] /\ pc' = [pc EXCEPT ![t] = "end"]
    BY <1>11 DEF FlushSent, n, bytes, r
  <2>2. sendings' \in Seq(Seq(S))
    <3>1. r \in Seq(S) /\ sendings \in Seq(Seq(S))
      BY <1>2, <1>5
    <3> HIDE DEF S
    <3>2. Len(sendings) \in Nat /\ sendings \in [1 .. Len(sendings) -> Seq(S)]
      BY ONLY <3>1
    <3>3. sendings' \in [1 .. Len(sendings) -> Seq(S)]
      BY ONLY <2>1, <3>1, <3>2
    <3> QED BY ONLY <3>2, <3>3
  <2>3. TypeOK'
    BY <1>1, <1>4, <1>8, <2>1, <2>2 DEF IInv, TypeOK, polled, writes
  <2>4. Locked'
    BY <1>1, <1>7, <2>1, SocketSendAssumption DEF IInv, TypeOK, Locked
  <2>5. Queued' = r \o rest
    BY <1>1, <1>2, <1>5, <2>1, FlattenReplace DEF Queued, rest
  <2>6. Whole'
    <3>1. r # <<>>
      BY <1>3, <1>4, <1>5, <1>11
    <3>2. Len(sendings') = Len(sendings) /\ sendings'[1] = r
      BY <1>1, <1>2, <2>1
    <3>3. \A i \in 1 .. Len(sendings) : i # 1 => sendings'[i] = sendings[i]
      BY <1>2, <2>1
    <3> QED BY <1>7, <3>1, <3>2, <3>3 DEF IInv, Whole
  <2>7. Counted'
    <3>1. Len(bytes) \in Nat /\ Len(rest) \in Nat /\ queueing \in Nat /\ written[t] \in Nat
      BY <1>2, <1>3
    <3>2. queueing' = queueing /\ lost' = lost /\ n \in 0 .. Len(bytes)
      BY <1>1, <1>4
    <3>3. Len(r \o rest) = Len(r) + Len(rest)
      <4>1. r \in Seq(S) /\ rest \in Seq(S)
        BY <1>3, <1>5
      <4> HIDE DEF S
      <4> QED BY ONLY <4>1
    <3>4. Len(Queued') = Len(bytes) - n + Len(rest) /\ Flushed' = written[t] + n
      BY <1>5, <1>7, <2>5, <3>3
    <3> HIDE DEF S
    <3> QED BY ONLY <1>9, <3>1, <3>2, <3>4 DEF Counted
  <2>8. wire' \o (r \o rest) = wire \o (bytes \o rest)
    <3>1. wire \in Seq(S) /\ u \in Seq(S) /\ r \in Seq(S) /\ rest \in Seq(S)
      BY <1>2, <1>3, <1>5
    <3> HIDE DEF S
    <3>2. /\ Joined(r, rest) \in Seq(S)
          /\ Joined(Joined(u, r), rest) = Joined(u, Joined(r, rest))
      BY ONLY <3>1, JoinedRegroups
    <3>3. Joined(Joined(wire, u), Joined(r, rest)) = Joined(wire, Joined(u, Joined(r, rest)))
      BY ONLY <3>1, <3>2, JoinedRegroups
    <3>4. wire' = Joined(wire, u) /\ bytes = Joined(u, r)
      BY <1>4, <1>5 DEF Joined
    <3>5. Joined(wire', Joined(r, rest)) = Joined(wire, Joined(bytes, rest))
      BY ONLY <3>2, <3>3, <3>4
    <3> QED BY ONLY <3>5 DEF Joined
  <2>9. InOrder' /\ Marked'
    BY <1>1, <1>7, <1>9, <2>5, <2>8 DEF InOrder, Marked, writes
  <2> QED BY <2>3, <2>4, <2>6, <2>7, <2>9 DEF IInv
<1> QED BY <1>10, <1>11

\* flush() fails: a stream is over, a datagram is dropped.
LEMMA IInvFlushFails ==
  ASSUME IInv, NEW t \in Flushers, FlushFails(t)
  PROVE  IInv'
<1> DEFINE S == 1 .. MaxWrites
<1>1. /\ pc[t] = "flush" /\ sendings # <<>> /\ lost' = TRUE
      /\ UNCHANGED <<kernel, stream, polled, wire, sending, queueing, written, tasks, events, writes>>
  BY DEF FlushFails, Fails
<1>2. queueing \in Nat /\ sendings \in Seq(Seq(S)) /\ written \in [Flushers -> Nat]
  BY DEF IInv, TypeOK
<1>3. mutex = t /\ ~Writing /\ Flushed = written[t] /\ written[t] \in Nat
  BY <1>1, <1>2, SocketSendAssumption DEF IInv, Locked, Writing, Flushed
<1>4. Queued \in Seq(S) /\ Len(Queued) \in Nat
  <2>1. Queued \in Seq(S)
    BY <1>2, EmptySeq, FlattenAppend DEF Queued
  <2> QED BY <2>1, LenProperties
<1>5. queueing >= Len(Queued) + written[t]
  BY <1>3 DEF IInv, Counted
<1>6. CASE stream
  <2>1. /\ mutex' = None /\ pc' = [pc EXCEPT ![t] = "idle"] /\ UNCHANGED sendings
    BY <1>6 DEF FlushFails, Unlock
  <2>2. TypeOK'
    BY <1>1, <2>1 DEF IInv, TypeOK, kernel, polled, writes
  <2>3. Locked'
    BY <1>3, <2>1, SocketSendAssumption DEF IInv, TypeOK, Locked
  <2>4. ~Writing' /\ Flushed' = 0 /\ Queued' = Queued
    BY <2>1, SocketSendAssumption DEF Writing, Flushed, Queued
  <2>5. Counted'
    BY <1>1, <1>2, <1>3, <1>4, <1>5, <2>4 DEF Counted
  <2> QED BY <1>1, <2>1, <2>2, <2>3, <2>4, <2>5 DEF IInv, Whole, InOrder, Marked
<1>7. CASE ~stream
  <2>1. sendings' = Tail(sendings) /\ pc' = [pc EXCEPT ![t] = "end"] /\ UNCHANGED mutex
    BY <1>7 DEF FlushFails
  <2>2. sendings' \in Seq(Seq(S))
    BY <1>1, <1>2, <2>1
  <2>3. TypeOK'
    BY <1>1, <2>1, <2>2 DEF IInv, TypeOK, kernel, polled, writes
  <2>4. Locked'
    BY <1>3, <2>1, SocketSendAssumption DEF IInv, TypeOK, Locked
  <2>5. ~Writing' /\ Flushed' = written[t]
    BY <1>1, <1>3, <2>1 DEF Writing, Flushed
  <2>6. Whole'
    <3>1. \A i \in 1 .. Len(sendings') : sendings'[i] = sendings[i + 1] /\ i + 1 \in 1 .. Len(sendings)
      BY <1>1, <1>2, <2>1
    <3> QED BY <2>5, <3>1 DEF IInv, Whole
  <2>7. Counted'
    <3> DEFINE front == Head(sendings)
    <3>1. front \in Seq(S) /\ Queued' \in Seq(S)
      <4>1. Queued' \in Seq(S)
        BY <2>2, EmptySeq, FlattenAppend DEF Queued
      <4> QED BY <1>1, <1>2, <4>1
    <3>2. Queued = front \o Queued'
      BY <1>1, <1>2, <2>1, FlattenHead DEF Queued
    <3> HIDE DEF front
    <3>3. Len(Queued) = Len(front) + Len(Queued') /\ Len(front) \in Nat /\ Len(Queued') \in Nat
      BY <3>1, <3>2
    <3>4. queueing' = queueing /\ lost'
      BY <1>1
    <3> HIDE DEF S
    <3> QED BY ONLY <1>2, <1>3, <1>5, <2>5, <3>3, <3>4 DEF Counted
  <2> QED BY <1>1, <2>3, <2>4, <2>6, <2>7 DEF IInv, InOrder, Marked
<1> QED BY <1>6, <1>7

\* flush() takes what it has sent off _queueing.
LEMMA IInvFlushEnd ==
  ASSUME IInv, NEW t \in Flushers, FlushEnd(t)
  PROVE  IInv'
<1> DEFINE S == 1 .. MaxWrites
<1>1. /\ pc[t] \in {"flush", "end"} /\ queueing' = queueing - written[t]
      /\ mutex' = None /\ pc' = [pc EXCEPT ![t] = "check"]
      /\ sending' = (sending /\ ~(written[t] > 0 /\ queueing' = 0))
      /\ UNCHANGED <<stream, kernel, polled, sendings, written, tasks, events, writes, wire, lost>>
  BY DEF FlushEnd, Unlock
<1>2. queueing \in Nat /\ sendings \in Seq(Seq(S)) /\ written \in [Flushers -> Nat]
  BY DEF IInv, TypeOK
<1>3. mutex = t /\ ~Writing /\ Flushed = written[t] /\ written[t] \in Nat
  BY <1>1, <1>2, SocketSendAssumption DEF IInv, Locked, Writing, Flushed
<1>4. Queued \in Seq(S) /\ Len(Queued) \in Nat
  <2>1. Queued \in Seq(S)
    BY <1>2, EmptySeq, FlattenAppend DEF Queued
  <2> QED BY <2>1, LenProperties
<1>5. ~Writing' /\ Flushed' = 0 /\ Queued' = Queued
  BY <1>1, SocketSendAssumption DEF Writing, Flushed, Queued
<1>6. queueing' \in Nat /\ queueing' >= Len(Queued) /\ (~lost => queueing' = Len(Queued))
  BY <1>1, <1>2, <1>3, <1>4 DEF IInv, Counted
<1>7. TypeOK'
  <2>1. sending' \in BOOLEAN
    BY <1>1
  <2>2. queueing' \in Nat /\ mutex' = None /\ pc' = [pc EXCEPT ![t] = "check"]
        /\ UNCHANGED <<stream, kernel, polled, sendings, written, tasks, events, writes, wire, lost>>
    BY <1>1, <1>6
  <2> QED BY <2>1, <2>2 DEF IInv, TypeOK, kernel, polled, writes
<1>8. Locked'
  BY <1>1, <1>3, SocketSendAssumption DEF IInv, TypeOK, Locked
<1>9. Whole' /\ InOrder'
  BY <1>1, <1>3, <1>5 DEF IInv, Whole, InOrder, writes
<1>10. Counted'
  BY <1>1, <1>4, <1>5, <1>6 DEF Counted
<1>11. Marked'
  <2>1. SUFFICES ASSUME ~lost, sendings # <<>> PROVE sending'
    BY <1>1, <1>5 DEF Marked
  <2>2. sending
    BY <2>1 DEF IInv, Marked
  <2> DEFINE front == Head(sendings)
             rest == FlattenSeq(Tail(sendings))
  <2>3. front \in Seq(S) /\ front # <<>> /\ Tail(sendings) \in Seq(Seq(S))
    BY <1>2, <2>1 DEF IInv, Whole
  <2>4. rest \in Seq(S)
    BY <2>3, EmptySeq, FlattenAppend
  <2>5. Queued = front \o rest
    BY <1>2, <2>1, FlattenHead DEF Queued
  <2> HIDE DEF front, rest
  <2>6. Len(Queued) # 0
    BY <2>3, <2>4, <2>5
  <2>7. queueing' # 0
    BY <1>6, <2>1, <2>6
  <2> QED BY <1>1, <2>2, <2>7
<1> QED BY <1>7, <1>8, <1>9, <1>10, <1>11 DEF IInv

-----------------------------------------------------------------------------

\* IInv holds in every state, whatever the interleaving of the threads, what the system
\* takes and when it fails.
THEOREM Inductive == Spec => []IInv
<1>1. IInv /\ [Next]_vars => IInv'
  <2> SUFFICES ASSUME IInv, [Next]_vars PROVE IInv'
    OBVIOUS
  <2>1. CASE UNCHANGED vars
    <3>1. TypeOK' /\ Locked'
      BY <2>1 DEF IInv, TypeOK, Locked, vars
    <3> QED BY <2>1, <3>1, IInvSame DEF vars
  <2> QED
    BY <2>1, IInvSystem, IInvHandle, IInvWrite, IInvWriteSent, IInvWriteFails, IInvFlush,
       IInvFlushSent, IInvFlushFails, IInvFlushEnd DEF Next, Writer, Flusher
<1> QED BY IInvInit, <1>1, PTL DEF Spec

\* Every variable keeps its type: _queueing, an unsigned counter, never goes under zero,
\* even when the system refuses what was queued.
THEOREM TypeCorrect == Spec => []TypeOK
<1>1. IInv => TypeOK
  BY DEF IInv
<1> QED BY Inductive, <1>1, PTL

\* What the system was given and what is queued are the bytes asked for, in their order.
THEOREM InOrderAlways == Spec => []SentInOrder
<1>1. IInv => SentInOrder
  BY SocketSendAssumption DEF IInv, InOrder, SentInOrder, Writing, Queued
<1> QED BY Inductive, <1>1, PTL

\* queueing() is what is queued, and _sending is set as long as there is some.
THEOREM QueueingExact == Spec => []QueueingIsExact
<1>1. IInv => QueueingIsExact
  <2> SUFFICES ASSUME IInv, mutex = None, ~lost PROVE QueueingIsExact
    BY DEF QueueingIsExact
  <2>1. Flushed = 0 /\ queueing = Len(Queued) + Flushed /\ (sendings # <<>> => sending)
    BY SocketSendAssumption DEF IInv, Counted, Marked, Flushed
  <2>2. Len(Queued) \in Nat
    BY EmptySeq, FlattenAppend, LenProperties DEF IInv, TypeOK, Queued
  <2> QED BY <2>1, <2>2 DEF QueueingIsExact, Queued
<1> QED BY Inductive, <1>1, PTL
=============================================================================
