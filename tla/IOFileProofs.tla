---------------------------- MODULE IOFileProofs ----------------------------
(***************************************************************************)
(* Theorems about IOFile, for a file of any size, reads and writes of any  *)
(* sizes and any number of them.                                           *)
(*                                                                         *)
(* Data go from the file to the application through two queues, the one of *)
(* the decodings and the one of the handler, and the decoder may keep some *)
(* and ask for more: the invariant places all of what they hold between    *)
(* what the application has got and _readen.                               *)
(***************************************************************************)
EXTENDS IOFile, Integers, SequenceTheorems, FiniteSetTheorems, TLAPS

(* The invariant.                                                          *)

Decodings == [from : Nat, size : Nat, end : BOOLEAN]

IsReaden(event) == event.kind = "readen"
End(data) == data.from + data.size

\* Only a file which is read is decoded, and only it gives data.
Modal ==
  /\ decoding => mode = "read"
  /\ ~decoding => decode = <<>>
  /\ mode # "read" => /\ readen = 0 /\ position = 0
                      /\ \A i \in DOMAIN handles : ~IsReaden(handles[i])

\* The action under way is the first one.
UnderWay == step # "idle" => io # <<>>

\* Nothing is given which has not been read.
Bounded ==
  /\ position <= readen
  /\ \A i \in DOMAIN handles : IsReaden(handles[i]) => End(handles[i]) <= readen
  /\ \A i \in DOMAIN decode : End(decode[i]) <= readen

\* The data of the handler follow each other: at[i] is where they are before its event i.
Chain(events, from, to) ==
  \E at \in [1 .. Len(events) + 1 -> 0 .. to] :
    /\ at[1] = from /\ at[Len(events) + 1] = to
    /\ \A i \in 1 .. Len(events) :
         IF IsReaden(events[i])
         THEN events[i].from = at[i] /\ at[i + 1] = End(events[i])
         ELSE at[i + 1] = at[i]

\* The data of the handler, and then what is to be decoded, are in the order of the file.
Sorted ==
  /\ \A i \in DOMAIN handles : IsReaden(handles[i]) =>
       /\ position <= handles[i].from
       /\ \A j \in DOMAIN handles : i < j /\ IsReaden(handles[j]) => End(handles[i]) <= handles[j].from
       /\ \A j \in DOMAIN decode : End(handles[i]) <= decode[j].from
  /\ \A i \in DOMAIN decode :
       /\ position <= decode[i].from
       /\ \A j \in DOMAIN decode : i < j => End(decode[i]) <= decode[j].from

\* A decoder may keep data; without one they are all given.
Ordered == held => IF decoding THEN Sorted ELSE Chain(handles, position, readen)

\* _flushing counts the onFlush in the handler, of which there is one at most, and the
\* write which is about to take back its own.
Undoing == IF step = "undo" THEN 1 ELSE 0
Flushing ==
  /\ flushing \in {Undoing, Undoing + 1}
  /\ \A i \in DOMAIN handles : handles[i].kind = "flush" =>
       /\ flushing = Undoing + 1
       /\ \A j \in DOMAIN handles : handles[j].kind = "flush" => i = j

Counted == IsFiniteSet(ToWrite(Pending)) /\ queueing = Cardinality(ToWrite(Pending))

IInv == TypeOK /\ Modal /\ UnderWay /\ Bounded /\ Ordered /\ Flushing /\ Counted

-----------------------------------------------------------------------------
(* The bytes to write.                                                     *)

Bytes(action) == IF action.op = "write" THEN action.size ELSE 0
Row(i, n) == {i} \X (1 .. n)

\* A row has its bytes.
LEMMA RowCardinality ==
  ASSUME NEW i, NEW n \in Nat
  PROVE  IsFiniteSet(Row(i, n)) /\ Cardinality(Row(i, n)) = n
<1> DEFINE f == [b \in 1 .. n |-> <<i, b>>]
<1>1. f \in Bijection(1 .. n, Row(i, n))
  <2>1. f \in [1 .. n -> Row(i, n)]
    BY DEF Row
  <2>2. \A b \in 1 .. n : f[b][2] = b
    OBVIOUS
  <2>3. \A x \in Row(i, n) : x[2] \in 1 .. n /\ f[x[2]] = x
    BY DEF Row
  <2> HIDE DEF f
  <2> QED BY <2>1, <2>2, <2>3 DEF Bijection, Injection, IsInjective, Surjection
<1>2. IsFiniteSet(1 .. n) /\ Cardinality(1 .. n) = n
  BY FS_Interval
<1>3. ExistsBijection(1 .. n, Row(i, n))
  BY <1>1 DEF ExistsBijection
<1> QED BY <1>2, <1>3, FS_Bijection

\* The bytes to write are in rows.
LEMMA ToWriteRows ==
  ASSUME NEW q \in Seq(Actions)
  PROVE  \A x : x \in ToWrite(q) <=> \E i \in 1 .. Len(q) : x \in Row(i, Bytes(q[i]))
<1>1. DOMAIN q = 1 .. Len(q) /\ \A i \in 1 .. Len(q) : q[i] \in Actions
  OBVIOUS
<1>2. \A i \in 1 .. Len(q) : q[i].op # "write" => Row(i, Bytes(q[i])) = {}
  BY DEF Row, Bytes
<1> QED BY <1>1, <1>2 DEF ToWrite, Row, Bytes

\* An action comes at the end.
LEMMA ToWriteAppend ==
  ASSUME NEW q \in Seq(Actions), NEW a \in Actions, IsFiniteSet(ToWrite(q))
  PROVE  /\ IsFiniteSet(ToWrite(Append(q, a)))
         /\ Cardinality(ToWrite(Append(q, a))) = Cardinality(ToWrite(q)) + Bytes(a)
<1> DEFINE n == Len(q) + 1
           row == Row(n, Bytes(a))
<1>1. /\ Append(q, a) \in Seq(Actions) /\ Len(Append(q, a)) = n /\ Append(q, a)[n] = a
      /\ \A i \in 1 .. Len(q) : Append(q, a)[i] = q[i]
      /\ n \in Nat /\ Len(q) \in Nat /\ n \notin 1 .. Len(q) /\ 1 .. n = (1 .. Len(q)) \cup {n}
      /\ Bytes(a) \in Nat
  BY DEF Bytes, Actions
<1>2. ToWrite(Append(q, a)) = ToWrite(q) \cup row
  <2>1. \A x : x \in ToWrite(q) <=> \E i \in 1 .. Len(q) : x \in Row(i, Bytes(q[i]))
    BY ToWriteRows
  <2>2. \A x : x \in ToWrite(Append(q, a)) <=>
                 \E i \in 1 .. n : x \in Row(i, Bytes(Append(q, a)[i]))
    BY <1>1, ToWriteRows
  <2> HIDE DEF n
  <2>3. \A x : x \in ToWrite(Append(q, a)) <=> x \in ToWrite(q) \/ x \in row
    BY <1>1, <2>1, <2>2
  <2> QED BY <2>3
<1>3. ToWrite(q) \cap row = {}
  <2>1. \A x : x \in ToWrite(q) => x[1] \in 1 .. Len(q)
    BY ToWriteRows DEF Row
  <2>2. \A x \in row : x[1] = n
    BY DEF Row
  <2> HIDE DEF n, row
  <2> QED BY <1>1, <2>1, <2>2
<1>4. IsFiniteSet(row) /\ Cardinality(row) = Bytes(a)
  BY <1>1, RowCardinality
<1>5. Cardinality(ToWrite(q)) \in Nat
  BY FS_CardinalityType
<1> HIDE DEF row, n
<1>6. /\ IsFiniteSet(ToWrite(q) \cup row)
      /\ Cardinality(ToWrite(q) \cup row) = Cardinality(ToWrite(q)) + Cardinality(row) - Cardinality({})
  BY <1>3, <1>4, FS_Union
<1> QED BY <1>1, <1>2, <1>4, <1>5, <1>6, FS_EmptySet

\* The first action leaves.
LEMMA ToWriteTail ==
  ASSUME NEW q \in Seq(Actions), q # <<>>, IsFiniteSet(ToWrite(q))
  PROVE  /\ IsFiniteSet(ToWrite(Tail(q)))
         /\ Cardinality(ToWrite(Tail(q))) \in Nat /\ Bytes(Head(q)) \in Nat
         /\ Cardinality(ToWrite(q)) = Cardinality(ToWrite(Tail(q))) + Bytes(Head(q))
<1> DEFINE n == Len(q)
           t == Tail(q)
           row == Row(1, Bytes(Head(q)))
           rest == ToWrite(q) \ row
           f == [x \in rest |-> <<x[1] - 1, x[2]>>]
<1>1. /\ t \in Seq(Actions) /\ Len(t) = n - 1 /\ n \in Nat \ {0} /\ Head(q) = q[1] /\ Head(q) \in Actions
      /\ \A i \in 1 .. n - 1 : t[i] = q[i + 1]
  OBVIOUS
<1>2. Bytes(Head(q)) \in Nat
  BY <1>1 DEF Bytes, Actions
<1>3. /\ \A x : x \in ToWrite(q) <=> \E i \in 1 .. n : x \in Row(i, Bytes(q[i]))
      /\ \A x : x \in ToWrite(t) <=> \E i \in 1 .. n - 1 : x \in Row(i, Bytes(t[i]))
  BY <1>1, ToWriteRows
<1> HIDE DEF n, t
<1>4. \A x : x \in rest <=> \E i \in 2 .. n : x \in Row(i, Bytes(q[i]))
  <2>1. \A i, j \in 1 .. n : i # j => Row(i, Bytes(q[i])) \cap Row(j, Bytes(q[j])) = {}
    BY DEF Row
  <2>2. 1 \in 1 .. n /\ row = Row(1, Bytes(q[1])) /\ \A i : i \in 1 .. n <=> i = 1 \/ i \in 2 .. n
    BY <1>1
  <2>3. \A x : x \in rest <=> x \in ToWrite(q) /\ x \notin row
    OBVIOUS
  <2> HIDE DEF row, rest
  <2> SUFFICES ASSUME NEW x
               PROVE  x \in rest <=> \E i \in 2 .. n : x \in Row(i, Bytes(q[i]))
    OBVIOUS
  <2>4. ASSUME x \in rest PROVE \E i \in 2 .. n : x \in Row(i, Bytes(q[i]))
    <3>1. PICK i \in 1 .. n : x \in Row(i, Bytes(q[i]))
      BY <1>3, <2>3, <2>4
    <3>2. i # 1
      BY <2>2, <2>3, <2>4, <3>1
    <3> QED BY <2>2, <3>1, <3>2
  <2>5. ASSUME NEW i \in 2 .. n, x \in Row(i, Bytes(q[i])) PROVE x \in rest
    <3>1. i \in 1 .. n /\ i # 1
      BY <2>5
    <3>2. x \in ToWrite(q)
      BY <1>3, <2>5, <3>1
    <3>3. x \notin row
      BY <2>1, <2>2, <2>5, <3>1
    <3> QED BY <2>3, <3>2, <3>3
  <2> QED BY <2>4, <2>5
<1>5. f \in Bijection(rest, ToWrite(t))
  <2> HIDE DEF rest
  <2>1. \A x \in rest : f[x] \in ToWrite(t)
    <3> SUFFICES ASSUME NEW x \in rest PROVE f[x] \in ToWrite(t)
      OBVIOUS
    <3>1. PICK i \in 2 .. n : x \in Row(i, Bytes(q[i]))
      BY <1>4
    <3>2. i - 1 \in 1 .. n - 1 /\ t[i - 1] = q[i]
      BY <1>1, <3>1
    <3>3. f[x] \in Row(i - 1, Bytes(q[i]))
      BY <3>1 DEF Row
    <3> QED BY <1>3, <3>2, <3>3
  <2>2. \A x \in rest : x = <<x[1], x[2]>> /\ x[1] \in Int
    BY <1>4 DEF Row
  <2>3. \A x, y \in rest : f[x] = f[y] => x = y
    <3> SUFFICES ASSUME NEW x \in rest, NEW y \in rest, f[x] = f[y] PROVE x = y
      OBVIOUS
    <3>1. x[1] - 1 = y[1] - 1 /\ x[2] = y[2]
      OBVIOUS
    <3>2. x[1] = y[1]
      BY <2>2, <3>1
    <3> QED BY <2>2, <3>1, <3>2
  <2>4. \A y \in ToWrite(t) : \E x \in rest : f[x] = y
    <3> SUFFICES ASSUME NEW y \in ToWrite(t) PROVE \E x \in rest : f[x] = y
      OBVIOUS
    <3>1. PICK i \in 1 .. n - 1 : y \in Row(i, Bytes(t[i]))
      BY <1>3
    <3> DEFINE x == <<i + 1, y[2]>>
    <3>2. i + 1 \in 2 .. n /\ t[i] = q[i + 1] /\ (i + 1) - 1 = i
      BY <1>1, <3>1
    <3>3. x \in Row(i + 1, Bytes(q[i + 1])) /\ y = <<i, y[2]>>
      BY <3>1, <3>2 DEF Row
    <3>4. x \in rest
      BY <1>4, <3>2, <3>3
    <3>5. f[x] = y
      BY <3>2, <3>3, <3>4
    <3> QED BY <3>4, <3>5
  <2> HIDE DEF f
  <2> QED
    <3>1. f \in [rest -> ToWrite(t)]
      BY <2>1 DEF f
    <3> QED BY <2>3, <2>4, <3>1 DEF Bijection, Injection, IsInjective, Surjection
<1>6. IsFiniteSet(rest) /\ Cardinality(rest) = Cardinality(ToWrite(q)) - Cardinality(row)
  <2>1. row \subseteq ToWrite(q)
    <3>1. 1 \in 1 .. n
      BY <1>1
    <3> QED BY <1>1, <1>3, <3>1
  <2>2. ToWrite(q) \cap row = row
    BY <2>1
  <2> QED BY <2>2, FS_Difference
<1>7. Cardinality(row) = Bytes(Head(q))
  BY <1>2, RowCardinality
<1>8. IsFiniteSet(ToWrite(t)) /\ Cardinality(ToWrite(t)) = Cardinality(rest)
  <2>1. ExistsBijection(rest, ToWrite(t))
    BY <1>5 DEF ExistsBijection
  <2> HIDE DEF rest
  <2> QED BY <1>6, <2>1, FS_Bijection
<1>9. Cardinality(ToWrite(q)) \in Nat /\ Cardinality(ToWrite(t)) \in Nat
  BY <1>8, FS_CardinalityType
<1> QED BY <1>2, <1>6, <1>7, <1>8, <1>9 DEF t

-----------------------------------------------------------------------------
(* Queues.                                                                 *)

\* An element comes at the end.
LEMMA AppendFacts ==
  ASSUME NEW T, NEW q \in Seq(T), NEW x \in T
  PROVE  /\ Append(q, x) \in Seq(T) /\ DOMAIN Append(q, x) = DOMAIN q \cup {Len(q) + 1}
         /\ Append(q, x)[Len(q) + 1] = x /\ Append(q, x) # <<>>
         /\ \A i \in DOMAIN q : i \in Nat /\ i < Len(q) + 1 /\ Append(q, x)[i] = q[i]
OBVIOUS

\* The first element leaves.
LEMMA TailFacts ==
  ASSUME NEW T, NEW q \in Seq(T), q # <<>>
  PROVE  /\ Tail(q) \in Seq(T) /\ Head(q) \in T /\ 1 \in DOMAIN q /\ q[1] = Head(q)
         /\ \A i \in DOMAIN Tail(q) : i \in Nat \ {0} /\ i + 1 \in DOMAIN q /\ Tail(q)[i] = q[i + 1]
OBVIOUS

\* An event comes at the end of a chain.
LEMMA ChainAppend ==
  ASSUME NEW events \in Seq(Events), NEW e \in Events, NEW from, NEW to \in Nat,
         Chain(events, from, to), IsReaden(e) => e.from = to
  PROVE  Chain(Append(events, e), from, IF IsReaden(e) THEN End(e) ELSE to)
<1> DEFINE n == Len(events)
           end == IF IsReaden(e) THEN End(e) ELSE to
<1>1. n \in Nat /\ Len(Append(events, e)) = n + 1 /\ Append(events, e)[n + 1] = e
      /\ \A i \in 1 .. n : Append(events, e)[i] = events[i]
  OBVIOUS
<1>2. end \in Nat /\ to <= end
  BY DEF Events, End
<1>3. PICK at \in [1 .. n + 1 -> 0 .. to] :
         /\ at[1] = from /\ at[n + 1] = to
         /\ \A i \in 1 .. n : IF IsReaden(events[i])
                              THEN events[i].from = at[i] /\ at[i + 1] = End(events[i])
                              ELSE at[i + 1] = at[i]
  BY DEF Chain
<1> DEFINE new == [i \in 1 .. n + 1 + 1 |-> IF i = n + 1 + 1 THEN end ELSE at[i]]
<1>4. IsReaden(e) => end = End(e)
  OBVIOUS
<1>5. ~IsReaden(e) => end = to
  OBVIOUS
<1> HIDE DEF n, end
<1>6. \A i \in 1 .. n + 1 : new[i] = at[i] /\ at[i] \in 0 .. to
  BY <1>1
<1>7. new[n + 1 + 1] = end
  BY <1>1
<1>8. new \in [1 .. n + 1 + 1 -> 0 .. end]
  BY <1>1, <1>2, <1>3
<1> HIDE DEF new
<1>9. new[1] = from /\ new[n + 1] = to
  BY <1>1, <1>3, <1>6
<1>10. ASSUME NEW i \in 1 .. n + 1
       PROVE  IF IsReaden(Append(events, e)[i])
              THEN Append(events, e)[i].from = new[i] /\ new[i + 1] = End(Append(events, e)[i])
              ELSE new[i + 1] = new[i]
  <2>1. CASE i = n + 1
    BY <1>1, <1>4, <1>5, <1>7, <1>9, <2>1
  <2>2. CASE i # n + 1
    <3>1. i \in 1 .. n
      BY <1>1, <2>2
    <3>2. new[i] = at[i] /\ new[i + 1] = at[i + 1]
      BY <1>1, <1>6, <3>1
    <3> QED BY <1>1, <1>3, <3>1, <3>2
  <2> QED BY <2>1, <2>2
<1>11. Chain(Append(events, e), from, end)
  <2> DEFINE q == Append(events, e)
  <2>1. Len(q) = n + 1
    BY <1>1
  <2> HIDE DEF q
  <2>2. new \in [1 .. Len(q) + 1 -> 0 .. end] /\ new[1] = from /\ new[Len(q) + 1] = end
    BY <1>7, <1>8, <1>9, <2>1
  <2>3. \A i \in 1 .. Len(q) : IF IsReaden(q[i]) THEN q[i].from = new[i] /\ new[i + 1] = End(q[i])
                               ELSE new[i + 1] = new[i]
    BY <1>10, <2>1 DEF q
  <2>4. Chain(q, from, end)
    BY <2>2, <2>3 DEF Chain
  <2> QED BY <2>4 DEF q
<1> QED BY <1>11 DEF end

\* The first event of a chain leaves.
LEMMA ChainTail ==
  ASSUME NEW events \in Seq(Events), events # <<>>, NEW from, NEW to \in Nat, Chain(events, from, to)
  PROVE  /\ IsReaden(Head(events)) => Head(events).from = from
         /\ Chain(Tail(events), IF IsReaden(Head(events)) THEN End(Head(events)) ELSE from, to)
<1> DEFINE n == Len(events)
           q == Tail(events)
<1>1. /\ n \in Nat \ {0} /\ q \in Seq(Events) /\ Len(q) = n - 1 /\ Head(events) = events[1]
      /\ \A i \in 1 .. n - 1 : q[i] = events[i + 1]
  OBVIOUS
<1>2. PICK at \in [1 .. n + 1 -> 0 .. to] :
         /\ at[1] = from /\ at[n + 1] = to
         /\ \A i \in 1 .. n : IF IsReaden(events[i])
                              THEN events[i].from = at[i] /\ at[i + 1] = End(events[i])
                              ELSE at[i + 1] = at[i]
  BY DEF Chain
<1> DEFINE new == [i \in 1 .. n |-> at[i + 1]]
<1> HIDE DEF n, q
<1>3. \A i \in 1 .. n : new[i] = at[i + 1]
  OBVIOUS
<1>4. new \in [1 .. n -> 0 .. to]
  BY <1>1
<1> HIDE DEF new
<1>5. 1 \in 1 .. n /\ n \in 1 .. n /\ new[1] = at[2] /\ new[n] = to
  BY <1>1, <1>2, <1>3
<1>6. ASSUME NEW i \in 1 .. n - 1
      PROVE  IF IsReaden(q[i]) THEN q[i].from = new[i] /\ new[i + 1] = End(q[i])
             ELSE new[i + 1] = new[i]
  <2>1. i \in 1 .. n /\ i + 1 \in 1 .. n
    BY ONLY <1>1
  <2>2. new[i] = at[i + 1] /\ new[i + 1] = at[i + 1 + 1]
    BY ONLY <1>3, <2>1
  <2>3. q[i] = events[i + 1]
    BY ONLY <1>1
  <2> QED BY <1>2, <2>1, <2>2, <2>3
<1>7. Len(q) + 1 = n /\ Len(q) = n - 1
  BY <1>1
<1>8. Chain(q, at[2], to)
  <2>1. new \in [1 .. Len(q) + 1 -> 0 .. to] /\ new[1] = at[2] /\ new[Len(q) + 1] = to
    BY <1>4, <1>5, <1>7
  <2>2. \A i \in 1 .. Len(q) : IF IsReaden(q[i]) THEN q[i].from = new[i] /\ new[i + 1] = End(q[i])
                               ELSE new[i + 1] = new[i]
    BY <1>6, <1>7
  <2> QED BY <2>1, <2>2 DEF Chain
<1>9. IF IsReaden(events[1]) THEN events[1].from = at[1] /\ at[2] = End(events[1]) ELSE at[2] = at[1]
  BY <1>2, <1>5
<1> QED BY <1>1, <1>2, <1>8, <1>9 DEF q

-----------------------------------------------------------------------------
(* The parts of the invariant.                                             *)

\* _flushing is small.
LEMMA FlushingType == Flushing => flushing \in 0 .. 2
BY DEF Flushing, Undoing

\* An action comes.
LEMMA CountedAppend ==
  ASSUME IInv, NEW a \in Actions, io' = Append(io, a), step' = step, queueing' = queueing + Bytes(a)
  PROVE  io' \in Seq(Actions) /\ queueing' \in Nat /\ UnderWay' /\ Counted'
<1>1. io \in Seq(Actions) /\ queueing \in Nat /\ (step # "idle" => io # <<>>)
      /\ IsFiniteSet(ToWrite(Pending)) /\ queueing = Cardinality(ToWrite(Pending))
  BY DEF IInv, TypeOK, UnderWay, Counted
<1>2. io' \in Seq(Actions) /\ io' # <<>>
  BY <1>1, AppendFacts
<1>3. Pending \in Seq(Actions) /\ Pending' = Append(Pending, a)
  <2>1. CASE step = "idle"
    BY <1>1, <2>1 DEF Pending
  <2>2. CASE step # "idle"
    <3>1. Tail(io) \in Seq(Actions) /\ Tail(Append(io, a)) = Append(Tail(io), a)
      BY <1>1, <2>2
    <3> QED BY <2>2, <3>1 DEF Pending
  <2> QED BY <2>1, <2>2
<1>4. Bytes(a) \in Nat
  BY DEF Bytes, Actions
<1>5. IsFiniteSet(ToWrite(Append(Pending, a))) /\ Cardinality(ToWrite(Append(Pending, a))) = queueing + Bytes(a)
  BY <1>1, <1>3, ToWriteAppend
<1>6. Counted'
  <2>1. ToWrite(Pending)' = ToWrite(Append(Pending, a))
    BY <1>3 DEF ToWrite
  <2> QED BY <1>5, <2>1 DEF Counted
<1> QED BY <1>1, <1>2, <1>4, <1>6 DEF UnderWay

\* The first action begins.
LEMMA CountedBegin ==
  ASSUME IInv, step = "idle", io # <<>>, step' # "idle", io' = io,
         queueing' = queueing - Bytes(Head(io))
  PROVE  queueing' \in Nat /\ UnderWay' /\ Counted'
<1>1. io \in Seq(Actions) /\ IsFiniteSet(ToWrite(io)) /\ queueing = Cardinality(ToWrite(io))
  BY DEF IInv, TypeOK, Counted, Pending
<1>2. IsFiniteSet(ToWrite(Tail(io))) /\ queueing' = Cardinality(ToWrite(Tail(io))) /\ queueing' \in Nat
  BY <1>1, ToWriteTail
<1>3. ToWrite(Pending)' = ToWrite(Tail(io))
  BY DEF Pending, ToWrite
<1> QED BY <1>2, <1>3 DEF UnderWay, Counted

\* It is over.
LEMMA CountedDone ==
  ASSUME IInv, Done, io # <<>>, step = "idle" => Head(io).op # "write", queueing' = queueing
  PROVE  io' \in Seq(Actions) /\ UnderWay' /\ Counted'
<1>1. io \in Seq(Actions) /\ IsFiniteSet(ToWrite(Pending)) /\ queueing = Cardinality(ToWrite(Pending))
      /\ step' = "idle" /\ io' = Tail(io)
  BY DEF IInv, TypeOK, Counted, Done
<1>2. io' \in Seq(Actions)
  BY <1>1, TailFacts
<1>3. IsFiniteSet(ToWrite(Tail(io))) /\ queueing = Cardinality(ToWrite(Tail(io)))
  <2>1. CASE step = "idle"
    <3>1. Bytes(Head(io)) = 0
      BY <2>1 DEF Bytes
    <3>2. IsFiniteSet(ToWrite(io)) /\ queueing = Cardinality(ToWrite(io))
      BY <1>1, <2>1 DEF Pending
    <3> QED BY <1>1, <3>1, <3>2, ToWriteTail
  <2>2. CASE step # "idle"
    BY <1>1, <2>2 DEF Pending
  <2> QED BY <2>1, <2>2
<1>4. ToWrite(Pending)' = ToWrite(Tail(io))
  BY <1>1 DEF Pending, ToWrite
<1> QED BY <1>1, <1>2, <1>3, <1>4 DEF UnderWay, Counted

\* The data of the handler stay, or an event without data comes.
LEMMA GivenKept ==
  ASSUME IInv, UNCHANGED <<mode, decoding, readen, position, decode>>, held' => held,
         handles' = handles \/ \E e \in Events : ~IsReaden(e) /\ handles' = Append(handles, e)
  PROVE  Modal' /\ Bounded' /\ Ordered'
<1>1. CASE handles' = handles
  <2>1. Sorted => Sorted'
    BY <1>1 DEF Sorted
  <2> QED BY <1>1, <2>1 DEF IInv, Modal, Bounded, Ordered
<1>2. ASSUME NEW e \in Events, ~IsReaden(e), handles' = Append(handles, e)
      PROVE  Modal' /\ Bounded' /\ Ordered'
  <2>1. handles \in Seq(Events) /\ readen \in Nat
    BY DEF IInv, TypeOK
  <2>2. /\ DOMAIN handles' = DOMAIN handles \cup {Len(handles) + 1} /\ handles'[Len(handles) + 1] = e
        /\ \A i \in DOMAIN handles : handles'[i] = handles[i]
    BY <1>2, <2>1, AppendFacts
  <2>3. \A i \in DOMAIN handles' : IsReaden(handles'[i]) => i \in DOMAIN handles /\ handles'[i] = handles[i]
    BY <1>2, <2>2
  <2>4. Modal' /\ Bounded'
    BY <2>3 DEF IInv, Modal, Bounded
  <2>5. Sorted => Sorted'
    BY <2>3 DEF Sorted
  <2>6. ASSUME Chain(handles, position, readen) PROVE Chain(handles', position', readen')
    <3>1. Chain(Append(handles, e), position, readen)
      BY <1>2, <2>1, <2>6, ChainAppend
    <3> QED BY <1>2, <3>1
  <2> QED BY <2>4, <2>5, <2>6 DEF IInv, Ordered
<1> QED BY <1>1, <1>2

\* _flushing stays, and no onFlush comes.
LEMMA FlushingKept ==
  ASSUME IInv, UNCHANGED flushing, step # "undo", step' # "undo",
         handles' = handles \/ \E e \in Events : e.kind # "flush" /\ handles' = Append(handles, e)
  PROVE  Flushing'
<1>1. Undoing = 0 /\ Undoing' = 0
  BY DEF Undoing
<1>2. CASE handles' = handles
  BY <1>1, <1>2 DEF IInv, Flushing
<1>3. ASSUME NEW e \in Events, e.kind # "flush", handles' = Append(handles, e)
      PROVE  Flushing'
  <2>1. handles \in Seq(Events)
    BY DEF IInv, TypeOK
  <2>2. /\ DOMAIN handles' = DOMAIN handles \cup {Len(handles) + 1} /\ handles'[Len(handles) + 1] = e
        /\ \A i \in DOMAIN handles : handles'[i] = handles[i]
    BY <1>3, <2>1, AppendFacts
  <2>3. \A i \in DOMAIN handles' :
          handles'[i].kind = "flush" => i \in DOMAIN handles /\ handles'[i] = handles[i]
    BY <1>3, <2>2
  <2> QED BY <1>1, <2>3 DEF IInv, Flushing
<1> QED BY <1>2, <1>3

-----------------------------------------------------------------------------
(* The steps of the application.                                           *)

\* A call queues an action.
LEMMA CallStep ==
  ASSUME IInv, Load \/ Erase \/ \E size \in Sizes : Read(size) \/ Write(size)
  PROVE  IInv'
<1>1. PICK op \in {"load", "read", "write", "erase"}, size \in Nat :
        /\ CallIO(op, size) /\ queueing' = queueing + Bytes(Action(op, size))
        /\ asked' \in {asked, asked + 1}
  <2>1. queueing \in Nat /\ \A op, size : Action(op, size).op = op /\ Action(op, size).size = size
    BY DEF IInv, TypeOK, Action
  <2>2. CASE Load
    BY <2>1, <2>2 DEF Load, Bytes
  <2>3. CASE Erase
    BY <2>1, <2>3 DEF Erase, Bytes
  <2>4. ASSUME NEW size \in Sizes, Read(size) \/ Write(size)
        PROVE  \E op \in {"read", "write"} :
                 /\ CallIO(op, size) /\ queueing' = queueing + Bytes(Action(op, size))
                 /\ asked' \in {asked, asked + 1}
    BY <2>1, <2>4 DEF Read, Write, Bytes
  <2>5. Sizes \subseteq Nat
    BY IOFileAssumption
  <2> QED BY <2>2, <2>3, <2>4, <2>5
<1>2. /\ io' = Append(io, Action(op, size)) /\ calls < MaxCalls /\ calls' = calls + 1
      /\ UNCHANGED <<mode, decoding, polite, held, loaded, readen, flushing, step, decode, handles,
                     answered, owed, position>>
  BY <1>1 DEF CallIO, choices, fileVars
<1>3. Action(op, size) \in Actions
  BY DEF Action, Actions
<1>4. io' \in Seq(Actions) /\ queueing' \in Nat /\ UnderWay' /\ Counted'
  BY <1>1, <1>2, <1>3, CountedAppend
<1>5. calls' \in 0 .. MaxCalls /\ asked' \in Nat
  BY <1>1, <1>2, IOFileAssumption DEF IInv, TypeOK
<1>6. TypeOK'
  BY <1>2, <1>4, <1>5 DEF IInv, TypeOK
<1>7. Modal' /\ Bounded' /\ Ordered'
  BY <1>2, GivenKept
<1>8. Flushing'
  BY <1>2 DEF IInv, Flushing, Undoing
<1> QED BY <1>4, <1>6, <1>7, <1>8 DEF IInv

\* The application releases its file.
LEMMA DropStep ==
  ASSUME IInv, Drop
  PROVE  IInv'
<1>1. /\ held /\ held' = FALSE
      /\ UNCHANGED <<mode, decoding, polite, loaded, readen, queueing, flushing, io, step, decode,
                     handles, calls, asked, answered, position, owed>>
  BY DEF Drop, choices, fileVars, readVars
<1>2. TypeOK'
  BY <1>1 DEF IInv, TypeOK
<1>3. Modal' /\ Bounded' /\ Ordered'
  BY <1>1, GivenKept
<1>4. Flushing' /\ UnderWay' /\ Counted'
  BY <1>1 DEF IInv, Flushing, Undoing, UnderWay, Counted, Pending, ToWrite
<1> QED BY <1>2, <1>3, <1>4 DEF IInv

-----------------------------------------------------------------------------
(* The steps of the IO thread.                                             *)

\* What an action gives to the handler besides data.
LEMMA HandleType ==
  ASSUME IInv, NEW unique, NEW kind \in {"flush", "error", "readError"},
         Handle(unique, Event(kind, 0, 0))
  PROVE  /\ handles' \in Seq(Events) /\ Event(kind, 0, 0) \in Events
         /\ handles' = handles \/ handles' = Append(handles, Event(kind, 0, 0))
         /\ Event(kind, 0, 0).kind = kind /\ ~IsReaden(Event(kind, 0, 0))
<1>1. /\ Event(kind, 0, 0) \in Events /\ Event(kind, 0, 0).kind = kind
      /\ handles \in Seq(Events)
  BY DEF Event, Events, IInv, TypeOK
<1>2. handles' = handles \/ handles' = Append(handles, Event(kind, 0, 0))
  BY DEF Handle
<1> QED BY <1>1, <1>2, AppendFacts DEF IsReaden

\* An action ends, with an error or without a word.
LEMMA DoneStep ==
  ASSUME IInv, Done, io # <<>>, step \in {"idle", "write", "writeLast"},
         step = "idle" => Head(io).op # "write",
         \/ handles' = handles
         \/ \E kind \in {"error", "readError"} : Handle(UniqueInIO, Event(kind, 0, 0)),
         loaded' \in BOOLEAN,
         UNCHANGED <<mode, decoding, polite, held, calls, readen, queueing, flushing, decode, asked,
                     answered, position, owed>>
  PROVE  IInv'
<1>1. io' \in Seq(Actions) /\ UnderWay' /\ Counted' /\ step' = "idle"
  BY CountedDone DEF Done
<1>2. /\ handles' \in Seq(Events)
      /\ \/ handles' = handles
         \/ \E e \in Events : ~IsReaden(e) /\ e.kind # "flush" /\ handles' = Append(handles, e)
  <2>1. CASE handles' = handles
    BY <2>1 DEF IInv, TypeOK
  <2>2. ASSUME NEW kind \in {"error", "readError"}, Handle(UniqueInIO, Event(kind, 0, 0))
        PROVE  /\ handles' \in Seq(Events)
               /\ \/ handles' = handles
                  \/ \E e \in Events : ~IsReaden(e) /\ e.kind # "flush" /\ handles' = Append(handles, e)
    BY <2>2, HandleType
  <2> QED BY <2>1, <2>2
<1>3. TypeOK'
  BY <1>1, <1>2 DEF IInv, TypeOK
<1>4. Modal' /\ Bounded' /\ Ordered'
  BY <1>2, GivenKept
<1>5. Flushing'
  BY <1>1, <1>2, FlushingKept
<1> QED BY <1>1, <1>3, <1>4, <1>5 DEF IInv

\* The actions which end so.
LEMMA EndStep ==
  ASSUME IInv, \/ LoadFile \/ LoadFails \/ ReadUseless \/ ReadFails \/ WriteFails \/ EraseFails
               \/ WriteFile /\ step = "write"
  PROVE  IInv'
<1> USE DEF appVars, choices, fileVars, readVars
<1>1. loaded \in BOOLEAN /\ (mode # "delete") \in BOOLEAN /\ (step # "idle" => io # <<>>)
  BY DEF IInv, TypeOK, UnderWay
<1>2. CASE LoadFile
  BY <1>1, <1>2, DoneStep DEF LoadFile, Doing
<1>3. CASE LoadFails
  BY <1>1, <1>3, DoneStep DEF LoadFails, Doing, Error
<1>4. CASE ReadUseless
  BY <1>1, <1>4, DoneStep DEF ReadUseless, Doing
<1>5. CASE ReadFails
  BY <1>1, <1>5, DoneStep DEF ReadFails, Doing, Error
<1>6. CASE WriteFails
  BY <1>1, <1>6, DoneStep DEF WriteFails, Error
<1>7. CASE EraseFails
  BY <1>1, <1>7, DoneStep DEF EraseFails, Doing, Error
<1>8. CASE WriteFile /\ step = "write"
  BY <1>1, <1>8, DoneStep DEF WriteFile
<1> QED BY <1>2, <1>3, <1>4, <1>5, <1>6, <1>7, <1>8

\* An action goes on.
LEMMA GoOnStep ==
  ASSUME IInv, WriteDequeue \/ EraseFile \/ (WriteFile /\ step # "write")
  PROVE  IInv'
<1>1. /\ UNCHANGED <<mode, decoding, polite, held, calls, flushing, io, decode, handles, asked,
                     answered, position>>
      /\ step \in {"idle", "writeLast"} /\ step' \in {"write", "writeLast", "flush"}
      /\ loaded' \in BOOLEAN /\ owed' \in BOOLEAN
  BY DEF WriteDequeue, EraseFile, WriteFile, Doing, appVars, choices, fileVars, readVars, IInv, TypeOK
<1>2. readen' = readen
  BY DEF WriteDequeue, EraseFile, WriteFile, fileVars, IInv, Modal
<1>3. queueing' \in Nat /\ UnderWay' /\ Counted'
  <2>1. CASE step = "idle"
    <3>1. io # <<>> /\ queueing' = queueing - Bytes(Head(io))
      <4>1. CASE WriteDequeue
        BY <4>1 DEF WriteDequeue, Doing, Bytes
      <4>2. CASE EraseFile
        BY <4>2 DEF EraseFile, Doing, Bytes, IInv, TypeOK
      <4> QED BY <2>1, <4>1, <4>2 DEF WriteFile
    <3> QED BY <1>1, <2>1, <3>1, CountedBegin
  <2>2. CASE step # "idle"
    <3>1. queueing' = queueing /\ io # <<>>
      BY <2>2 DEF WriteDequeue, EraseFile, WriteFile, Doing, IInv, UnderWay
    <3> QED BY <1>1, <2>2, <3>1 DEF IInv, TypeOK, UnderWay, Counted, Pending, ToWrite
  <2> QED BY <2>1, <2>2
<1>4. TypeOK'
  BY <1>1, <1>2, <1>3 DEF IInv, TypeOK
<1>5. Modal' /\ Bounded' /\ Ordered'
  BY <1>1, <1>2, GivenKept
<1>6. Flushing'
  BY <1>1, FlushingKept
<1> QED BY <1>3, <1>4, <1>5, <1>6 DEF IInv

\* if (!_flushing++): the first onFlush.
LEMMA FlushStep ==
  ASSUME IInv, Flush
  PROVE  IInv'
<1>1. /\ step = "flush" /\ flushing' = flushing + 1
      /\ UNCHANGED <<mode, decoding, polite, held, calls, loaded, readen, queueing, decode, asked,
                     answered, position, owed>>
  BY DEF Flush, appVars, choices, fileVars, readVars
<1>2. io # <<>> /\ handles \in Seq(Events) /\ Undoing = 0 /\ flushing \in {0, 1}
  BY <1>1 DEF IInv, TypeOK, UnderWay, Flushing, Undoing
<1>3. CASE flushing = 0
  <2>1. Done /\ Handle(UniqueInIO, Event("flush", 0, 0))
    BY <1>3 DEF Flush
  <2>2. io' \in Seq(Actions) /\ UnderWay' /\ Counted' /\ step' = "idle"
    BY <1>1, <1>2, <2>1, CountedDone DEF Done
  <2>3. /\ handles' \in Seq(Events) /\ Event("flush", 0, 0) \in Events
        /\ handles' = handles \/ handles' = Append(handles, Event("flush", 0, 0))
        /\ ~IsReaden(Event("flush", 0, 0))
    BY <2>1, HandleType
  <2>4. Modal' /\ Bounded' /\ Ordered'
    BY <1>1, <2>3, GivenKept
  <2>5. Flushing'
    <3>1. \A i \in DOMAIN handles : handles[i].kind # "flush"
      BY <1>2, <1>3 DEF IInv, Flushing
    <3>2. \A i \in DOMAIN handles' : handles'[i].kind = "flush" => i = Len(handles) + 1
      <4>1. CASE handles' = handles
        BY <3>1, <4>1
      <4>2. CASE handles' = Append(handles, Event("flush", 0, 0))
        <5>1. /\ DOMAIN handles' = DOMAIN handles \cup {Len(handles) + 1}
              /\ \A i \in DOMAIN handles : handles'[i] = handles[i]
          BY <1>2, <2>3, <4>2, AppendFacts
        <5> QED BY <3>1, <5>1
      <4> QED BY <2>3, <4>1, <4>2
    <3>3. flushing' = 1 /\ Undoing' = 0
      BY <1>1, <1>3, <2>2 DEF Undoing
    <3> QED BY <3>2, <3>3 DEF Flushing
  <2>6. TypeOK'
    BY <1>1, <2>2, <2>3, <2>5, FlushingType DEF IInv, TypeOK, Flushing, Undoing
  <2> QED BY <2>2, <2>4, <2>5, <2>6 DEF IInv
<1>4. CASE flushing # 0
  <2>1. step' = "undo" /\ io' = io /\ handles' = handles /\ flushing = 1 /\ flushing' = 2
    BY <1>1, <1>2, <1>4 DEF Flush
  <2>2. UnderWay' /\ Counted'
    BY <1>1, <1>2, <2>1 DEF IInv, UnderWay, Counted, Pending, ToWrite
  <2>3. Modal' /\ Bounded' /\ Ordered'
    BY <1>1, <2>1, GivenKept
  <2>4. Flushing'
    BY <1>2, <2>1 DEF IInv, Flushing, Undoing
  <2>5. TypeOK'
    BY <1>1, <2>1 DEF IInv, TypeOK
  <2> QED BY <2>2, <2>3, <2>4, <2>5 DEF IInv
<1> QED BY <1>3, <1>4

\* else --_flushing.
LEMMA FlushUndoStep ==
  ASSUME IInv, FlushUndo
  PROVE  IInv'
<1>1. /\ step = "undo" /\ flushing' = flushing - 1 /\ Done
      /\ UNCHANGED <<mode, decoding, polite, held, calls, loaded, readen, queueing, decode, handles,
                     asked, answered, position, owed>>
  BY DEF FlushUndo, appVars, choices, fileVars, readVars
<1>2. io # <<>>
  BY <1>1 DEF IInv, UnderWay
<1>3. io' \in Seq(Actions) /\ UnderWay' /\ Counted' /\ step' = "idle"
  BY <1>1, <1>2, CountedDone DEF Done
<1>4. Modal' /\ Bounded' /\ Ordered'
  BY <1>1, GivenKept
<1>5. Flushing' /\ flushing' \in 0 .. 2
  <2>1. Undoing = 1 /\ Undoing' = 0
    BY <1>1, <1>3 DEF Undoing
  <2>2. flushing \in {1, 2} /\ flushing' \in {0, 1} /\ (flushing = 2 => flushing' = 1)
    BY <1>1, <2>1 DEF IInv, Flushing
  <2> QED BY <1>1, <2>1, <2>2 DEF IInv, Flushing
<1>6. TypeOK'
  BY <1>1, <1>3, <1>5 DEF IInv, TypeOK
<1> QED BY <1>3, <1>4, <1>5, <1>6 DEF IInv

\* Data are read: they are to be decoded, or come in the handler.
LEMMA ReadFileStep ==
  ASSUME IInv, ReadFile
  PROVE  IInv'
<1> DEFINE size == Least(FileSize - readen, Head(io).size)
           end == size = FileSize - readen
           d == [from |-> readen, size |-> size, end |-> end]
           e == Event("readen", readen, size)
<1>1. /\ step = "idle" /\ io # <<>> /\ Head(io).op = "read" /\ mode = "read" /\ Done
      /\ readen' = readen + size /\ loaded' = TRUE
      /\ IF decoding THEN decode' = Append(decode, d) /\ handles' = handles
         ELSE handles' = Append(handles, e) /\ decode' = decode
      /\ UNCHANGED <<mode, decoding, polite, held, calls, queueing, flushing, asked, answered, position,
                     owed>>
  BY DEF ReadFile, Doing, Handle, appVars, choices, readVars
<1>2. io' \in Seq(Actions) /\ UnderWay' /\ Counted' /\ step' = "idle"
  BY <1>1, CountedDone DEF Done
<1>3. readen \in 0 .. FileSize /\ size \in 0 .. FileSize - readen
  <2>1. readen \in 0 .. FileSize /\ FileSize \in Nat /\ Head(io).size \in Nat
    <3>1. io \in Seq(Actions) /\ io # <<>>
      BY <1>1 DEF IInv, TypeOK
    <3>2. Head(io) \in Actions
      BY <3>1, TailFacts
    <3> QED BY <3>2, IOFileAssumption DEF IInv, TypeOK, Actions
  <2> QED BY <2>1 DEF Least
<1>4. end \in BOOLEAN
  OBVIOUS
<1> HIDE DEF size, end
<1>5. /\ d \in Decodings /\ d.from = readen /\ End(d) = readen'
      /\ e \in Events /\ IsReaden(e) /\ e.from = readen /\ End(e) = readen' /\ e.kind # "flush"
  BY <1>1, <1>3, <1>4 DEF Decodings, Event, Events, IsReaden, End
<1> HIDE DEF d, e
<1>6. readen' \in readen .. FileSize /\ readen \in Nat /\ readen' \in Nat /\ readen <= readen'
  BY <1>1, <1>3, IOFileAssumption
<1>7. handles \in Seq(Events) /\ decode \in Seq(Decodings) /\ position \in Nat /\ position <= readen
  BY DEF IInv, TypeOK, Decodings, Bounded
<1>8. /\ \A i \in DOMAIN handles : IsReaden(handles[i]) => End(handles[i]) \in Nat /\ End(handles[i]) <= readen
      /\ \A i \in DOMAIN decode : End(decode[i]) \in Nat /\ End(decode[i]) <= readen
  <2>1. /\ \A i \in DOMAIN handles : handles[i] \in Events
        /\ \A i \in DOMAIN decode : decode[i] \in Decodings
    BY <1>7
  <2> QED BY <2>1 DEF IInv, Bounded, End, Events, Decodings
<1>9. /\ handles' \in Seq(Events) /\ decode' \in Seq(Decodings)
      /\ handles' = handles \/ handles' = Append(handles, e)
  <2>1. decode \in Seq(Decodings) /\ d \in Decodings /\ handles \in Seq(Events) /\ e \in Events
    BY <1>5, <1>7
  <2>2. Append(decode, d) \in Seq(Decodings) /\ Append(handles, e) \in Seq(Events)
    BY ONLY <2>1, AppendFacts
  <2>3. \/ decode' = Append(decode, d) /\ handles' = handles
        \/ handles' = Append(handles, e) /\ decode' = decode
    BY <1>1 DEF d, e
  <2> QED BY ONLY <2>1, <2>2, <2>3
<1>10. TypeOK'
  BY <1>1, <1>2, <1>6, <1>9 DEF IInv, TypeOK, Decodings
<1>11. Flushing'
  BY <1>1, <1>2, <1>5, <1>9, FlushingKept
<1>12. Modal'
  BY <1>1 DEF IInv, Modal
<1>13. CASE decoding
  <2>1. /\ DOMAIN decode' = DOMAIN decode \cup {Len(decode) + 1} /\ decode'[Len(decode) + 1] = d
        /\ \A i \in DOMAIN decode : i \in Nat /\ i < Len(decode) + 1 /\ decode'[i] = decode[i]
        /\ Len(decode) + 1 \in Nat
    <3>1. decode \in Seq(Decodings) /\ d \in Decodings
      BY <1>5, <1>7
    <3>2. decode' = Append(decode, d)
      BY <1>1, <1>13 DEF d
    <3>3. Len(decode) + 1 \in Nat
      BY ONLY <3>1
    <3> QED BY ONLY <3>1, <3>2, <3>3, AppendFacts
  <2>2. handles' = handles
    BY <1>1, <1>13
  <2>3. Bounded'
    BY <1>1, <1>5, <1>6, <1>7, <1>8, <2>1, <2>2 DEF Bounded
  <2>4. Sorted => Sorted'
    <3> SUFFICES ASSUME Sorted PROVE Sorted'
      OBVIOUS
    <3>1. ASSUME NEW i \in DOMAIN handles, IsReaden(handles[i]), NEW j \in DOMAIN decode'
          PROVE  End(handles[i]) <= decode'[j].from
      BY <1>5, <1>8, <2>1, <3>1 DEF Sorted
    <3>2. ASSUME NEW i \in DOMAIN decode' PROVE position <= decode'[i].from
      BY <1>5, <1>7, <2>1 DEF Sorted
    <3>3. ASSUME NEW i \in DOMAIN decode', NEW j \in DOMAIN decode', i < j
          PROVE  End(decode'[i]) <= decode'[j].from
      <4>1. i \in DOMAIN decode
        BY <2>1, <3>3
      <4>2. CASE j \in DOMAIN decode
        BY <2>1, <3>3, <4>1, <4>2 DEF Sorted
      <4>3. CASE j = Len(decode) + 1
        BY <1>5, <1>8, <2>1, <4>1, <4>3
      <4> QED BY <2>1, <4>2, <4>3
    <3> QED BY <1>1, <2>2, <3>1, <3>2, <3>3 DEF Sorted
  <2> QED BY <1>1, <1>2, <1>10, <1>11, <1>12, <1>13, <2>3, <2>4 DEF IInv, Ordered
<1>14. CASE ~decoding
  <2>1. /\ DOMAIN handles' = DOMAIN handles \cup {Len(handles) + 1} /\ handles'[Len(handles) + 1] = e
        /\ \A i \in DOMAIN handles : handles'[i] = handles[i]
        /\ decode' = decode /\ handles' = Append(handles, e)
    <3>1. handles \in Seq(Events) /\ e \in Events
      BY <1>5, <1>7
    <3>2. decode' = decode /\ handles' = Append(handles, e)
      BY <1>1, <1>14 DEF e
    <3> QED BY ONLY <3>1, <3>2, AppendFacts
  <2>2. Bounded'
    BY <1>1, <1>5, <1>6, <1>7, <1>8, <2>1 DEF Bounded
  <2>3. Chain(handles, position, readen) => Chain(handles', position, readen')
    BY <1>5, <1>6, <1>7, <2>1, ChainAppend
  <2> QED BY <1>1, <1>2, <1>10, <1>11, <1>12, <1>14, <2>2, <2>3 DEF IInv, Ordered
<1> QED BY <1>13, <1>14

-----------------------------------------------------------------------------
(* The steps of the decoding thread.                                       *)

\* What is decoded leaves, and comes in the handler or not.
LEMMA DecodedStep ==
  ASSUME IInv, decode # <<>>, decode' = Tail(decode),
         LET d == Head(decode) IN
           handles' = handles \/ handles' = Append(handles, Event("readen", d.from, d.size)),
         UNCHANGED <<mode, decoding, readen, position, flushing, step, held>>
  PROVE  /\ handles' \in Seq(Events) /\ decode' \in Seq(Decodings)
         /\ Modal' /\ Bounded' /\ Ordered' /\ Flushing'
<1> DEFINE d == Head(decode)
           e == Event("readen", d.from, d.size)
<1>1. handles \in Seq(Events) /\ decode \in Seq(Decodings) /\ decoding /\ mode = "read"
  BY DEF IInv, TypeOK, Modal, Decodings
<1>2. /\ decode' \in Seq(Decodings) /\ d \in Decodings /\ 1 \in DOMAIN decode /\ decode[1] = d
      /\ \A i \in DOMAIN decode' : i \in Nat \ {0} /\ i + 1 \in DOMAIN decode /\ decode'[i] = decode[i + 1]
  BY <1>1, TailFacts
<1>3. /\ e \in Events /\ e.from = d.from /\ End(e) = End(d) /\ e.kind = "readen"
  <2> HIDE DEF d
  <2> QED BY <1>2 DEF Event, Events, Decodings, End
<1>4. handles' = handles \/ handles' = Append(handles, e)
  OBVIOUS
<1> HIDE DEF d, e
<1>5. handles' \in Seq(Events)
  <2>1. handles \in Seq(Events) /\ e \in Events
    BY <1>1, <1>3
  <2>2. Append(handles, e) \in Seq(Events)
    BY ONLY <2>1, AppendFacts
  <2> QED BY ONLY <1>4, <2>1, <2>2
<1>6. \/ handles' = handles
      \/ /\ DOMAIN handles' = DOMAIN handles \cup {Len(handles) + 1} /\ handles'[Len(handles) + 1] = e
         /\ \A i \in DOMAIN handles : handles'[i] = handles[i] /\ i < Len(handles) + 1 /\ i \in Nat
         /\ Len(handles) + 1 \in Nat
  <2>1. CASE handles' = Append(handles, e)
    <3>1. Len(handles) + 1 \in Nat
      BY <1>1
    <3>2. /\ DOMAIN handles' = DOMAIN handles \cup {Len(handles) + 1} /\ handles'[Len(handles) + 1] = e
          /\ \A i \in DOMAIN handles : i \in Nat /\ i < Len(handles) + 1 /\ handles'[i] = handles[i]
      BY <1>1, <1>3, <2>1, AppendFacts
    <3> QED BY <3>1, <3>2
  <2> QED BY <1>4, <2>1
<1>7. Modal'
  BY <1>1 DEF Modal
<1>8. Bounded'
  <2>1. End(d) <= readen
    BY <1>2 DEF IInv, Bounded
  <2> QED BY <1>2, <1>3, <1>6, <2>1 DEF IInv, Bounded
<1>9. Sorted => Sorted'
  <2> SUFFICES ASSUME Sorted PROVE Sorted'
    OBVIOUS
  <2>1. ASSUME NEW i \in DOMAIN decode'
        PROVE  /\ position <= decode'[i].from /\ End(d) <= decode'[i].from
               /\ \A j \in DOMAIN decode' : i < j => End(decode'[i]) <= decode'[j].from
               /\ \A k \in DOMAIN handles : IsReaden(handles[k]) => End(handles[k]) <= decode'[i].from
    BY <1>2 DEF Sorted
  <2>2. /\ position <= d.from
        /\ \A k \in DOMAIN handles : IsReaden(handles[k]) => End(handles[k]) <= d.from
    BY <1>2 DEF Sorted
  <2>3. CASE handles' = handles
    BY <2>1, <2>3 DEF Sorted
  <2>4. CASE handles' # handles
    <3>1. ASSUME NEW i \in DOMAIN handles', IsReaden(handles'[i])
          PROVE  position <= handles'[i].from
      BY <1>3, <1>6, <2>2, <2>4, <3>1 DEF Sorted
    <3>2. ASSUME NEW i \in DOMAIN handles', IsReaden(handles'[i]), NEW j \in DOMAIN decode'
          PROVE  End(handles'[i]) <= decode'[j].from
      BY <1>3, <1>6, <2>1, <2>4, <3>2
    <3>3. ASSUME NEW i \in DOMAIN handles', IsReaden(handles'[i]),
                 NEW j \in DOMAIN handles', IsReaden(handles'[j]), i < j
          PROVE  End(handles'[i]) <= handles'[j].from
      <4>1. i \in DOMAIN handles
        BY <1>6, <2>4, <3>3
      <4>2. CASE j \in DOMAIN handles
        BY <1>6, <2>4, <3>3, <4>1, <4>2 DEF Sorted
      <4>3. CASE j = Len(handles) + 1
        BY <1>3, <1>6, <2>2, <2>4, <3>3, <4>1, <4>3
      <4> QED BY <1>6, <2>4, <4>2, <4>3
    <3> QED BY <2>1, <3>1, <3>2, <3>3 DEF Sorted
  <2> QED BY <2>3, <2>4
<1>10. Flushing'
  <2>1. \A i \in DOMAIN handles' : handles'[i].kind = "flush" => i \in DOMAIN handles /\ handles'[i] = handles[i]
    BY <1>3, <1>6
  <2> QED BY <2>1 DEF IInv, Flushing, Undoing
<1> QED BY <1>1, <1>2, <1>5, <1>7, <1>8, <1>9, <1>10 DEF IInv, Ordered

\* The decoder may keep the data, and may ask for more.
LEMMA DecodeStep ==
  ASSUME IInv, DecodingThread
  PROVE  IInv'
<1>1. /\ decode # <<>> /\ decode' = Tail(decode)
      /\ LET d == Head(decode) IN
           handles' = handles \/ handles' = Append(handles, Event("readen", d.from, d.size))
      /\ UNCHANGED <<mode, decoding, polite, held, calls, loaded, readen, queueing, flushing, step,
                     position, owed>>
      /\ answered' \in {answered, answered + 1} /\ asked' \in {asked, asked + 1}
      /\ io' = io \/ \E want \in Sizes : io' = Append(io, Action("read", want))
  BY DEF DecodingThread, DecodeUseless, Decode, Handle, appVars, choices, fileVars, readVars
<1>2. /\ handles' \in Seq(Events) /\ decode' \in Seq(Decodings)
      /\ Modal' /\ Bounded' /\ Ordered' /\ Flushing'
  BY <1>1, DecodedStep
<1>3. io' \in Seq(Actions) /\ UnderWay' /\ Counted'
  <2>1. CASE io' = io
    BY <1>1, <2>1 DEF IInv, TypeOK, UnderWay, Counted, Pending, ToWrite
  <2>2. ASSUME NEW want \in Sizes, io' = Append(io, Action("read", want))
        PROVE  io' \in Seq(Actions) /\ UnderWay' /\ Counted'
    <3>1. Action("read", want) \in Actions /\ Bytes(Action("read", want)) = 0
      BY IOFileAssumption DEF Action, Actions, Bytes
    <3>2. queueing' = queueing + 0
      BY <1>1 DEF IInv, TypeOK
    <3> QED BY <1>1, <2>2, <3>1, <3>2, CountedAppend
  <2> QED BY <1>1, <2>1, <2>2
<1>4. TypeOK'
  BY <1>1, <1>2, <1>3 DEF IInv, TypeOK, Decodings
<1> QED BY <1>2, <1>3, <1>4 DEF IInv

-----------------------------------------------------------------------------
(* The events of the file.                                                 *)

\* The first event leaves the handler.
LEMMA DispatchStep ==
  ASSUME IInv, Dispatch
  PROVE  IInv'
<1> DEFINE e == Head(handles)
<1>1. /\ handles # <<>> /\ handles' = Tail(handles)
      /\ UNCHANGED <<mode, decoding, polite, held, calls, loaded, readen, queueing, io, step, decode,
                     asked>>
      /\ position' = position \/ (IsReaden(e) /\ position' = End(e))
      /\ held => position' = IF IsReaden(e) THEN End(e) ELSE position
      /\ flushing' = flushing \/ (e.kind = "flush" /\ flushing' = flushing - 1)
      /\ answered' \in {answered, answered + 1} /\ owed' \in BOOLEAN
  BY DEF Dispatch, DispatchDead, DispatchFlush, DispatchReaden, DispatchError, First, IsReaden, End,
         Alive, appVars, choices, fileVars, readVars, IInv, TypeOK
<1>2. handles \in Seq(Events) /\ position \in 0 .. FileSize /\ readen \in 0 .. FileSize
  BY DEF IInv, TypeOK
<1>3. /\ handles' \in Seq(Events) /\ e \in Events /\ 1 \in DOMAIN handles /\ handles[1] = e
      /\ \A i \in DOMAIN handles' : i \in Nat \ {0} /\ i + 1 \in DOMAIN handles /\ handles'[i] = handles[i + 1]
  BY <1>1, <1>2, TailFacts
<1> HIDE DEF e
<1>4. IsReaden(e) => End(e) <= readen /\ End(e) \in Nat
  BY <1>3 DEF IInv, Bounded, Events, End
<1>5. position' \in 0 .. FileSize /\ position' <= readen
  BY <1>1, <1>2, <1>4, IOFileAssumption DEF IInv, Bounded
<1>6. Flushing'
  <2>1. Undoing' = Undoing /\ Undoing \in {0, 1}
    BY <1>1 DEF Undoing
  <2>2. CASE e.kind = "flush"
    <3>1. flushing = Undoing + 1 /\ flushing' \in {Undoing, Undoing + 1}
      BY <1>1, <1>3, <2>1, <2>2 DEF IInv, Flushing
    <3>2. \A i \in DOMAIN handles' : handles'[i].kind # "flush"
      BY <1>3, <2>2 DEF IInv, Flushing
    <3> QED BY <2>1, <3>1, <3>2 DEF Flushing
  <2>3. CASE e.kind # "flush"
    BY <1>1, <1>3, <2>1, <2>3 DEF IInv, Flushing
  <2> QED BY <2>2, <2>3
<1>7. flushing' \in 0 .. 2
  BY <1>6 DEF Flushing, Undoing
<1>8. TypeOK'
  BY <1>1, <1>3, <1>5, <1>7 DEF IInv, TypeOK
<1>9. Modal' /\ UnderWay' /\ Counted'
  <2>1. Modal'
    BY <1>1, <1>3 DEF IInv, Modal
  <2> QED BY <1>1, <2>1 DEF IInv, UnderWay, Counted, Pending, ToWrite
<1>10. Bounded'
  BY <1>1, <1>3, <1>5 DEF IInv, Bounded
<1>11. Ordered'
  <2> SUFFICES ASSUME held PROVE IF decoding THEN Sorted' ELSE Chain(handles', position', readen)
    BY <1>1 DEF Ordered
  <2>1. position' = IF IsReaden(e) THEN End(e) ELSE position
    BY <1>1
  <2>2. CASE decoding
    <3>1. Sorted
      BY <2>2 DEF IInv, Ordered
    <3>2. ASSUME NEW i \in DOMAIN handles', IsReaden(handles'[i])
          PROVE  /\ position' <= handles'[i].from
                 /\ \A j \in DOMAIN handles' : i < j /\ IsReaden(handles'[j]) =>
                      End(handles'[i]) <= handles'[j].from
                 /\ \A j \in DOMAIN decode : End(handles'[i]) <= decode[j].from
      <4>1. i + 1 \in DOMAIN handles /\ handles'[i] = handles[i + 1] /\ 1 < i + 1
        BY <1>3
      <4>2. position' <= handles'[i].from
        BY <1>3, <2>1, <3>1, <3>2, <4>1 DEF Sorted
      <4>3. ASSUME NEW j \in DOMAIN handles', i < j, IsReaden(handles'[j])
            PROVE  End(handles'[i]) <= handles'[j].from
        <5>1. j + 1 \in DOMAIN handles /\ handles'[j] = handles[j + 1] /\ i + 1 < j + 1
          BY <1>3, <4>3
        <5> QED BY <3>1, <3>2, <4>1, <4>3, <5>1 DEF Sorted
      <4> QED BY <3>1, <3>2, <4>1, <4>2, <4>3 DEF Sorted
    <3>3. \A i \in DOMAIN decode : position' <= decode[i].from
      BY <1>3, <2>1, <3>1 DEF Sorted
    <3> QED BY <1>1, <2>2, <3>1, <3>2, <3>3 DEF Sorted
  <2>3. CASE ~decoding
    <3>1. Chain(handles, position, readen)
      BY <2>3 DEF IInv, Ordered
    <3>2. Chain(Tail(handles), IF IsReaden(Head(handles)) THEN End(Head(handles)) ELSE position, readen)
      BY <1>1, <1>2, <3>1, ChainTail
    <3> QED BY <1>1, <2>1, <2>3, <3>2 DEF e
  <2> QED BY <2>2, <2>3
<1> QED BY <1>6, <1>8, <1>9, <1>10, <1>11 DEF IInv

-----------------------------------------------------------------------------

\* Nothing is asked for.
LEMMA InitStep == Init => IInv
<1> SUFFICES ASSUME Init PROVE IInv
  OBVIOUS
<1>1. TypeOK
  <2>1. /\ <<>> \in Seq(Actions) /\ <<>> \in Seq(Events)
        /\ <<>> \in Seq([from : Nat, size : Nat, end : BOOLEAN])
    OBVIOUS
  <2>2. /\ io \in Seq(Actions) /\ handles \in Seq(Events)
        /\ decode \in Seq([from : Nat, size : Nat, end : BOOLEAN])
    BY <2>1 DEF Init
  <2>3. readen \in 0 .. FileSize /\ position \in 0 .. FileSize /\ calls \in 0 .. MaxCalls
    BY IOFileAssumption DEF Init
  <2>4. /\ mode \in Modes /\ decoding \in BOOLEAN /\ polite \in BOOLEAN
        /\ held \in BOOLEAN /\ loaded \in BOOLEAN /\ owed \in BOOLEAN
    BY DEF Init
  <2>5. /\ queueing \in Nat /\ flushing \in 0 .. 2 /\ asked \in Nat /\ answered \in Nat
        /\ step \in {"idle", "write", "writeLast", "flush", "undo"}
    BY DEF Init
  <2> QED BY <2>2, <2>3, <2>4, <2>5 DEF TypeOK
<1>2. Modal /\ UnderWay /\ Bounded /\ Flushing
  BY DEF Init, Modal, UnderWay, Bounded, Flushing, Undoing
<1>3. Ordered
  <2>1. Sorted
    BY DEF Init, Sorted
  <2>2. Chain(<<>>, 0, 0)
    <3> DEFINE at == [i \in 1 .. Len(<<>>) + 1 |-> 0]
    <3>1. at \in [1 .. Len(<<>>) + 1 -> 0 .. 0] /\ at[1] = 0 /\ at[Len(<<>>) + 1] = 0 /\ 1 .. Len(<<>>) = {}
      OBVIOUS
    <3> HIDE DEF at
    <3> QED BY <3>1 DEF Chain
  <2> QED BY <2>1, <2>2 DEF Init, Ordered
<1>4. Counted
  <2>1. ToWrite(Pending) = {}
    BY DEF Init, ToWrite, Pending
  <2> QED BY <2>1, FS_EmptySet DEF Init, Counted
<1> QED BY <1>1, <1>2, <1>3, <1>4 DEF IInv

\* IInv holds in every state, whatever the application asks, the disk refuses and the
\* decoder keeps or asks again, at any pace of the threads.
THEOREM Inductive == Spec => []IInv
<1>1. IInv /\ [Next]_vars => IInv'
  <2> SUFFICES ASSUME IInv, [Next]_vars PROVE IInv'
    OBVIOUS
  <2>1. CASE Application
    BY <2>1, CallStep, DropStep DEF Application
  <2>2. CASE IOThread
    BY <2>2, EndStep, GoOnStep, ReadFileStep, FlushStep, FlushUndoStep DEF IOThread
  <2>3. CASE DecodingThread
    BY <2>3, DecodeStep
  <2>4. CASE Dispatch
    BY <2>4, DispatchStep
  <2>5. CASE UNCHANGED vars
    <3>1. TypeOK'
      BY <2>5 DEF IInv, TypeOK, vars, choices
    <3>2. UnderWay' /\ Flushing' /\ Counted'
      BY <2>5 DEF IInv, UnderWay, Flushing, Undoing, Counted, Pending, ToWrite, vars
    <3>3. Modal' /\ Bounded' /\ Ordered'
      BY <2>5, GivenKept DEF vars, choices
    <3> QED BY <3>1, <3>2, <3>3 DEF IInv
  <2> QED BY <2>1, <2>2, <2>3, <2>4, <2>5 DEF Next
<1> QED BY InitStep, <1>1, PTL DEF Spec

\* Every variable keeps its type: _queueing and _flushing, unsigned counters of several
\* threads, never go under zero.
THEOREM TypeCorrect == Spec => []TypeOK
<1>1. IInv => TypeOK
  BY DEF IInv
<1> QED BY Inductive, <1>1, PTL

\* The data are given in the order of the file, each byte once.
THEOREM InOrder == Spec => []ReadInOrder
<1>1. IInv => ReadInOrder
  <2> SUFFICES ASSUME IInv, held, handles # <<>>, First.kind = "readen"
               PROVE  First.from >= position /\ (~decoding => First.from = position)
    BY DEF ReadInOrder
  <2>1. /\ handles \in Seq(Events) /\ position \in Nat /\ readen \in Nat
        /\ 1 \in DOMAIN handles /\ handles[1] = First /\ First \in Events /\ IsReaden(First)
    <3>1. handles \in Seq(Events) /\ position \in Nat /\ readen \in Nat
      BY DEF IInv, TypeOK
    <3> QED BY <3>1, TailFacts DEF First, IsReaden
  <2>2. CASE decoding
    BY <2>1, <2>2 DEF IInv, Ordered, Sorted, Events
  <2>3. CASE ~decoding
    BY <2>1, <2>3, ChainTail DEF IInv, Ordered, First
  <2> QED BY <2>2, <2>3
<1> QED BY Inductive, <1>1, PTL

\* _queueing counts what is still to write.
THEOREM QueueingExact == Spec => []QueueingIsExact
<1>1. IInv => QueueingIsExact
  BY DEF IInv, Counted, QueueingIsExact
<1> QED BY Inductive, <1>1, PTL
=============================================================================
